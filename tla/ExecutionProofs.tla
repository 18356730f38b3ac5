-------------------------- MODULE ExecutionProofs --------------------------
(***************************************************************************)
(* Proofs about Execution, for any number of parties and any sequence of   *)
(* rounds, stages and kinds of message.                                    *)
(*                                                                         *)
(* A message of round k from s is at any time in at most one place of its  *)
(* way to j: among what s has yet to send, on the wire, in one of j's two  *)
(* queues, in j's state machine, or lost.  Hence an agent that has round k *)
(* knows that everybody is in round k, no message queued at an agent is    *)
(* behind its round or more than one ahead, and a queue whose messages are *)
(* all of one round has at most one of each of the others.                 *)
(*                                                                         *)
(* And among parties that are well nothing is forgotten: what a waiting    *)
(* agent misses is in one of those places.  So when all wait, the one that *)
(* is furthest behind waits for something lost.                            *)
(***************************************************************************)
EXTENDS Execution, FiniteSetTheorems, SequenceTheorems, TLAPS

(* What the state machine of j or one of its queues holds. *)
Here(j) == got[j] \cup Range(app[j]) \cup Range(inbox[j])

(* The message of round k from s has left s for j. *)
Sent(s, k, j) ==
    \/ [sender |-> s, round |-> k] \in Here(j)
    \/ [sender |-> s, round |-> k, to |-> j] \in wire \cup lost

(* A message has left nobody who has not reached its round. *)
Origin == \A s, j \in Parties : \A k \in Rounds : Sent(s, k, j) => s # j /\ k <= pos[s]

(* It is in one place, once. *)
Once(j) ==
    /\ got[j] \cap Range(app[j]) = {}
    /\ got[j] \cap Range(inbox[j]) = {}
    /\ Range(app[j]) \cap Range(inbox[j]) = {}
    /\ IsInjective(app[j]) /\ IsInjective(inbox[j])
    /\ \A m \in wire \cup lost : m.to = j =>
          [sender |-> m.sender, round |-> m.round] \notin Here(j)

(* What an agent has yet to send has not left it in another way. *)
Outbox(i) ==
    /\ \A x \in DOMAIN unsent[i] :
          /\ unsent[i][x].round \in Rounds /\ unsent[i][x].round <= pos[i]
          /\ unsent[i][x].to \subseteq Others(i)
          /\ \A j \in unsent[i][x].to : ~Sent(i, unsent[i][x].round, j)
    /\ \A x, y \in DOMAIN unsent[i] :
          x # y /\ unsent[i][x].round = unsent[i][y].round =>
              unsent[i][x].to \cap unsent[i][y].to = {}

(* What the agent awaits, and what it has. *)
Agent(i) ==
    /\ \A k \in Rounds : k < pos[i] => RoundMessages(i, k) \subseteq got[i]
    /\ mode[i] = "computing" => pos[i] <= R /\ Complete(i, pos[i], got[i])
    /\ mode[i] = "receiving" => pos[i] \in Rounds /\ app[i] = <<>>
    /\ mode[i] = "sending" => pos[i] # 0
    /\ mode[i] = "finished" => pos[i] = R + 1
    /\ Running(i) /\ mode[i] = "sending" =>
          /\ unsent[i] # <<>>
          /\ pos[i] \in Rounds =>
                LET m == unsent[i][Len(unsent[i])] IN
                /\ m.round = pos[i]
                /\ Kind[pos[i]] = "broadcast" => m.to = Others(i)
    /\ status[i] = "done" => mode[i] = "finished"
    /\ ~Running(i) => app[i] = <<>> /\ inbox[i] = <<>> /\ unsent[i] = <<>>

IndInv ==
    /\ TypeOK /\ Origin /\ wire \cap lost = {}
    /\ \A i \in Parties : Once(i) /\ Outbox(i) /\ Agent(i)
    /\ OverflowOnlyWhileSending /\ MistypedOnlyAtTheEdge

-----------------------------------------------------------------------------
(* Numbers of rounds and parties. *)
LEMMA Constants ==
  /\ R \in Nat /\ R >= 1 /\ Rounds = 1 .. R /\ Parties = 1 .. N /\ N \in Nat /\ N >= 2
  /\ \A k \in Rounds : Kind[k] \in {"broadcast", "direct"}
  <1>1. Kind \in Seq({"broadcast", "direct"}) /\ Kind # <<>>
    BY KindAssumption
  <1>2. R \in Nat /\ R >= 1
    BY <1>1 DEF R
  <1>3. \A k \in Rounds : Kind[k] \in {"broadcast", "direct"}
    BY <1>1 DEF Rounds, R
  <1> QED
    BY <1>2, <1>3, NAssumption DEF Rounds, Parties

(* An index of the others is a party, another one for each. *)
LEMMA OtherIndex ==
  ASSUME NEW i \in Parties, NEW x \in 1 .. N - 1
  PROVE  /\ (IF x < i THEN x ELSE x + 1) \in Others(i)
         /\ \A y \in 1 .. N - 1 : x # y =>
               (IF x < i THEN x ELSE x + 1) # (IF y < i THEN y ELSE y + 1)
  BY NAssumption DEF Others, Parties

(* What ToSend adds to an agent's messages. *)
LEMMA ToSendFacts ==
  ASSUME NEW i \in Parties, NEW k \in 0 .. R + 1
  PROVE  /\ ToSend(i, k) \in Seq(Outgoing)
         /\ k \notin Rounds => ToSend(i, k) = <<>>
         /\ k \in Rounds => ToSend(i, k) # <<>>
         /\ \A x \in DOMAIN ToSend(i, k) :
               /\ ToSend(i, k)[x].round = k /\ k \in Rounds
               /\ ToSend(i, k)[x].to \subseteq Others(i)
               /\ Kind[k] = "broadcast" => ToSend(i, k)[x].to = Others(i)
         /\ \A x, y \in DOMAIN ToSend(i, k) :
               x # y => ToSend(i, k)[x].to \cap ToSend(i, k)[y].to = {}
  <1>1. CASE k \notin Rounds
    <2>1. ToSend(i, k) = <<>>
      BY <1>1 DEF ToSend
    <2>2. <<>> \in Seq(Outgoing) /\ DOMAIN <<>> = {}
      OBVIOUS
    <2> QED
      BY <1>1, <2>1, <2>2
  <1>2. CASE k \in Rounds /\ Kind[k] = "broadcast"
    <2> DEFINE m == [round |-> k, to |-> Others(i)]
    <2>1. m \in Outgoing
      BY <1>2 DEF Outgoing, Others
    <2>2. ToSend(i, k) = <<m>>
      BY <1>2 DEF ToSend
    <2>3. m.round = k /\ m.to = Others(i)
      OBVIOUS
    <2> HIDE DEF m
    <2>4. <<m>> \in Seq(Outgoing) /\ DOMAIN <<m>> = {1} /\ <<m>>[1] = m /\ <<m>> # <<>>
      BY <2>1
    <2> QED
      BY <1>2, <2>2, <2>3, <2>4
  <1>3. CASE k \in Rounds /\ Kind[k] # "broadcast"
    <2> DEFINE o(x) == IF x < i THEN x ELSE x + 1
               s == [x \in 1 .. N - 1 |-> [round |-> k, to |-> {o(x)}]]
    <2>1. ToSend(i, k) = s
      BY <1>3 DEF ToSend
    <2>2. N - 1 \in Nat /\ N - 1 >= 1
      BY NAssumption
    <2>3. \A x \in 1 .. N - 1 : o(x) \in Others(i)
      BY OtherIndex
    <2>4. \A x, y \in 1 .. N - 1 : x # y => o(x) # o(y)
      BY OtherIndex
    <2> HIDE DEF o
    <2>5. \A x \in 1 .. N - 1 : [round |-> k, to |-> {o(x)}] \in Outgoing
      BY <1>3, <2>3 DEF Outgoing, Others
    <2>6. s \in [1 .. N - 1 -> Outgoing]
      BY <2>5
    <2>7. s \in Seq(Outgoing) /\ DOMAIN s = 1 .. N - 1
      BY <2>2, <2>6
    <2>8. \A x \in 1 .. N - 1 : s[x].round = k /\ s[x].to = {o(x)}
      OBVIOUS
    <2>9. s # <<>>
      BY <2>2, <2>7
    <2> HIDE DEF s
    <2> QED
      BY <1>3, <2>1, <2>3, <2>4, <2>7, <2>8, <2>9
  <1> QED
    BY <1>1, <1>2, <1>3

-----------------------------------------------------------------------------
(* Both parts of a queue that is cut after its first x messages. *)
LEMMA CutFacts ==
  ASSUME NEW S, NEW q \in Seq(S), NEW x \in 0 .. Len(q), IsInjective(q)
  PROVE  /\ SubSeq(q, 1, x) \in Seq(S) /\ SubSeq(q, x + 1, Len(q)) \in Seq(S)
         /\ IsInjective(SubSeq(q, x + 1, Len(q)))
         /\ Range(q) = Range(SubSeq(q, 1, x)) \cup Range(SubSeq(q, x + 1, Len(q)))
         /\ Range(SubSeq(q, 1, x)) \cap Range(SubSeq(q, x + 1, Len(q))) = {}
         /\ x = Len(q) => SubSeq(q, x + 1, Len(q)) = <<>>
  <1> DEFINE a == SubSeq(q, 1, x)
             b == SubSeq(q, x + 1, Len(q))
  <1>0. x \in Nat /\ x <= Len(q) /\ Len(q) \in Nat
    OBVIOUS
  <1>1. Len(q) \in Nat /\ DOMAIN q = 1 .. Len(q) /\ \A i \in 1 .. Len(q) : q[i] \in S
    OBVIOUS
  <1>2. /\ a \in Seq(S) /\ Len(a) = x /\ \A i \in 1 .. x : a[i] = q[i]
    <2>1. 1 \in Int /\ x \in Int /\ \A i \in 1 .. x : q[i] \in S
      BY <1>1
    <2>2. /\ a \in Seq(S)
          /\ Len(a) = IF 1 <= x THEN x - 1 + 1 ELSE 0
          /\ \A i \in 1 .. x - 1 + 1 : a[i] = q[1 + i - 1]
      BY <2>1, SubSeqProperties
    <2> HIDE DEF a
    <2> QED
      BY <1>1, <2>2
  <1>3. /\ b \in Seq(S) /\ Len(b) = Len(q) - x
        /\ \A i \in 1 .. Len(q) - x : b[i] = q[x + i]
    <2>1. x + 1 \in Int /\ Len(q) \in Int /\ \A i \in x + 1 .. Len(q) : q[i] \in S
      BY <1>1
    <2>2. /\ b \in Seq(S)
          /\ Len(b) = IF x + 1 <= Len(q) THEN Len(q) - (x + 1) + 1 ELSE 0
          /\ \A i \in 1 .. Len(q) - (x + 1) + 1 : b[i] = q[(x + 1) + i - 1]
      BY <2>1, SubSeqProperties
    <2> HIDE DEF b
    <2>3. Len(q) - (x + 1) + 1 = Len(q) - x /\ \A i \in 1 .. Len(q) - x : (x + 1) + i - 1 = x + i
      BY <1>1
    <2>4. Len(b) = Len(q) - x
      <3>1. Len(b) = IF x + 1 <= Len(q) THEN Len(q) - (x + 1) + 1 ELSE 0
        BY <2>2
      <3> HIDE DEF b
      <3> QED
        BY <1>0, <3>1
    <2> QED
      BY <2>2, <2>3, <2>4
  <1> HIDE DEF a, b
  <1>4. x = Len(q) => b = <<>>
    <2>1. Len(b) = Len(q) - x /\ b \in Seq(S)
      BY <1>3
    <2>2. x = Len(q) => Len(b) = 0
      BY <1>0, <2>1
    <2> QED
      BY <2>1, <2>2
  <1>5. DOMAIN a = 1 .. x /\ DOMAIN b = 1 .. Len(q) - x
    BY <1>2, <1>3
  <1>6. \A i, j \in DOMAIN b : b[i] = b[j] => i = j
    <2> SUFFICES ASSUME NEW i \in 1 .. Len(q) - x, NEW j \in 1 .. Len(q) - x, b[i] = b[j]
                 PROVE  i = j
      BY <1>5
    <2>1. x + i \in 1 .. Len(q) /\ x + j \in 1 .. Len(q) /\ q[x + i] = q[x + j]
      BY <1>1, <1>3
    <2>2. x + i = x + j
      BY <2>1, <1>1 DEF IsInjective
    <2> QED
      BY <2>2, <1>1
  <1>7. Range(q) = Range(a) \cup Range(b)
    <2>1. ASSUME NEW i \in 1 .. Len(q) PROVE q[i] \in Range(a) \cup Range(b)
      <3>1. CASE i <= x
        BY <3>1, <1>1, <1>2, <1>5 DEF Range
      <3>2. CASE ~(i <= x)
        <4>1. i - x \in 1 .. Len(q) - x /\ x + (i - x) = i
          BY <3>2, <1>1
        <4>2. b[i - x] = q[i]
          BY <4>1, <1>3
        <4> QED
          BY <4>1, <4>2, <1>5 DEF Range
      <3> QED
        BY <3>1, <3>2
    <2>2. \A i \in 1 .. x : a[i] \in Range(q)
      BY <1>1, <1>2 DEF Range
    <2>3. ASSUME NEW i \in 1 .. Len(q) - x PROVE b[i] \in Range(q)
      <3>1. x + i \in 1 .. Len(q) /\ b[i] = q[x + i]
        BY <1>0, <1>1, <1>3
      <3> QED
        BY <3>1, <1>1 DEF Range
    <2> QED
      BY <2>1, <2>2, <2>3, <1>1, <1>5 DEF Range
  <1>8. Range(a) \cap Range(b) = {}
    <2> SUFFICES ASSUME NEW i \in 1 .. x, NEW j \in 1 .. Len(q) - x, a[i] = b[j]
                 PROVE  FALSE
      BY <1>5 DEF Range
    <2>1. i \in 1 .. Len(q) /\ x + j \in 1 .. Len(q) /\ q[i] = q[x + j] /\ i # x + j
      BY <1>1, <1>2, <1>3
    <2> QED
      BY <2>1, <1>1 DEF IsInjective
  <1>9. IsInjective(b)
    BY <1>6 DEF IsInjective
  <1> QED
    BY <1>2, <1>3, <1>4, <1>7, <1>8, <1>9 DEF a, b

(* Queues whose messages are of one round have at most one of each sender. *)
LEMMA OneRoundFits ==
  ASSUME NEW i \in Parties, NEW k, NEW q \in Seq(Received), IsInjective(q),
         \A m \in Range(q) : m.round = k /\ m.sender # i
  PROVE  Len(q) <= N - 1
  <1>1. Len(q) \in Nat /\ DOMAIN q = 1 .. Len(q) /\ \A x \in 1 .. Len(q) : q[x] \in Received
    OBVIOUS
  <1>2. IsFiniteSet(Others(i)) /\ Cardinality(Others(i)) = N - 1
    <2>1. IsFiniteSet(Parties) /\ Cardinality(Parties) = N
      BY Constants, FS_Interval
    <2> QED
      BY <2>1, FS_RemoveElement DEF Others
  <1>3. IsFiniteSet(1 .. Len(q)) /\ Cardinality(1 .. Len(q)) = Len(q)
    <2>1. 1 \in Int /\ Len(q) \in Int
      BY <1>1
    <2>2. /\ IsFiniteSet(1 .. Len(q))
          /\ Cardinality(1 .. Len(q)) = IF 1 > Len(q) THEN 0 ELSE Len(q) - 1 + 1
      BY <2>1, FS_Interval
    <2> QED
      BY <1>1, <2>2
  <1> DEFINE f == [x \in 1 .. Len(q) |-> q[x].sender]
  <1>4. f \in [1 .. Len(q) -> Others(i)]
    BY <1>1 DEF Range, Received, Others
  <1>5. \A x, y \in 1 .. Len(q) : f[x] = f[y] => x = y
    <2> SUFFICES ASSUME NEW x \in 1 .. Len(q), NEW y \in 1 .. Len(q), q[x].sender = q[y].sender
                 PROVE  x = y
      OBVIOUS
    <2>1. q[x].round = k /\ q[y].round = k
      BY <1>1 DEF Range
    <2>2. q[x] = q[y]
      BY <1>1, <2>1 DEF Received
    <2> QED
      BY <1>1, <2>2 DEF IsInjective
  <1> HIDE DEF f
  <1>6. ~(Cardinality(Others(i)) < Cardinality(1 .. Len(q)))
    BY <1>2, <1>3, <1>4, <1>5, FS_PigeonHole
  <1> QED
    BY <1>1, <1>2, <1>3, <1>6, Constants

(* Min is the least of the numbers it is asked for. *)
LEMMA MinFacts == ASSUME NEW S \in SUBSET Nat, S # {} PROVE Min(S) \in S
  <1>1. \E x \in S : \A y \in S : x <= y
    <2>1. IsWellFoundedOn(OpToRel(<, Nat), Nat)
      BY NatLessThanWellFounded
    <2>2. PICK x \in S : \A y \in S : ~(<<y, x>> \in OpToRel(<, Nat))
      BY <2>1, WFMin
    <2>3. \A y \in S : ~(y < x)
      BY <2>2 DEF OpToRel
    <2> QED
      BY <2>3
  <1> QED
    BY <1>1 DEF Min

(* Taken stops at a stop, or at the end of the queue. *)
LEMMA TakenFacts ==
  ASSUME NEW i \in Parties, NEW q \in Seq(Received)
  PROVE  /\ Taken(i, q) \in 0 .. Len(q)
         /\ \/ Stops(i, q, Taken(i, q))
            \/ Taken(i, q) = Len(q) /\ ~Stops(i, q, Len(q))
  <1> DEFINE stops == {x \in 0 .. Len(q) : Stops(i, q, x)}
  <1>1. Len(q) \in Nat
    OBVIOUS
  <1>2. Taken(i, q) = IF stops = {} THEN Len(q) ELSE Min(stops)
    BY DEF Taken
  <1>3. stops \subseteq Nat
    BY <1>1
  <1>4. CASE stops = {}
    BY <1>1, <1>2, <1>4
  <1>5. CASE stops # {}
    <2>1. Min(stops) \in stops
      BY <1>3, <1>5, MinFacts
    <2> QED
      BY <1>2, <1>5, <2>1
  <1> QED
    BY <1>4, <1>5

-----------------------------------------------------------------------------
(* What an invariant state says of positions and of messages in queues. *)

(* Having a round's messages means that everybody is in that round. *)
LEMMA CompleteLag ==
  ASSUME TypeOK, Origin, NEW i \in Parties, NEW k \in Rounds,
         RoundMessages(i, k) \subseteq got[i]
  PROVE  \A j \in Others(i) : k <= pos[j]
  <1> SUFFICES ASSUME NEW j \in Others(i) PROVE k <= pos[j]
    OBVIOUS
  <1>1. j \in Parties
    BY DEF Others
  <1>2. [sender |-> j, round |-> k] \in got[i]
    BY DEF RoundMessages
  <1>3. Sent(j, k, i)
    BY <1>2 DEF Sent, Here
  <1> QED
    BY <1>1, <1>3 DEF Origin

(* Nobody is more than a round ahead. *)
LEMMA Lag ==
  ASSUME IndInv, NEW i \in Parties, NEW j \in Parties
  PROVE  pos[i] <= pos[j] + 1
  <1>1. pos[i] \in 0 .. R + 1 /\ pos[j] \in 0 .. R + 1 /\ R \in Nat /\ Rounds = 1 .. R
    BY Constants DEF IndInv, TypeOK
  <1>2. CASE i = j \/ pos[i] <= 1
    BY <1>1, <1>2
  <1>3. CASE i # j /\ pos[i] > 1
    <2>1. pos[i] - 1 \in Rounds /\ pos[i] - 1 < pos[i]
      BY <1>1, <1>3
    <2>2. RoundMessages(i, pos[i] - 1) \subseteq got[i]
      BY <2>1 DEF IndInv, Agent
    <2>3. pos[i] - 1 <= pos[j]
      BY <2>1, <2>2, <1>3, CompleteLag DEF IndInv, Others
    <2> QED
      BY <1>1, <2>3
  <1> QED
    BY <1>1, <1>2, <1>3

(* A queued message is of the party's round or the next, and what completes *)
(* a round is not queued.                                                   *)
LEMMA Queued ==
  ASSUME IndInv, NEW i \in Parties, NEW m \in Range(app[i]) \cup Range(inbox[i])
  PROVE  /\ m \in Received /\ m.round \in Rounds /\ m.sender \in Others(i)
         /\ m.round >= pos[i] /\ m.round <= pos[m.sender]
         /\ m.round <= pos[i] + 1 /\ pos[m.sender] <= pos[i] + 1
         /\ m \notin got[i]
         /\ RoundMessages(i, m.round) \subseteq got[i] => FALSE
  <1>1. m \in Received
    BY DEF IndInv, TypeOK, Range
  <1>2. m.sender \in Parties /\ m.round \in Rounds /\ m = [sender |-> m.sender, round |-> m.round]
    BY <1>1 DEF Received
  <1>3. Sent(m.sender, m.round, i)
    BY <1>2 DEF Sent, Here
  <1>4. m.sender # i /\ m.round <= pos[m.sender]
    BY <1>2, <1>3 DEF IndInv, Origin
  <1>5. m \notin got[i]
    BY DEF IndInv, Once
  <1>6. m \in RoundMessages(i, m.round)
    BY <1>2, <1>4 DEF RoundMessages, Others
  <1>7. ~(m.round < pos[i])
    BY <1>2, <1>5, <1>6 DEF IndInv, Agent
  <1>8. pos[m.sender] <= pos[i] + 1
    BY <1>2, Lag
  <1>9. pos[i] \in Nat /\ pos[m.sender] \in Nat /\ m.round \in Nat
    BY <1>2, Constants DEF IndInv, TypeOK
  <1>10. m.round >= pos[i] /\ m.round <= pos[i] + 1
    BY <1>4, <1>7, <1>8, <1>9
  <1> QED
    BY <1>1, <1>2, <1>4, <1>5, <1>6, <1>8, <1>10 DEF Others

(* A poll moves one message from the execution's queue to the agent's. *)
LEMMA IntakeFacts ==
  ASSUME IndInv, NEW i \in Parties
  PROVE  /\ AppAfterIntake(i) \in Seq(Received) /\ InboxLeft(i) \in Seq(Received)
         /\ IsInjective(AppAfterIntake(i)) /\ IsInjective(InboxLeft(i))
         /\ Range(AppAfterIntake(i)) \cap Range(InboxLeft(i)) = {}
         /\ Range(AppAfterIntake(i)) \cup Range(InboxLeft(i)) = Range(app[i]) \cup Range(inbox[i])
         /\ app[i] = <<>> => Len(AppAfterIntake(i)) <= 1
  <1> DEFINE a == app[i]
             b == inbox[i]
  <1>1. /\ a \in Seq(Received) /\ b \in Seq(Received) /\ IsInjective(a) /\ IsInjective(b)
        /\ Range(a) \cap Range(b) = {}
    BY DEF IndInv, TypeOK, Once
  <1>2. CASE b = <<>>
    <2>1. AppAfterIntake(i) = a /\ InboxLeft(i) = b /\ Range(b) = {}
      BY <1>2 DEF AppAfterIntake, InboxLeft, Range
    <2>2. a = <<>> => Len(a) <= 1
      OBVIOUS
    <2> QED
      BY <1>1, <2>1, <2>2
  <1>3. CASE b # <<>>
    <2> DEFINE h == Head(b)
               t == Tail(b)
               q == Append(a, h)
    <2>1. AppAfterIntake(i) = q /\ InboxLeft(i) = t
      BY <1>3 DEF AppAfterIntake, InboxLeft
    <2> HIDE DEF a, b
    <2>2. /\ Len(b) \in Nat /\ Len(b) >= 1 /\ DOMAIN b = 1 .. Len(b)
          /\ h = b[1] /\ h \in Received
          /\ t \in Seq(Received) /\ DOMAIN t = 1 .. Len(b) - 1
          /\ \A x \in 1 .. Len(b) - 1 : t[x] = b[x + 1]
      BY <1>1, <1>3
    <2> HIDE DEF h, t
    <2>3. /\ q \in Seq(Received) /\ Len(a) \in Nat /\ DOMAIN a = 1 .. Len(a)
          /\ DOMAIN q = 1 .. Len(a) + 1 /\ Len(q) = Len(a) + 1
          /\ \A x \in 1 .. Len(a) : q[x] = a[x]
          /\ q[Len(a) + 1] = h
      BY <1>1, <2>2
    <2> HIDE DEF q
    <2>4. \A x \in 1 .. Len(a) + 1 : x \in 1 .. Len(a) \/ x = Len(a) + 1
      BY <2>3
    <2>5. Range(q) = Range(a) \cup {h}
      <3>1. \A x \in 1 .. Len(a) : x \in 1 .. Len(a) + 1
        BY <2>3
      <3>2. Len(a) + 1 \in 1 .. Len(a) + 1
        BY <2>3
      <3> QED
        BY <2>3, <2>4, <3>1, <3>2 DEF Range
    <2>6. \A x \in 1 .. Len(b) - 1 : x + 1 \in 1 .. Len(b) /\ x + 1 # 1
      BY <2>2
    <2>7. Range(t) \subseteq Range(b) /\ h \in Range(b)
      BY <2>2, <2>6 DEF Range
    <2>8. h \notin Range(t)
      <3> SUFFICES ASSUME NEW x \in 1 .. Len(b) - 1, b[x + 1] = b[1] PROVE FALSE
        BY <2>2 DEF Range
      <3> QED
        BY <1>1, <2>2, <2>6 DEF IsInjective
    <2>9. Range(b) = Range(t) \cup {h}
      <3>1. ASSUME NEW x \in 1 .. Len(b) PROVE b[x] \in Range(t) \cup {h}
        <4>1. CASE x = 1
          BY <4>1, <2>2
        <4>2. CASE x # 1
          <5>1. x - 1 \in 1 .. Len(b) - 1 /\ (x - 1) + 1 = x
            BY <4>2, <2>2
          <5> QED
            BY <5>1, <2>2 DEF Range
        <4> QED
          BY <4>1, <4>2
      <3> QED
        BY <3>1, <2>2, <2>7 DEF Range
    <2>10. IsInjective(q)
      <3>1. h \notin Range(a)
        BY <1>1, <2>7
      <3>2. \A x \in 1 .. Len(a) : q[x] \in Range(a)
        BY <2>3 DEF Range
      <3> QED
        BY <1>1, <2>3, <2>4, <3>1, <3>2 DEF IsInjective
    <2>11. IsInjective(t)
      <3> SUFFICES ASSUME NEW x \in 1 .. Len(b) - 1, NEW y \in 1 .. Len(b) - 1, b[x + 1] = b[y + 1]
                   PROVE  x = y
        BY <2>2 DEF IsInjective
      <3>1. x + 1 = y + 1
        BY <1>1, <2>2, <2>6 DEF IsInjective
      <3> QED
        BY <3>1
    <2>12. Range(q) \cap Range(t) = {} /\ Range(q) \cup Range(t) = Range(a) \cup Range(b)
      BY <1>1, <2>5, <2>7, <2>8, <2>9
    <2>13. a = <<>> => Len(q) <= 1
      BY <2>3
    <2> QED
      BY <2>1, <2>2, <2>3, <2>10, <2>11, <2>12, <2>13 DEF a, b
  <1> QED
    BY <1>2, <1>3

-----------------------------------------------------------------------------
(* One lemma per action. *)

(* Nothing is said of others when only the agent of i moves. *)
LEMMA AgentKept ==
  ASSUME NEW j \in Parties, Agent(j),
         pos'[j] = pos[j], mode'[j] = mode[j], unsent'[j] = unsent[j], got'[j] = got[j],
         app'[j] = app[j], inbox'[j] = inbox[j], status'[j] = status[j]
  PROVE  Agent(j)'
  BY DEF Agent, Running, Complete

(* A party that ended at its edge stays there, and nobody passes it.        *)
LEMMA MistypedKept ==
  ASSUME IndInv, pos' \in [Parties -> 0 .. R + 1],
         \A j \in Parties : pos'[j] >= pos[j],
         \A i, j \in Parties : pos'[i] <= pos'[j] + 1,
         \A i \in Parties : status'[i] = "mistyped" =>
             status[i] = "mistyped" /\ pos'[i] = pos[i]
  PROVE  MistypedOnlyAtTheEdge'
  <1> SUFFICES ASSUME NEW i \in Parties, status'[i] = "mistyped"
               PROVE  /\ pos'[i] < R /\ Stage[pos'[i] + 1] # Stage[pos'[i]]
                      /\ \E j \in Others(i) : pos'[j] = pos'[i] + 1
    BY DEF MistypedOnlyAtTheEdge
  <1>1. status[i] = "mistyped" /\ pos'[i] = pos[i]
    OBVIOUS
  <1>2. /\ pos[i] < R /\ Stage[pos[i] + 1] # Stage[pos[i]]
        /\ \E j \in Others(i) : pos[j] = pos[i] + 1
    BY <1>1 DEF IndInv, MistypedOnlyAtTheEdge
  <1>3. PICK j \in Others(i) : pos[j] = pos[i] + 1
    BY <1>2
  <1>4. j \in Parties /\ pos'[j] >= pos[j] /\ pos'[j] <= pos'[i] + 1
    BY DEF Others
  <1>5. pos'[j] \in Nat /\ pos[j] \in Nat /\ pos[i] \in Nat
    BY <1>4, Constants DEF IndInv, TypeOK
  <1>6. pos'[j] = pos'[i] + 1
    BY <1>1, <1>3, <1>4, <1>5
  <1> QED
    BY <1>1, <1>2, <1>6

(* The agent computes its next round. *)
LEMMA ProceedInd ==
  ASSUME IndInv, NEW i \in Parties, Proceed(i) PROVE IndInv'
  <1>1. PICK k, out : k = pos[i] + 1 /\ out = unsent[i] \o ToSend(i, k)
    OBVIOUS
  <1>2. /\ Running(i) /\ mode[i] = "computing"
        /\ pos' = [pos EXCEPT ![i] = k]
        /\ unsent' = [unsent EXCEPT ![i] = out]
        /\ mode' = [mode EXCEPT ![i] =
              IF k <= R /\ Complete(i, k, got[i]) THEN "computing"
              ELSE IF out # <<>> THEN "sending"
              ELSE "finished"]
        /\ UNCHANGED <<got, app, inbox, wire, lost, status>>
    BY <1>1 DEF Proceed
  <1>3. /\ TypeOK /\ pos[i] \in 0 .. R /\ k \in 1 .. R + 1 /\ R \in Nat /\ Rounds = 1 .. R
        /\ Complete(i, pos[i], got[i])
    <2>1. pos[i] \in 0 .. R + 1 /\ TypeOK /\ Agent(i)
      BY DEF IndInv, TypeOK
    <2>2. pos[i] <= R /\ Complete(i, pos[i], got[i])
      BY <2>1, <1>2 DEF Agent
    <2> QED
      BY <2>1, <2>2, <1>1, Constants
  <1>4. /\ ToSend(i, k) \in Seq(Outgoing)
        /\ k \notin Rounds => ToSend(i, k) = <<>>
        /\ k \in Rounds => ToSend(i, k) # <<>>
        /\ \A x \in DOMAIN ToSend(i, k) :
              /\ ToSend(i, k)[x].round = k /\ k \in Rounds
              /\ ToSend(i, k)[x].to \subseteq Others(i)
              /\ Kind[k] = "broadcast" => ToSend(i, k)[x].to = Others(i)
        /\ \A x, y \in DOMAIN ToSend(i, k) :
              x # y => ToSend(i, k)[x].to \cap ToSend(i, k)[y].to = {}
    BY <1>3, ToSendFacts
  <1>5. PICK u, v : u = unsent[i] /\ v = ToSend(i, k)
    OBVIOUS
  <1>6. /\ u \in Seq(Outgoing) /\ v \in Seq(Outgoing) /\ out \in Seq(Outgoing)
        /\ Len(u) \in Nat /\ Len(v) \in Nat /\ Len(out) = Len(u) + Len(v)
        /\ DOMAIN u = 1 .. Len(u) /\ DOMAIN v = 1 .. Len(v)
        /\ DOMAIN out = 1 .. Len(u) + Len(v)
    BY <1>1, <1>3, <1>4, <1>5 DEF TypeOK
  <1>7. \A x \in DOMAIN out : \/ x \in DOMAIN u /\ out[x] = u[x]
                              \/ x - Len(u) \in DOMAIN v /\ out[x] = v[x - Len(u)]
    <2> SUFFICES ASSUME NEW x \in 1 .. Len(u) + Len(v)
                 PROVE  \/ x \in 1 .. Len(u) /\ out[x] = u[x]
                        \/ x - Len(u) \in 1 .. Len(v) /\ out[x] = v[x - Len(u)]
      BY <1>6
    <2>1. out = u \o v
      BY <1>1, <1>5
    <2>2. out[x] = IF x <= Len(u) THEN u[x] ELSE v[x - Len(u)]
      BY <2>1, <1>6, ConcatProperties
    <2> QED
      BY <2>2, <1>6
  <1>8. TypeOK'
    <2>1. pos' \in [Parties -> 0 .. R + 1]
      BY <1>2, <1>3 DEF TypeOK
    <2>2. unsent' \in [Parties -> Seq(Outgoing)]
      BY <1>2, <1>3, <1>6 DEF TypeOK
    <2>3. mode' \in [Parties -> {"computing", "sending", "receiving", "finished"}]
      BY <1>2, <1>3 DEF TypeOK
    <2> QED
      BY <2>1, <2>2, <2>3, <1>2, <1>3 DEF TypeOK
  <1>9. \A s, j, x : Sent(s, x, j)' <=> Sent(s, x, j)
    BY <1>2 DEF Sent, Here
  <1>10. \A j \in Parties : /\ pos'[j] = IF j = i THEN k ELSE pos[j]
                            /\ pos'[j] >= pos[j] /\ pos[j] \in Nat /\ pos'[j] \in Nat
    BY <1>1, <1>2, <1>3 DEF TypeOK
  <1>11. Origin'
    <2> SUFFICES ASSUME NEW s \in Parties, NEW j \in Parties, NEW x \in Rounds, Sent(s, x, j)'
                 PROVE  s # j /\ x <= pos'[s]
      BY DEF Origin
    <2>1. s # j /\ x <= pos[s]
      BY <1>9 DEF IndInv, Origin
    <2>2. x \in Nat
      BY <1>3
    <2> QED
      BY <2>1, <2>2, <1>10
  <1>12. ASSUME NEW j \in Parties PROVE Once(j)'
    BY <1>2 DEF IndInv, Once, Here
  (* What is added is of a round the agent had not reached. *)
  <1>13. Outbox(i)
    BY DEF IndInv
  <1>14. \A x \in DOMAIN u : u[x].round \in Rounds /\ u[x].round < k /\ u[x].to \subseteq Others(i)
                             /\ \A j \in u[x].to : ~Sent(i, u[x].round, j)
    BY <1>1, <1>3, <1>5, <1>13 DEF Outbox
  <1>15. \A x \in DOMAIN v : \A j \in v[x].to : ~Sent(i, v[x].round, j)
    <2> SUFFICES ASSUME NEW x \in DOMAIN v, NEW j \in v[x].to, Sent(i, v[x].round, j)
                 PROVE  FALSE
      OBVIOUS
    <2>1. v[x].round = k /\ k \in Rounds /\ j \in Parties
      BY <1>4, <1>5 DEF Others
    <2>2. k <= pos[i]
      BY <2>1 DEF IndInv, Origin
    <2> QED
      BY <2>2, <1>1, <1>3
  <1>16. Outbox(i)'
    <2>1. unsent'[i] = out /\ pos'[i] = k
      BY <1>2, <1>3 DEF TypeOK
    <2>2. ASSUME NEW x \in DOMAIN out
          PROVE  /\ out[x].round \in Rounds /\ out[x].round <= k
                 /\ out[x].to \subseteq Others(i)
                 /\ \A j \in out[x].to : ~Sent(i, out[x].round, j)
      <3>1. CASE x \in DOMAIN u /\ out[x] = u[x]
        BY <3>1, <1>3, <1>14
      <3>2. CASE x - Len(u) \in DOMAIN v /\ out[x] = v[x - Len(u)]
        BY <3>2, <1>3, <1>4, <1>5, <1>15
      <3> QED
        BY <3>1, <3>2, <1>7
    <2>3. ASSUME NEW x \in DOMAIN out, NEW y \in DOMAIN out, x # y, out[x].round = out[y].round
          PROVE  out[x].to \cap out[y].to = {}
      <3>1. CASE x \in DOMAIN u /\ out[x] = u[x] /\ y \in DOMAIN u /\ out[y] = u[y]
        BY <2>3, <3>1, <1>5, <1>13 DEF Outbox
      <3>2. CASE /\ x - Len(u) \in DOMAIN v /\ out[x] = v[x - Len(u)]
                 /\ y - Len(u) \in DOMAIN v /\ out[y] = v[y - Len(u)]
        <4>1. x - Len(u) # y - Len(u)
          BY <2>3, <1>6
        <4> QED
          BY <3>2, <4>1, <1>4, <1>5
      <3>3. CASE \/ x \in DOMAIN u /\ out[x] = u[x] /\ y - Len(u) \in DOMAIN v /\ out[y] = v[y - Len(u)]
                 \/ y \in DOMAIN u /\ out[y] = u[y] /\ x - Len(u) \in DOMAIN v /\ out[x] = v[x - Len(u)]
        <4>1. k \in Nat /\ ~(k < k)
          BY <1>3
        <4> QED
          BY <2>3, <3>3, <4>1, <1>4, <1>5, <1>14
      <3> QED
        BY <3>1, <3>2, <3>3, <1>7
    <2> QED
      BY <2>1, <2>2, <2>3, <1>9 DEF Outbox
  <1>17. ASSUME NEW j \in Parties, j # i PROVE Outbox(j)'
    <2>1. unsent'[j] = unsent[j] /\ pos'[j] = pos[j]
      BY <1>2, <1>17
    <2> QED
      BY <2>1, <1>9 DEF IndInv, Outbox
  <1>18. Agent(i)'
    <2>1. /\ pos'[i] = k /\ unsent'[i] = out /\ got'[i] = got[i] /\ status'[i] = status[i]
          /\ mode'[i] = IF k <= R /\ Complete(i, k, got[i]) THEN "computing"
                        ELSE IF out # <<>> THEN "sending"
                        ELSE "finished"
          /\ status[i] = "running"
      BY <1>2, <1>3 DEF TypeOK, Running
    <2>2. \A x \in Rounds : x < k => RoundMessages(i, x) \subseteq got[i]
      <3> SUFFICES ASSUME NEW x \in Rounds, x < k PROVE RoundMessages(i, x) \subseteq got[i]
        OBVIOUS
      <3>1. x < pos[i] \/ x = pos[i]
        BY <1>1, <1>3
      <3> QED
        BY <3>1, <1>3 DEF IndInv, Agent, Complete
    <2>3. k \in Rounds => LET m == out[Len(out)] IN
                          m.round = k /\ (Kind[k] = "broadcast" => m.to = Others(i))
      <3> SUFFICES ASSUME k \in Rounds
                   PROVE  /\ out[Len(out)].round = k
                          /\ Kind[k] = "broadcast" => out[Len(out)].to = Others(i)
        OBVIOUS
      <3>1. Len(v) >= 1 /\ Len(v) \in DOMAIN v
        BY <1>4, <1>5, <1>6
      <3>2. Len(out) \in DOMAIN out /\ Len(out) \notin DOMAIN u /\ Len(out) - Len(u) = Len(v)
        BY <3>1, <1>6
      <3>3. out[Len(out)] = v[Len(v)]
        BY <3>2, <1>7
      <3> QED
        BY <3>1, <3>3, <1>4, <1>5
    <2>4. mode'[i] = "finished" => k = R + 1
      <3> SUFFICES ASSUME out = <<>>, k # R + 1 PROVE FALSE
        BY <2>1
      <3>1. k \in Rounds
        BY <1>3
      <3>2. v # <<>> /\ Len(v) >= 1
        BY <3>1, <1>4, <1>5, <1>6
      <3>3. Len(out) = 0
        OBVIOUS
      <3> QED
        BY <3>2, <3>3, <1>6
    <2>5. mode'[i] = "computing" => k <= R /\ Complete(i, k, got[i])
      BY <2>1
    <2>6. mode'[i] = "sending" => k # 0 /\ out # <<>>
      BY <2>1, <1>3
    <2>7. mode'[i] # "receiving" /\ Running(i)' /\ status'[i] # "done"
      BY <2>1 DEF Running
    <2>8. Complete(i, k, got[i]) = Complete(i, pos[i], got[i])'
      BY <2>1 DEF Complete
    <2> QED
      BY <2>1, <2>2, <2>3, <2>4, <2>5, <2>6, <2>7, <2>8 DEF Agent
  <1>19. ASSUME NEW j \in Parties, j # i PROVE Agent(j)'
    <2>1. /\ pos'[j] = pos[j] /\ mode'[j] = mode[j] /\ unsent'[j] = unsent[j]
          /\ got'[j] = got[j] /\ app'[j] = app[j] /\ inbox'[j] = inbox[j] /\ status'[j] = status[j]
      BY <1>2, <1>19
    <2> QED
      BY <2>1, AgentKept DEF IndInv
  <1>20. OverflowOnlyWhileSending'
    <2> SUFFICES ASSUME NEW j \in Parties, status'[j] = "overflow"
                 PROVE  mode'[j] = "sending" /\ Kind[pos'[j]] = "direct"
      BY DEF OverflowOnlyWhileSending
    <2>1. j # i /\ status[j] = "overflow"
      BY <1>2 DEF Running
    <2> QED
      BY <2>1, <1>2 DEF IndInv, OverflowOnlyWhileSending
  <1>21. MistypedOnlyAtTheEdge'
    <2>1. ASSUME NEW j \in Parties PROVE k <= pos'[j] + 1
      <3>1. CASE j = i
        BY <3>1, <1>3, <1>10
      <3>2. CASE j # i /\ pos[i] \in Rounds
        <4>1. pos[i] <= pos[j]
          BY <3>2, <1>3, CompleteLag DEF Complete, IndInv, Others
        <4> QED
          BY <4>1, <3>2, <1>1, <1>3, <1>10
      <3>3. CASE j # i /\ pos[i] \notin Rounds
        BY <3>3, <1>1, <1>3, <1>10
      <3> QED
        BY <3>1, <3>2, <3>3
    <2>2. \A x, j \in Parties : pos'[x] <= pos'[j] + 1
      <3> SUFFICES ASSUME NEW x \in Parties, NEW j \in Parties PROVE pos'[x] <= pos'[j] + 1
        OBVIOUS
      <3>1. pos[x] <= pos[j] + 1
        BY Lag
      <3> QED
        BY <2>1, <3>1, <1>3, <1>10
    <2>3. \A x \in Parties : status'[x] = "mistyped" => status[x] = "mistyped" /\ pos'[x] = pos[x]
      BY <1>2, <1>10 DEF Running
    <2> QED
      BY <2>2, <2>3, <1>8, <1>10, MistypedKept DEF TypeOK
  <1>22. wire' \cap lost' = {}
    BY <1>2 DEF IndInv
  <1> QED
    BY <1>8, <1>11, <1>12, <1>16, <1>17, <1>18, <1>19, <1>20, <1>21, <1>22 DEF IndInv

(* Messages that only change their place, or disappear, disturb nobody.     *)
LEMMA SentShrinks ==
  ASSUME IndInv, pos' = pos,
         \A s, j \in Parties : \A k \in Rounds : Sent(s, k, j)' => Sent(s, k, j),
         \A j \in Parties : unsent'[j] = unsent[j] \/ unsent'[j] = <<>>
  PROVE  Origin' /\ \A j \in Parties : Outbox(j)'
  <1>1. Origin'
    BY DEF IndInv, Origin
  <1>2. ASSUME NEW j \in Parties PROVE Outbox(j)'
    <2>1. CASE unsent'[j] = <<>>
      BY <2>1 DEF Outbox
    <2>2. CASE unsent'[j] = unsent[j]
      <3>1. Outbox(j)
        BY DEF IndInv
      <3>2. ASSUME NEW x \in DOMAIN unsent'[j], NEW y \in unsent'[j][x].to
            PROVE  ~Sent(j, unsent[j][x].round, y)'
        <4>1. PICK k : k = unsent[j][x].round
          OBVIOUS
        <4>2. ~Sent(j, k, y) /\ k \in Rounds /\ y \in Parties
          BY <2>2, <3>1, <4>1 DEF Outbox, Others
        <4>3. ~Sent(j, k, y)' /\ unsent'[j][x].round = k
          BY <2>2, <4>1, <4>2
        <4> QED
          BY <4>3
      <3> QED
        BY <3>1, <3>2, <2>2 DEF Outbox
    <2> QED
      BY <2>1, <2>2
  <1> QED
    BY <1>1, <1>2

(* No position moves, so parties at their edge stay there. *)
LEMMA EdgeKept ==
  ASSUME IndInv, pos' = pos,
         \A i \in Parties : status'[i] = "mistyped" => status[i] = "mistyped"
  PROVE  MistypedOnlyAtTheEdge'
  BY DEF IndInv, MistypedOnlyAtTheEdge

(* A request fails. *)
LEMMA LoseInd ==
  ASSUME IndInv, NEW m \in wire, Lose(m) PROVE IndInv'
  <1>1. /\ wire' = wire \ {m} /\ lost' = lost \cup {m}
        /\ UNCHANGED <<pos, mode, unsent, got, app, inbox, status>>
    BY DEF Lose
  <1>2. TypeOK' /\ wire' \cap lost' = {}
    BY <1>1 DEF IndInv, TypeOK
  <1>3. \A s, k, j : Sent(s, k, j)' => Sent(s, k, j)
    BY <1>1 DEF Sent, Here
  <1>4. Origin' /\ \A j \in Parties : Outbox(j)'
    BY <1>1, <1>3, SentShrinks
  <1>5. \A j \in Parties : Once(j)' /\ Agent(j)'
    BY <1>1, AgentKept DEF IndInv, Once, Here
  <1>6. OverflowOnlyWhileSending' /\ MistypedOnlyAtTheEdge'
    BY <1>1, EdgeKept DEF IndInv, OverflowOnlyWhileSending
  <1> QED
    BY <1>2, <1>4, <1>5, <1>6 DEF IndInv

(* A message moves from the wire into the execution's queue, or is lost. *)
LEMMA ProxyPollInd ==
  ASSUME IndInv, NEW i \in Parties, ProxyPoll(i) PROVE IndInv'
  <1>1. PICK m \in wire :
          /\ m.to = i /\ Running(i) /\ wire' = wire \ {m}
          /\ IF Len(inbox[i]) < InboxCapacity
             THEN /\ inbox' = [inbox EXCEPT ![i] =
                        Append(@, [sender |-> m.sender, round |-> m.round])]
                  /\ UNCHANGED lost
             ELSE lost' = lost \cup {m} /\ UNCHANGED inbox
          /\ UNCHANGED <<pos, mode, unsent, got, app, status>>
    BY DEF ProxyPoll
  <1>2. PICK r : r = [sender |-> m.sender, round |-> m.round]
    OBVIOUS
  <1>3. PICK b : b = inbox[i]
    OBVIOUS
  <1>4. /\ TypeOK /\ m \in Requests /\ m.sender \in Parties /\ m.round \in Rounds
        /\ r \in Received /\ r \notin Here(i) /\ m \notin lost
        /\ m = [sender |-> m.sender, round |-> m.round, to |-> i]
        /\ b \in Seq(Received)
    <2>1. TypeOK /\ m \in Requests /\ b \in Seq(Received) /\ m \notin lost
      BY <1>3 DEF IndInv, TypeOK
    <2>2. r \notin Here(i)
      BY <1>1, <1>2 DEF IndInv, Once
    <2> QED
      BY <2>1, <2>2, <1>1, <1>2 DEF Requests, Received
  <1>5. /\ Append(b, r) \in Seq(Received) /\ Len(b) \in Nat
        /\ DOMAIN b = 1 .. Len(b) /\ DOMAIN Append(b, r) = 1 .. Len(b) + 1
        /\ \A x \in 1 .. Len(b) : Append(b, r)[x] = b[x]
        /\ Append(b, r)[Len(b) + 1] = r
    BY <1>4
  <1>6. \A x \in 1 .. Len(b) + 1 : x \in 1 .. Len(b) \/ x = Len(b) + 1
    BY <1>5
  <1>7. Range(Append(b, r)) = Range(b) \cup {r}
    <2>1. \A x \in 1 .. Len(b) : x \in 1 .. Len(b) + 1
      BY <1>5
    <2>2. Len(b) + 1 \in 1 .. Len(b) + 1
      BY <1>5
    <2> QED
      BY <1>5, <1>6, <2>1, <2>2 DEF Range
  <1>8. /\ \A j \in Parties \ {i} : inbox'[j] = inbox[j]
        /\ \/ inbox'[i] = Append(b, r) /\ lost' = lost
           \/ inbox'[i] = b /\ lost' = lost \cup {m}
        /\ inbox' \in [Parties -> Seq(Received)]
    BY <1>1, <1>2, <1>3, <1>4, <1>5 DEF TypeOK
  <1>9. TypeOK' /\ wire' \cap lost' = {}
    BY <1>1, <1>4, <1>8 DEF TypeOK, IndInv
  <1>10. \A j \in Parties : Here(j)' \subseteq Here(j) \cup (IF j = i THEN {r} ELSE {})
    BY <1>1, <1>3, <1>7, <1>8 DEF Here
  <1>11. ASSUME NEW s \in Parties, NEW j \in Parties, NEW k \in Rounds, Sent(s, k, j)'
         PROVE  Sent(s, k, j)
    <2>1. CASE [sender |-> s, round |-> k, to |-> j] \in wire' \cup lost'
      BY <2>1, <1>1, <1>8 DEF Sent
    <2>2. CASE [sender |-> s, round |-> k] \in Here(j)
      BY <2>2 DEF Sent
    <2>3. CASE [sender |-> s, round |-> k] = r /\ j = i
      <3>1. s = m.sender /\ k = m.round
        BY <2>3, <1>2
      <3> QED
        BY <2>3, <3>1, <1>4 DEF Sent
    <2> QED
      BY <1>10, <1>11, <2>1, <2>2, <2>3 DEF Sent
  <1>12. Origin' /\ \A j \in Parties : Outbox(j)'
    BY <1>1, <1>11, SentShrinks
  <1>13. ASSUME NEW j \in Parties PROVE Once(j)'
    <2>1. CASE j # i
      <3>1. inbox'[j] = inbox[j] /\ wire' \cup lost' \subseteq wire \cup lost
        BY <2>1, <1>1, <1>8
      <3> QED
        BY <3>1, <1>1 DEF IndInv, Once, Here
    <2>2. CASE j = i /\ inbox'[i] = b
      <3>1. inbox'[j] = inbox[j] /\ wire' \cup lost' \subseteq wire \cup lost
        BY <2>2, <1>1, <1>3, <1>8
      <3> QED
        BY <3>1, <1>1 DEF IndInv, Once, Here
    <2>3. CASE j = i /\ inbox'[i] = Append(b, r) /\ lost' = lost
      <3>1. /\ IsInjective(b) /\ got[i] \cap Range(b) = {} /\ Range(app[i]) \cap Range(b) = {}
            /\ got[i] \cap Range(app[i]) = {} /\ IsInjective(app[i])
        BY <1>3 DEF IndInv, Once
      <3>2. r \notin Range(b) /\ r \notin got[i] /\ r \notin Range(app[i])
        BY <1>3, <1>4 DEF Here
      <3>3. IsInjective(Append(b, r))
        <4>1. \A x \in 1 .. Len(b) : b[x] # r
          BY <3>2, <1>5 DEF Range
        <4> QED
          BY <3>1, <4>1, <1>5, <1>6 DEF IsInjective
      <3>4. ASSUME NEW y \in wire' \cup lost', y.to = i
            PROVE  [sender |-> y.sender, round |-> y.round] \notin Here(i)'
        <4>1. y \in wire \cup lost /\ y # m
          BY <2>3, <3>4, <1>1, <1>4
        <4>2. y \in Requests
          BY <4>1 DEF IndInv, TypeOK
        <4>3. [sender |-> y.sender, round |-> y.round] \notin Here(i)
          BY <4>1, <3>4 DEF IndInv, Once
        <4>4. [sender |-> y.sender, round |-> y.round] # r
          BY <4>1, <4>2, <3>4, <1>2, <1>4 DEF Requests
        <4> QED
          BY <4>3, <4>4, <1>10
      <3> QED
        BY <2>3, <3>1, <3>2, <3>3, <3>4, <1>1, <1>7 DEF Once
    <2> QED
      BY <2>1, <2>2, <2>3, <1>8
  <1>14. ASSUME NEW j \in Parties PROVE Agent(j)'
    <2>1. CASE j # i
      BY <2>1, <1>1, <1>8, AgentKept DEF IndInv
    <2>2. CASE j = i
      <3>1. Agent(i)
        BY DEF IndInv
      <3> QED
        BY <2>2, <3>1, <1>1 DEF Agent, Running, Complete
    <2> QED
      BY <2>1, <2>2
  <1>15. OverflowOnlyWhileSending' /\ MistypedOnlyAtTheEdge'
    BY <1>1, EdgeKept DEF IndInv, OverflowOnlyWhileSending
  <1> QED
    BY <1>9, <1>12, <1>13, <1>14, <1>15 DEF IndInv

(* What a poll forwards was fresh, and what is left to send still is.       *)
LEMMA ForwardFacts ==
  ASSUME IndInv, NEW i \in Parties, Running(i),
         wire' = wire \cup Forwarded(i), lost' = lost, pos' = pos,
         \A j \in Parties : Here(j)' \subseteq Here(j),
         unsent'[i] = StillUnsent(i) \/ unsent'[i] = <<>>,
         \A j \in Parties \ {i} : unsent'[j] = unsent[j]
  PROVE  /\ wire' \subseteq Requests /\ wire' \cap lost' = {} /\ Origin'
         /\ \A j \in Parties : Outbox(j)'
         /\ \A m \in wire' \cup lost' : m.to \in Parties =>
               [sender |-> m.sender, round |-> m.round] \notin Here(m.to)
         /\ StillUnsent(i) \in Seq(Outgoing)
  <1>1. CASE mode[i] # "sending"
    <2>1. wire' = wire /\ StillUnsent(i) = unsent[i]
      BY <1>1 DEF Forwarded, StillUnsent
    <2>2. \A s, j \in Parties : \A k \in Rounds : Sent(s, k, j)' => Sent(s, k, j)
      BY <2>1 DEF Sent
    <2>3. Origin' /\ \A j \in Parties : Outbox(j)'
      BY <2>1, <2>2, SentShrinks
    <2> QED
      BY <2>1, <2>3 DEF IndInv, TypeOK, Once
  <1>2. CASE mode[i] = "sending"
    <2>1. PICK u : u = unsent[i]
      OBVIOUS
    <2>2. u \in Seq(Outgoing) /\ u # <<>> /\ Outbox(i)
      BY <1>2, <2>1 DEF IndInv, TypeOK, Agent
    <2>3. PICK h : h = Head(u)
      OBVIOUS
    <2>4. /\ Len(u) \in Nat /\ Len(u) >= 1 /\ DOMAIN u = 1 .. Len(u) /\ h = u[1]
          /\ Tail(u) \in Seq(Outgoing) /\ DOMAIN Tail(u) = 1 .. Len(u) - 1
          /\ \A x \in 1 .. Len(u) - 1 : Tail(u)[x] = u[x + 1]
      BY <2>2, <2>3
    <2>5. /\ h.round \in Rounds /\ h.round <= pos[i] /\ h.to \subseteq Others(i)
          /\ \A j \in h.to : ~Sent(i, h.round, j)
      BY <2>1, <2>2, <2>4 DEF Outbox
    <2>6. /\ Forwarded(i) = {[sender |-> i, round |-> h.round, to |-> j] : j \in h.to}
          /\ StillUnsent(i) = Tail(u)
      BY <1>2, <2>1, <2>3 DEF Forwarded, StillUnsent
    <2>7. \A m \in Forwarded(i) :
             /\ m \in Requests /\ m.sender = i /\ m.round = h.round /\ m.to \in h.to
             /\ m \notin wire \cup lost
             /\ [sender |-> m.sender, round |-> m.round] \notin Here(m.to)
      BY <2>5, <2>6 DEF Requests, Others, Sent
    <2>8. wire' \subseteq Requests /\ wire' \cap lost' = {}
      BY <2>7 DEF IndInv, TypeOK
    <2>9. ASSUME NEW m \in wire' \cup lost', m.to \in Parties
          PROVE  [sender |-> m.sender, round |-> m.round] \notin Here(m.to)
      BY <2>7, <2>9 DEF IndInv, Once
    <2>10. ASSUME NEW s \in Parties, NEW k \in Rounds, NEW j \in Parties, Sent(s, k, j)'
           PROVE  Sent(s, k, j) \/ (s = i /\ k = h.round /\ j \in h.to)
      <3>1. CASE [sender |-> s, round |-> k, to |-> j] \in Forwarded(i)
        BY <3>1, <2>6
      <3>2. CASE Sent(s, k, j)
        BY <3>2
      <3>3. \/ [sender |-> s, round |-> k] \in Here(j)'
            \/ [sender |-> s, round |-> k, to |-> j] \in wire' \cup lost'
        BY <2>10 DEF Sent
      <3>4. \/ [sender |-> s, round |-> k, to |-> j] \in Forwarded(i)
            \/ [sender |-> s, round |-> k] \in Here(j)
            \/ [sender |-> s, round |-> k, to |-> j] \in wire \cup lost
        BY <3>3
      <3> QED
        BY <3>1, <3>2, <3>4 DEF Sent
    <2>11. Origin'
      BY <2>5, <2>10 DEF IndInv, Origin, Others
    <2>12. ASSUME NEW j \in Parties \ {i} PROVE Outbox(j)'
      <3>1. Outbox(j) /\ unsent'[j] = unsent[j]
        BY DEF IndInv
      <3>2. ASSUME NEW x \in DOMAIN unsent'[j], NEW y \in unsent'[j][x].to
            PROVE  ~Sent(j, unsent[j][x].round, y)'
        <4>1. PICK k : k = unsent[j][x].round
          OBVIOUS
        <4>2. ~Sent(j, k, y) /\ k \in Rounds /\ y \in Parties
          BY <3>1, <4>1 DEF Outbox, Others
        <4>3. ~Sent(j, k, y)' /\ unsent'[j][x].round = k
          BY <3>1, <4>1, <4>2, <2>10
        <4> QED
          BY <4>3
      <3> QED
        BY <3>1, <3>2 DEF Outbox
    <2>13. Outbox(i)'
      <3>1. CASE unsent'[i] = <<>>
        BY <3>1 DEF Outbox
      <3>2. CASE unsent'[i] = Tail(u)
        <4>1. \A x \in 1 .. Len(u) - 1 : x + 1 \in 1 .. Len(u) /\ x + 1 # 1
          BY <2>4
        <4>2. ASSUME NEW x \in DOMAIN unsent'[i]
              PROVE  /\ unsent'[i][x] = u[x + 1] /\ x + 1 \in DOMAIN u /\ x + 1 # 1
                     /\ x \in Nat
          BY <3>2, <4>1, <2>4
        <4>3. ASSUME NEW x \in DOMAIN unsent'[i], NEW y \in unsent'[i][x].to
              PROVE  ~Sent(i, unsent[i][x].round, y)'
          <5>1. PICK k : k = u[x + 1].round
            OBVIOUS
          <5>2. /\ ~Sent(i, k, y) /\ k \in Rounds /\ y \in Parties
                /\ k = h.round => y \notin h.to
            BY <4>2, <5>1, <2>1, <2>2, <2>4 DEF Outbox, Others
          <5>3. ~Sent(i, k, y)' /\ unsent'[i][x].round = k
            BY <4>2, <5>1, <5>2, <2>10
          <5> QED
            BY <5>3
        <4>4. ASSUME NEW x \in DOMAIN unsent'[i], NEW y \in DOMAIN unsent'[i], x # y,
                     unsent'[i][x].round = unsent'[i][y].round
              PROVE  unsent'[i][x].to \cap unsent'[i][y].to = {}
          <5>1. x + 1 # y + 1
            BY <4>2, <4>4
          <5> QED
            BY <4>2, <4>4, <5>1, <2>1, <2>2 DEF Outbox
        <4>5. \A x \in DOMAIN unsent'[i] :
                 /\ unsent'[i][x].round \in Rounds /\ unsent'[i][x].round <= pos'[i]
                 /\ unsent'[i][x].to \subseteq Others(i)
          BY <4>2, <2>1, <2>2 DEF Outbox
        <4> QED
          BY <4>3, <4>4, <4>5 DEF Outbox
      <3> QED
        BY <3>1, <3>2, <2>6
    <2> QED
      BY <2>4, <2>6, <2>8, <2>9, <2>11, <2>12, <2>13
  <1> QED
    BY <1>1, <1>2

(* An execution ends before its agent has a result. *)
LEMMA EndInd ==
  ASSUME IndInv, NEW i \in Parties, Running(i),
         NEW how \in {"abandoned", "overflow", "mistyped"}, End(i, how),
         wire' = wire \/ wire' = wire \cup Forwarded(i),
         how = "overflow" => mode[i] = "sending" /\ Kind[pos[i]] = "direct",
         how = "mistyped" =>
             /\ pos[i] < R /\ Stage[pos[i] + 1] # Stage[pos[i]]
             /\ \E j \in Others(i) : pos[j] = pos[i] + 1
  PROVE  IndInv'
  <1>1. /\ TypeOK
        /\ status' = [status EXCEPT ![i] = how]
        /\ inbox' = [inbox EXCEPT ![i] = <<>>] /\ app' = [app EXCEPT ![i] = <<>>]
        /\ unsent' = [unsent EXCEPT ![i] = <<>>]
        /\ UNCHANGED <<pos, mode, got, lost>>
    BY DEF IndInv, End
  <1>2. /\ status'[i] = how /\ inbox'[i] = <<>> /\ app'[i] = <<>> /\ unsent'[i] = <<>>
        /\ \A j \in Parties \ {i} : /\ status'[j] = status[j] /\ inbox'[j] = inbox[j]
                                    /\ app'[j] = app[j] /\ unsent'[j] = unsent[j]
    BY <1>1 DEF TypeOK
  <1>3. \A j \in Parties : Here(j)' \subseteq Here(j)
    BY <1>1, <1>2 DEF Here, Range
  <1>4. /\ wire' \subseteq Requests /\ wire' \cap lost' = {} /\ Origin'
        /\ \A j \in Parties : Outbox(j)'
        /\ \A m \in wire' \cup lost' : m.to \in Parties =>
              [sender |-> m.sender, round |-> m.round] \notin Here(m.to)
    <2>1. CASE wire' = wire
      <3>1. \A s, j \in Parties : \A k \in Rounds : Sent(s, k, j)' => Sent(s, k, j)
        BY <2>1, <1>1, <1>3 DEF Sent
      <3>2. Origin' /\ \A j \in Parties : Outbox(j)'
        BY <3>1, <1>1, <1>2, SentShrinks
      <3> QED
        BY <2>1, <3>2, <1>1 DEF IndInv, TypeOK, Once
    <2>2. CASE wire' = wire \cup Forwarded(i)
      BY <2>2, <1>1, <1>2, <1>3, ForwardFacts
    <2> QED
      BY <2>1, <2>2
  <1>5. TypeOK'
    BY <1>1, <1>4 DEF TypeOK
  <1>6. ASSUME NEW j \in Parties PROVE Once(j)'
    <2>1. \A m \in wire' \cup lost' : m.to = j =>
             [sender |-> m.sender, round |-> m.round] \notin Here(j)'
      BY <1>3, <1>4
    <2>2. CASE j = i
      <3>1. Range(<<>>) = {} /\ IsInjective(<<>>)
        BY DEF Range, IsInjective
      <3> QED
        BY <2>1, <2>2, <3>1, <1>2 DEF Once
    <2>3. CASE j # i
      BY <2>1, <2>3, <1>1, <1>2 DEF IndInv, Once
    <2> QED
      BY <2>2, <2>3
  <1>7. ASSUME NEW j \in Parties PROVE Agent(j)'
    <2>1. CASE j = i
      <3>1. ~Running(i)' /\ status'[i] # "done" /\ Agent(i)
        BY <1>2 DEF Running, IndInv
      <3> QED
        BY <2>1, <3>1, <1>1, <1>2 DEF Agent, Running, Complete
    <2>2. CASE j # i
      BY <2>2, <1>1, <1>2, AgentKept DEF IndInv
    <2> QED
      BY <2>1, <2>2
  <1>8. OverflowOnlyWhileSending'
    BY <1>1, <1>2 DEF IndInv, OverflowOnlyWhileSending
  <1>9. MistypedOnlyAtTheEdge'
    BY <1>1, <1>2 DEF IndInv, MistypedOnlyAtTheEdge
  <1> QED
    BY <1>4, <1>5, <1>6, <1>7, <1>8, <1>9 DEF IndInv

(* The echo gadget gives up. *)
LEMMA EchoFailsInd ==
  ASSUME IndInv, NEW i \in Parties, EchoFails(i) PROVE IndInv'
  BY EndInd DEF EchoFails
-----------------------------------------------------------------------------
(* A poll.                                                                  *)

(* try_send fails only while direct messages are sent. *)
LEMMA NoOverflow ==
  ASSUME IndInv, NEW i \in Parties, Running(i), Len(AppAfterIntake(i)) > AppCapacity
  PROVE  mode[i] = "sending" /\ Kind[pos[i]] = "direct"
  <1> SUFFICES ASSUME ~(mode[i] = "sending" /\ Kind[pos[i]] = "direct") PROVE FALSE
    OBVIOUS
  <1>1. PICK q : q = AppAfterIntake(i)
    OBVIOUS
  <1>2. /\ q \in Seq(Received) /\ IsInjective(q) /\ Len(q) \in Nat /\ Len(q) > N - 1
        /\ \A m \in Range(q) : m \in Range(app[i]) \cup Range(inbox[i])
        /\ app[i] = <<>> => Len(q) <= 1
    BY <1>1, IntakeFacts DEF AppCapacity
  <1>3. /\ TypeOK /\ Agent(i) /\ Outbox(i) /\ pos[i] \in 0 .. R + 1 /\ R \in Nat /\ Rounds = 1 .. R
        /\ N \in Nat /\ N >= 2
        /\ mode[i] \in {"computing", "sending", "receiving", "finished"}
    BY Constants DEF IndInv, TypeOK
  <1>4. \A m \in Range(q) :
           /\ m.round \in Rounds /\ m.sender \in Others(i)
           /\ m.round >= pos[i] /\ m.round <= pos[i] + 1
           /\ m.round <= pos[m.sender] /\ pos[m.sender] <= pos[i] + 1
           /\ ~(RoundMessages(i, m.round) \subseteq got[i])
    BY <1>2, Queued
  <1>5. ASSUME NEW k, \A m \in Range(q) : m.round = k PROVE FALSE
    <2>1. \A m \in Range(q) : m.round = k /\ m.sender # i
      BY <1>4, <1>5 DEF Others
    <2>2. Len(q) <= N - 1
      BY <1>2, <2>1, OneRoundFits
    <2> QED
      BY <2>2, <1>2, <1>3
  <1>6. CASE mode[i] = "computing"
    <2>1. Complete(i, pos[i], got[i])
      BY <1>3, <1>6 DEF Agent
    <2>2. \A m \in Range(q) : m.round # pos[i]
      BY <2>1, <1>4 DEF Complete
    <2>3. \A m \in Range(q) : m.round = pos[i] + 1
      BY <2>2, <1>3, <1>4
    <2> QED
      BY <2>3, <1>5
  <1>7. CASE mode[i] = "receiving"
    BY <1>2, <1>3, <1>7 DEF Agent
  <1>8. CASE mode[i] \in {"sending", "finished"} /\ pos[i] \notin Rounds
    <2>1. pos[i] = R + 1
      BY <1>3, <1>8 DEF Agent
    <2>2. \A m \in Range(q) : m.round = pos[i]
      BY <2>1, <1>3, <1>4
    <2> QED
      BY <2>2, <1>5
  <1>9. CASE mode[i] = "sending" /\ pos[i] \in Rounds
    <2>1. PICK k : k = pos[i]
      OBVIOUS
    <2>2. Kind[k] = "broadcast" /\ k \in Rounds /\ k \in Nat
      BY <2>1, <1>3, <1>9, Constants
    <2>3. PICK x : x = Len(unsent[i])
      OBVIOUS
    <2>4. x \in DOMAIN unsent[i] /\ unsent[i][x].round = k /\ unsent[i][x].to = Others(i)
      <3>1. unsent[i] \in Seq(Outgoing) /\ unsent[i] # <<>>
        BY <1>3, <1>9 DEF TypeOK, Agent
      <3>2. x \in DOMAIN unsent[i]
        BY <3>1, <2>3
      <3> QED
        BY <3>2, <2>1, <2>2, <2>3, <1>3, <1>9 DEF Agent
    <2>5. \A j \in Others(i) : ~Sent(i, k, j)
      BY <2>4, <1>3 DEF Outbox
    <2>6. ASSUME NEW j \in Others(i) PROVE ~(k < pos[j])
      <3> SUFFICES ASSUME k < pos[j] PROVE FALSE
        OBVIOUS
      <3>1. j \in Parties /\ i \in Others(j)
        BY DEF Others
      <3>2. RoundMessages(j, k) \subseteq got[j]
        BY <3>1, <2>2 DEF IndInv, Agent
      <3>3. [sender |-> i, round |-> k] \in got[j]
        BY <3>1, <3>2 DEF RoundMessages
      <3> QED
        BY <3>3, <2>5 DEF Sent, Here
    <2>7. \A m \in Range(q) : m.round = k
      <3> SUFFICES ASSUME NEW m \in Range(q) PROVE m.round = k
        OBVIOUS
      <3>1. m.sender \in Parties /\ pos[m.sender] \in Nat
        BY <1>3, <1>4 DEF Others, TypeOK
      <3>2. ~(k < pos[m.sender]) /\ m.round <= pos[m.sender] /\ m.round >= k /\ m.round \in Nat
        BY <1>3, <1>4, <2>1, <2>6
      <3> QED
        BY <2>2, <3>1, <3>2
    <2> QED
      BY <2>7, <1>5
  <1>10. mode[i] = "finished" => pos[i] \notin Rounds
    BY <1>3 DEF Agent
  <1> QED
    BY <1>3, <1>6, <1>7, <1>8, <1>9, <1>10
(* A poll only moves what is held at i, and forwards one message. *)
LEMMA PollFacts ==
  ASSUME IndInv, NEW i \in Parties, Running(i),
         wire' = wire \cup Forwarded(i), lost' = lost, pos' = pos,
         NEW a \in Seq(Received), NEW b \in Seq(Received), NEW g, NEW u,
         app' = [app EXCEPT ![i] = a], inbox' = [inbox EXCEPT ![i] = b],
         got' = [got EXCEPT ![i] = g], unsent' = [unsent EXCEPT ![i] = u],
         u = StillUnsent(i) \/ u = <<>>,
         IsInjective(a), IsInjective(b), Range(a) \cap Range(b) = {},
         g \cap Range(a) = {}, g \cap Range(b) = {},
         g \cup Range(a) \cup Range(b) = Here(i)
  PROVE  /\ Origin' /\ wire' \cap lost' = {} /\ wire' \subseteq Requests /\ lost' \subseteq Requests
         /\ \A j \in Parties : Once(j)' /\ Outbox(j)'
         /\ got' \in [Parties -> SUBSET Received]
         /\ app' \in [Parties -> Seq(Received)] /\ inbox' \in [Parties -> Seq(Received)]
         /\ unsent' \in [Parties -> Seq(Outgoing)]
         /\ app'[i] = a /\ inbox'[i] = b /\ got'[i] = g /\ unsent'[i] = u
         /\ \A j \in Parties \ {i} : /\ app'[j] = app[j] /\ inbox'[j] = inbox[j]
                                     /\ got'[j] = got[j] /\ unsent'[j] = unsent[j]
  <1>1. TypeOK
    BY DEF IndInv
  <1>2. /\ app'[i] = a /\ inbox'[i] = b /\ got'[i] = g /\ unsent'[i] = u
        /\ \A j \in Parties \ {i} : /\ app'[j] = app[j] /\ inbox'[j] = inbox[j]
                                    /\ got'[j] = got[j] /\ unsent'[j] = unsent[j]
    BY <1>1 DEF TypeOK
  <1>3. \A j \in Parties : Here(j)' = Here(j)
    BY <1>2 DEF Here
  <1>4. /\ wire' \subseteq Requests /\ wire' \cap lost' = {} /\ Origin'
        /\ \A j \in Parties : Outbox(j)'
        /\ \A m \in wire' \cup lost' : m.to \in Parties =>
              [sender |-> m.sender, round |-> m.round] \notin Here(m.to)
        /\ StillUnsent(i) \in Seq(Outgoing)
    BY <1>2, <1>3, ForwardFacts
  <1>5. ASSUME NEW j \in Parties PROVE Once(j)'
    <2>1. \A m \in wire' \cup lost' : m.to = j =>
             [sender |-> m.sender, round |-> m.round] \notin Here(j)'
      BY <1>3, <1>4
    <2>2. CASE j = i
      BY <2>1, <2>2, <1>2 DEF Once
    <2>3. CASE j # i
      BY <2>1, <2>3, <1>2 DEF IndInv, Once
    <2> QED
      BY <2>2, <2>3
  <1>6. g \in SUBSET Received
    <2>1. Here(i) \subseteq Received
      BY <1>1 DEF Here, TypeOK, Range
    <2> QED
      BY <2>1
  <1>7. u \in Seq(Outgoing)
    <2>1. <<>> \in Seq(Outgoing)
      OBVIOUS
    <2> QED
      BY <1>4, <2>1
  <1>8. got' \in [Parties -> SUBSET Received]
    <2> DEFINE H == SUBSET Received
    <2>1. got \in [Parties -> H] /\ g \in H
      BY <1>1, <1>6 DEF TypeOK
    <2> HIDE DEF H
    <2>2. got' \in [Parties -> H]
      BY <2>1
    <2> QED
      BY <2>2 DEF H
  <1>9. app' \in [Parties -> Seq(Received)] /\ inbox' \in [Parties -> Seq(Received)]
    BY <1>1 DEF TypeOK
  <1>10. unsent' \in [Parties -> Seq(Outgoing)]
    BY <1>1, <1>7 DEF TypeOK
  <1> QED
    BY <1>1, <1>2, <1>4, <1>5, <1>8, <1>9, <1>10 DEF TypeOK

(* The agent was computing, or is told of one message and goes on to the next. *)
LEMMA BusyInd ==
  ASSUME IndInv, NEW i \in Parties, Running(i), wire' = wire \cup Forwarded(i), AgentBusy(i)
  PROVE  IndInv'
  <1>1. PICK a, b, u : a = AppAfterIntake(i) /\ b = InboxLeft(i) /\ u = StillUnsent(i)
    OBVIOUS
  <1>2. PICK g : g = got[i]
    OBVIOUS
  <1>3. /\ TypeOK /\ Agent(i)
        /\ ModeAfterForward(i) \in {"computing", "sending"}
        /\ unsent' = [unsent EXCEPT ![i] = u]
        /\ app' = [app EXCEPT ![i] = a] /\ inbox' = [inbox EXCEPT ![i] = b]
        /\ UNCHANGED <<pos, mode, got, lost, status>>
    BY <1>1 DEF AgentBusy, IndInv
  <1>4. got' = [got EXCEPT ![i] = g]
    BY <1>2, <1>3 DEF TypeOK
  <1>5. /\ a \in Seq(Received) /\ b \in Seq(Received) /\ IsInjective(a) /\ IsInjective(b)
        /\ Range(a) \cap Range(b) = {}
        /\ Range(a) \cup Range(b) = Range(app[i]) \cup Range(inbox[i])
    BY <1>1, IntakeFacts
  <1>6. /\ g \cap Range(a) = {} /\ g \cap Range(b) = {}
        /\ g \cup Range(a) \cup Range(b) = Here(i)
    BY <1>2, <1>5 DEF IndInv, Once, Here
  <1>7. /\ Origin' /\ wire' \cap lost' = {} /\ wire' \subseteq Requests /\ lost' \subseteq Requests
        /\ \A j \in Parties : Once(j)' /\ Outbox(j)'
        /\ got' \in [Parties -> SUBSET Received]
        /\ app' \in [Parties -> Seq(Received)] /\ inbox' \in [Parties -> Seq(Received)]
        /\ unsent' \in [Parties -> Seq(Outgoing)]
        /\ app'[i] = a /\ inbox'[i] = b /\ got'[i] = g /\ unsent'[i] = u
        /\ \A j \in Parties \ {i} : /\ app'[j] = app[j] /\ inbox'[j] = inbox[j]
                                    /\ got'[j] = got[j] /\ unsent'[j] = unsent[j]
    BY <1>1, <1>3, <1>4, <1>5, <1>6, PollFacts, ZenonT(60)
  <1>8. TypeOK'
    BY <1>3, <1>7 DEF TypeOK
  <1>9. ASSUME NEW j \in Parties PROVE Agent(j)'
    <2>1. CASE j # i
      BY <2>1, <1>3, <1>7, AgentKept DEF IndInv
    <2>2. CASE j = i /\ mode[i] # "sending"
      <3>1. mode[i] = "computing"
        BY <2>2, <1>3 DEF ModeAfterForward
      <3> QED
        BY <2>2, <3>1, <1>3, <1>2, <1>7 DEF Agent, Running, Complete
    <2>3. CASE j = i /\ mode[i] = "sending"
      <3>1. PICK v : v = unsent[i]
        OBVIOUS
      <3>2. v \in Seq(Outgoing) /\ v # <<>>
        BY <2>3, <3>1, <1>3 DEF TypeOK, Agent
      <3>3. u = Tail(v) /\ u # <<>>
        BY <2>3, <3>1, <1>1, <1>3 DEF ModeAfterForward, StillUnsent
      <3>4. u[Len(u)] = v[Len(v)]
        <4>1. /\ Len(v) \in Nat /\ u \in Seq(Outgoing) /\ Len(u) = Len(v) - 1 /\ Len(u) >= 1
              /\ \A x \in 1 .. Len(u) : u[x] = v[x + 1]
          BY <3>2, <3>3
        <4> QED
          BY <4>1
      <3>5. pos'[i] = pos[i] /\ mode'[i] = "sending" /\ unsent'[i] = u /\ got'[i] = got[i]
            /\ status'[i] = status[i]
        BY <2>3, <1>2, <1>3, <1>7
      <3>6. /\ \A k \in Rounds : k < pos[i] => RoundMessages(i, k) \subseteq got[i]
            /\ pos[i] # 0
            /\ pos[i] \in Rounds =>
                 LET m == v[Len(v)] IN
                   m.round = pos[i] /\ (Kind[pos[i]] = "broadcast" => m.to = Others(i))
        BY <2>3, <3>1, <1>3 DEF Agent
      <3>7. status[i] # "done" /\ Running(i)'
        BY <1>3 DEF Running
      <3> QED
        BY <2>3, <3>3, <3>4, <3>5, <3>6, <3>7 DEF Agent
    <2> QED
      BY <2>1, <2>2, <2>3
  <1>10. OverflowOnlyWhileSending' /\ MistypedOnlyAtTheEdge'
    BY <1>3, EdgeKept DEF IndInv, OverflowOnlyWhileSending
  <1> QED
    BY <1>7, <1>8, <1>9, <1>10 DEF IndInv
(* The agent takes messages of its round, or ends with one it cannot read. *)
LEMMA ReceivesInd ==
  ASSUME IndInv, NEW i \in Parties, Running(i), wire' = wire \cup Forwarded(i), AgentReceives(i)
  PROVE  IndInv'
  <1>1. PICK q, b, u : q = AppAfterIntake(i) /\ b = InboxLeft(i) /\ u = StillUnsent(i)
    OBVIOUS
  <1>2. PICK x : x = Taken(i, q)
    OBVIOUS
  <1>3. PICK g, a : g = got[i] \cup Range(SubSeq(q, 1, x)) /\ a = SubSeq(q, x + 1, Len(q))
    OBVIOUS
  <1>4. /\ TypeOK /\ Agent(i) /\ pos[i] \in 0 .. R + 1 /\ R \in Nat /\ Rounds = 1 .. R
        /\ mode[i] \in {"computing", "sending", "receiving", "finished"}
    BY Constants DEF IndInv, TypeOK
  <1>5. /\ q \in Seq(Received) /\ b \in Seq(Received) /\ IsInjective(q) /\ IsInjective(b)
        /\ Range(q) \cap Range(b) = {}
        /\ Range(q) \cup Range(b) = Range(app[i]) \cup Range(inbox[i])
    BY <1>1, IntakeFacts
  <1>6. /\ x \in 0 .. Len(q) /\ Len(q) \in Nat
        /\ Stops(i, q, x) \/ (x = Len(q) /\ ~Stops(i, q, Len(q)))
    BY <1>2, <1>5, TakenFacts
  <1>7. ModeAfterForward(i) = "receiving" /\ pos[i] \in Rounds
    <2>1. ModeAfterForward(i) = "receiving"
      BY DEF AgentReceives
    <2>2. CASE mode[i] = "sending"
      <3>1. ~(pos[i] > R)
        BY <2>1, <2>2 DEF ModeAfterForward
      <3>2. pos[i] # 0
        BY <2>2, <1>4 DEF Agent
      <3> QED
        BY <2>1, <3>1, <3>2, <1>4
    <2>3. CASE mode[i] # "sending"
      <3>1. mode[i] = "receiving"
        BY <2>1, <2>3 DEF ModeAfterForward
      <3> QED
        BY <2>1, <3>1, <1>4 DEF Agent
    <2> QED
      BY <2>2, <2>3
  <1>8. CASE x > 0 /\ Mistyped(i, q[x])
    <2>1. End(i, "mistyped")
      BY <1>1, <1>2, <1>8 DEF AgentReceives
    <2>2. PICK m : m = q[x]
      OBVIOUS
    <2>3. m \in Range(app[i]) \cup Range(inbox[i])
      <3>1. x \in DOMAIN q
        BY <1>5, <1>6, <1>8
      <3>2. m \in Range(q)
        BY <2>2, <3>1 DEF Range
      <3> QED
        BY <3>2, <1>5
    <2>4. /\ m.round \in Rounds /\ m.sender \in Others(i)
          /\ m.round >= pos[i] /\ m.round <= pos[i] + 1
          /\ m.round <= pos[m.sender] /\ pos[m.sender] <= pos[i] + 1
      BY <2>3, Queued
    <2>5. Stage[m.round] # Stage[pos[i]]
      BY <2>2, <1>8 DEF Mistyped
    <2>6. m.round # pos[i]
      BY <2>5
    <2>7. m.round = pos[i] + 1 /\ pos[i] < R
      BY <2>4, <2>6, <1>4
    <2>8. pos[m.sender] \in Nat
      BY <2>4, <1>4 DEF TypeOK, Others
    <2>9. pos[m.sender] = pos[i] + 1
      BY <2>4, <2>7, <2>8, <1>4
    <2> QED
      BY <2>1, <2>4, <2>5, <2>7, <2>9, EndInd
  <1>9. CASE ~(x > 0 /\ Mistyped(i, q[x]))
    <2>1. /\ unsent' = [unsent EXCEPT ![i] = u]
          /\ app' = [app EXCEPT ![i] = a] /\ inbox' = [inbox EXCEPT ![i] = b]
          /\ got' = [got EXCEPT ![i] = g]
          /\ mode' = [mode EXCEPT ![i] =
                IF Complete(i, pos[i], g) THEN "computing" ELSE "receiving"]
          /\ UNCHANGED <<pos, lost, status>>
      BY <1>1, <1>2, <1>3, <1>9 DEF AgentReceives
    <2>2. PICK h : h = SubSeq(q, 1, x)
      OBVIOUS
    <2>3. /\ a \in Seq(Received) /\ IsInjective(a)
          /\ Range(q) = Range(h) \cup Range(a) /\ Range(h) \cap Range(a) = {}
          /\ x = Len(q) => a = <<>>
      BY <1>3, <1>5, <1>6, <2>2, CutFacts
    <2>4. g = got[i] \cup Range(h)
      BY <1>3, <2>2
    <2>5. /\ Range(a) \cap Range(b) = {} /\ g \cap Range(a) = {} /\ g \cap Range(b) = {}
          /\ g \cup Range(a) \cup Range(b) = Here(i)
      BY <2>3, <2>4, <1>5 DEF IndInv, Once, Here
    <2>6. /\ Origin' /\ wire' \cap lost' = {} /\ wire' \subseteq Requests /\ lost' \subseteq Requests
          /\ \A j \in Parties : Once(j)' /\ Outbox(j)'
          /\ got' \in [Parties -> SUBSET Received]
          /\ app' \in [Parties -> Seq(Received)] /\ inbox' \in [Parties -> Seq(Received)]
          /\ unsent' \in [Parties -> Seq(Outgoing)]
          /\ app'[i] = a /\ inbox'[i] = b /\ got'[i] = g /\ unsent'[i] = u
          /\ \A j \in Parties \ {i} : /\ app'[j] = app[j] /\ inbox'[j] = inbox[j]
                                      /\ got'[j] = got[j] /\ unsent'[j] = unsent[j]
      BY <1>1, <1>5, <2>1, <2>3, <2>5, PollFacts, ZenonT(60)
    <2>7. /\ mode'[i] = IF Complete(i, pos[i], g) THEN "computing" ELSE "receiving"
          /\ \A j \in Parties \ {i} : mode'[j] = mode[j]
          /\ mode' \in [Parties -> {"computing", "sending", "receiving", "finished"}]
      BY <2>1, <1>4 DEF TypeOK
    <2>8. TypeOK'
      BY <2>1, <2>6, <2>7, <1>4 DEF TypeOK
    (* The agent stops in the middle of the queue only when it has the round. *)
    <2>9. mode'[i] = "receiving" => a = <<>>
      <3> SUFFICES ASSUME ~Complete(i, pos[i], g) PROVE x = Len(q)
        BY <2>3, <2>7
      <3>1. ~Stops(i, q, x)
        BY <1>3, <1>9 DEF Stops
      <3> QED
        BY <3>1, <1>6
    <2>10. ASSUME NEW j \in Parties PROVE Agent(j)'
      <3>1. CASE j # i
        BY <3>1, <2>1, <2>6, <2>7, AgentKept DEF IndInv
      <3>2. CASE j = i
        <4>1. pos'[i] = pos[i] /\ status'[i] = "running" /\ got[i] \subseteq g
          BY <2>1, <2>4 DEF Running
        <4>2. \A k \in Rounds : k < pos[i] => RoundMessages(i, k) \subseteq g
          BY <4>1, <1>4 DEF Agent
        <4>3. mode'[i] = "computing" => pos[i] <= R /\ Complete(i, pos[i], got[i])'
          BY <4>1, <2>6, <2>7, <1>4, <1>7 DEF Complete
        <4> QED
          BY <3>2, <4>1, <4>2, <4>3, <2>6, <2>7, <2>9, <1>7 DEF Agent, Running
      <3> QED
        BY <3>1, <3>2
    <2>11. OverflowOnlyWhileSending'
      <3> SUFFICES ASSUME NEW j \in Parties, status'[j] = "overflow"
                   PROVE  mode'[j] = "sending" /\ Kind[pos'[j]] = "direct"
        BY DEF OverflowOnlyWhileSending
      <3>1. j # i /\ status[j] = "overflow"
        BY <2>1 DEF Running
      <3> QED
        BY <3>1, <2>1, <2>7 DEF IndInv, OverflowOnlyWhileSending
    <2>12. MistypedOnlyAtTheEdge'
      BY <2>1, EdgeKept
    <2> QED
      BY <2>6, <2>8, <2>10, <2>11, <2>12 DEF IndInv
  <1> QED
    BY <1>8, <1>9

(* Nothing is queued at an agent past the last round. *)
LEMMA PastTheLast ==
  ASSUME IndInv, NEW i \in Parties, pos[i] = R + 1
  PROVE  app[i] = <<>> /\ inbox[i] = <<>>
  <1>1. app[i] \in Seq(Received) /\ inbox[i] \in Seq(Received) /\ R \in Nat /\ Rounds = 1 .. R
    BY Constants DEF IndInv, TypeOK
  <1>2. ASSUME NEW m \in Range(app[i]) \cup Range(inbox[i]) PROVE FALSE
    <2>1. m.round \in Rounds /\ m.round >= pos[i]
      BY Queued
    <2> QED
      BY <2>1, <1>1
  <1>3. ASSUME NEW q \in Seq(Received), Range(q) = {} PROVE q = <<>>
    <2>1. Len(q) \in Nat /\ DOMAIN q = 1 .. Len(q) /\ (q # <<>> => Len(q) >= 1)
      OBVIOUS
    <2>2. q # <<>> => 1 \in DOMAIN q
      BY <2>1
    <2> QED
      BY <2>2, <1>3 DEF Range
  <1> QED
    BY <1>1, <1>2, <1>3

(* The agent has its result. *)
LEMMA ReturnsInd ==
  ASSUME IndInv, NEW i \in Parties, Running(i), wire' = wire \cup Forwarded(i), AgentReturns(i)
  PROVE  IndInv'
  <1>1. /\ TypeOK /\ Agent(i) /\ pos[i] \in 0 .. R + 1 /\ R \in Nat
        /\ mode[i] \in {"computing", "sending", "receiving", "finished"}
    BY Constants DEF IndInv, TypeOK
  <1>2. pos[i] = R + 1
    <2>1. ModeAfterForward(i) = "finished"
      BY DEF AgentReturns
    <2>2. CASE mode[i] = "sending"
      BY <2>1, <2>2, <1>1 DEF ModeAfterForward
    <2>3. CASE mode[i] # "sending"
      BY <2>1, <2>3, <1>1 DEF ModeAfterForward, Agent
    <2> QED
      BY <2>2, <2>3
  <1>3. app[i] = <<>> /\ inbox[i] = <<>>
    BY <1>2, PastTheLast
  <1>4. AppAfterIntake(i) = <<>> /\ InboxLeft(i) = <<>>
    BY <1>3 DEF AppAfterIntake, InboxLeft
  <1>5. PICK a, g : a = <<>> /\ g = got[i]
    OBVIOUS
  <1>6. /\ status' = [status EXCEPT ![i] = "done"]
        /\ mode' = [mode EXCEPT ![i] = "finished"]
        /\ unsent' = [unsent EXCEPT ![i] = a]
        /\ app' = [app EXCEPT ![i] = a] /\ inbox' = [inbox EXCEPT ![i] = a]
        /\ UNCHANGED <<pos, got, lost>>
    BY <1>4, <1>5 DEF AgentReturns
  <1>7. a \in Seq(Received) /\ IsInjective(a) /\ Range(a) = {}
    <2>1. <<>> \in Seq(Received) /\ DOMAIN <<>> = {}
      OBVIOUS
    <2> QED
      BY <2>1, <1>5 DEF IsInjective, Range
  <1>8. got' = [got EXCEPT ![i] = g] /\ g = Here(i)
    <2>1. got' = [got EXCEPT ![i] = g]
      BY <1>1, <1>5, <1>6 DEF TypeOK
    <2>2. g = Here(i)
      BY <1>3, <1>5, <1>7 DEF Here
    <2> QED
      BY <2>1, <2>2
  <1>9. /\ Origin' /\ wire' \cap lost' = {} /\ wire' \subseteq Requests /\ lost' \subseteq Requests
        /\ \A j \in Parties : Once(j)' /\ Outbox(j)'
        /\ got' \in [Parties -> SUBSET Received]
        /\ app' \in [Parties -> Seq(Received)] /\ inbox' \in [Parties -> Seq(Received)]
        /\ unsent' \in [Parties -> Seq(Outgoing)]
        /\ app'[i] = a /\ inbox'[i] = a /\ got'[i] = g /\ unsent'[i] = a
        /\ \A j \in Parties \ {i} : /\ app'[j] = app[j] /\ inbox'[j] = inbox[j]
                                    /\ got'[j] = got[j] /\ unsent'[j] = unsent[j]
    <2>1. g \cap Range(a) = {} /\ Range(a) \cap Range(a) = {}
          /\ g \cup Range(a) \cup Range(a) = Here(i)
      BY <1>7, <1>8
    <2> QED
      BY <1>5, <1>6, <1>7, <1>8, <2>1, PollFacts, ZenonT(60)
  <1>10. TypeOK'
    BY <1>1, <1>6, <1>9 DEF TypeOK
  <1>11. ASSUME NEW j \in Parties PROVE Agent(j)'
    <2>1. CASE j # i
      <3>1. mode'[j] = mode[j] /\ status'[j] = status[j]
        BY <2>1, <1>1, <1>6 DEF TypeOK
      <3> QED
        BY <2>1, <3>1, <1>6, <1>9, AgentKept DEF IndInv
    <2>2. CASE j = i
      <3>1. status'[i] = "done" /\ mode'[i] = "finished" /\ got'[i] = got[i] /\ pos'[i] = pos[i]
        BY <1>1, <1>5, <1>6, <1>9 DEF TypeOK
      <3> QED
        BY <2>2, <3>1, <1>1, <1>2, <1>5, <1>9 DEF Agent, Running
    <2> QED
      BY <2>1, <2>2
  <1>12. OverflowOnlyWhileSending'
    <2> SUFFICES ASSUME NEW j \in Parties, status'[j] = "overflow"
                 PROVE  mode'[j] = "sending" /\ Kind[pos'[j]] = "direct"
      BY DEF OverflowOnlyWhileSending
    <2>1. j # i /\ status[j] = "overflow" /\ mode'[j] = mode[j] /\ pos'[j] = pos[j]
      BY <1>1, <1>6 DEF TypeOK
    <2> QED
      BY <2>1 DEF IndInv, OverflowOnlyWhileSending
  <1>13. MistypedOnlyAtTheEdge'
    BY <1>1, <1>6, EdgeKept DEF TypeOK
  <1> QED
    BY <1>9, <1>10, <1>11, <1>12, <1>13 DEF IndInv
-----------------------------------------------------------------------------
(* The invariant, for any number of parties and any rounds. *)

(* Nothing is anywhere before the first round. *)
LEMMA InitInd == Init => IndInv
  <1> SUFFICES ASSUME Init PROVE IndInv
    OBVIOUS
  <1>1. R \in Nat /\ R >= 1 /\ Rounds = 1 .. R
    BY Constants
  <1>2. PICK e : e = <<>>
    OBVIOUS
  <1>3. e \in Seq(Received) /\ e \in Seq(Outgoing) /\ DOMAIN e = {}
    BY <1>2
  <1>4. Range(e) = {} /\ IsInjective(e)
    BY <1>3 DEF Range, IsInjective
  <1>5. \A i \in Parties :
           /\ pos[i] = 0 /\ mode[i] = "computing" /\ unsent[i] = e /\ got[i] = {}
           /\ app[i] = e /\ inbox[i] = e /\ status[i] = "running"
    BY <1>2 DEF Init
  <1>6. TypeOK
    BY <1>1, <1>2, <1>3 DEF Init, TypeOK
  <1>7. \A s, j \in Parties : \A k \in Rounds : ~Sent(s, k, j)
    BY <1>4, <1>5 DEF Init, Sent, Here
  <1>8. Origin /\ wire \cap lost = {}
    BY <1>7 DEF Origin, Init
  <1>9. ASSUME NEW i \in Parties PROVE Once(i) /\ Outbox(i) /\ Agent(i)
    <2>1. Once(i)
      BY <1>4, <1>5 DEF Once, Init
    <2>2. Outbox(i)
      BY <1>3, <1>5 DEF Outbox
    <2>3. Agent(i)
      <3>1. 0 \notin Rounds /\ \A k \in Rounds : ~(k < 0)
        BY <1>1
      <3> QED
        BY <3>1, <1>1, <1>5 DEF Agent, Complete, Running
    <2> QED
      BY <2>1, <2>2, <2>3
  <1>10. OverflowOnlyWhileSending /\ MistypedOnlyAtTheEdge
    BY <1>5 DEF OverflowOnlyWhileSending, MistypedOnlyAtTheEdge
  <1> QED
    BY <1>6, <1>8, <1>9, <1>10 DEF IndInv

(* What a poll may come to. *)
LEMMA ExecPollInd ==
  ASSUME IndInv, NEW i \in Parties, ExecPoll(i) PROVE IndInv'
  <1>1. Running(i) /\ wire' = wire \cup Forwarded(i)
    BY DEF ExecPoll
  <1>2. CASE Overflow(i)
    <2>1. mode[i] = "sending" /\ Kind[pos[i]] = "direct" /\ End(i, "overflow")
      BY <1>1, <1>2, NoOverflow DEF Overflow
    <2> QED
      BY <1>1, <2>1, EndInd
  <1>3. CASE AgentBusy(i)
    BY <1>1, <1>3, BusyInd
  <1>4. CASE AgentReceives(i)
    BY <1>1, <1>4, ReceivesInd
  <1>5. CASE AgentReturns(i)
    BY <1>1, <1>5, ReturnsInd
  <1> QED
    BY <1>2, <1>3, <1>4, <1>5 DEF ExecPoll

(* Every step of proxies, executions and agents. *)
LEMMA NextInd == IndInv /\ [Next]_vars => IndInv'
  <1> SUFFICES ASSUME IndInv, [Next]_vars PROVE IndInv'
    OBVIOUS
  <1>1. CASE UNCHANGED vars
    <2>1. UNCHANGED <<pos, mode, unsent, got, app, inbox, wire, lost, status>>
      BY <1>1 DEF vars
    <2>2. TypeOK' /\ Origin' /\ wire' \cap lost' = {}
      BY <2>1 DEF IndInv, TypeOK, Origin, Sent, Here
    <2>3. \A i \in Parties : Once(i)' /\ Agent(i)'
      BY <2>1, AgentKept DEF IndInv, Once, Here
    <2>4. \A s, j \in Parties : \A k \in Rounds : Sent(s, k, j)' => Sent(s, k, j)
      BY <2>1 DEF Sent, Here
    <2>5. \A i \in Parties : Outbox(i)'
      BY <2>1, <2>4, SentShrinks
    <2>6. OverflowOnlyWhileSending' /\ MistypedOnlyAtTheEdge'
      BY <2>1, EdgeKept DEF IndInv, OverflowOnlyWhileSending
    <2> QED
      BY <2>2, <2>3, <2>5, <2>6 DEF IndInv
  <1>2. ASSUME NEW i \in Parties, Proceed(i) PROVE IndInv'
    BY <1>2, ProceedInd
  <1>3. ASSUME NEW i \in Parties, ExecPoll(i) PROVE IndInv'
    BY <1>3, ExecPollInd
  <1>4. ASSUME NEW i \in Parties, ProxyPoll(i) PROVE IndInv'
    BY <1>4, ProxyPollInd
  <1>5. ASSUME NEW i \in Parties, EchoFails(i) PROVE IndInv'
    BY <1>5, EchoFailsInd
  <1>6. ASSUME NEW m \in wire, Lose(m) PROVE IndInv'
    BY <1>6, LoseInd
  <1> QED
    BY <1>1, <1>2, <1>3, <1>4, <1>5, <1>6 DEF Next

(* What the theorems follow from. *)
LEMMA IndInvHolds == Spec => []IndInv
  BY InitInd, NextInd, PTL DEF Spec

-----------------------------------------------------------------------------
(* Stalling.                                                                *)

(* The message of round k is among what s has yet to send to j. *)
Pending(s, k, j) ==
    \E x \in DOMAIN unsent[s] : unsent[s][x].round = k /\ j \in unsent[s][x].to

Well(i) == status[i] \in {"running", "done"}

(* Among parties that are well, no message of a round begun is forgotten. *)
Accounted ==
    \A s, j \in Parties : s # j /\ Well(s) /\ Well(j) =>
        \A k \in Rounds : k <= pos[s] => Sent(s, k, j) \/ Pending(s, k, j)

(* An agent that waits has sent all it has, and something is missing. *)
Waiting(i) ==
    /\ mode[i] \in {"receiving", "finished"} => unsent[i] = <<>>
    /\ Running(i) /\ mode[i] = "receiving" => ~Complete(i, pos[i], got[i])

StallInv == IndInv /\ Accounted /\ \A i \in Parties : Waiting(i)

(* A round has a message for each of the others. *)
LEMMA ToSendCovers ==
  ASSUME NEW i \in Parties, NEW k \in Rounds, NEW j \in Others(i)
  PROVE  \E x \in DOMAIN ToSend(i, k) : ToSend(i, k)[x].round = k /\ j \in ToSend(i, k)[x].to
  <1>1. CASE Kind[k] = "broadcast"
    <2>1. ToSend(i, k) = <<[round |-> k, to |-> Others(i)]>>
      BY <1>1 DEF ToSend
    <2>2. 1 \in DOMAIN ToSend(i, k) /\ ToSend(i, k)[1] = [round |-> k, to |-> Others(i)]
      BY <2>1
    <2> QED
      BY <2>2
  <1>2. CASE Kind[k] # "broadcast"
    <2>1. ToSend(i, k) = [x \in 1 .. N - 1 |-> [round |-> k, to |-> {IF x < i THEN x ELSE x + 1}]]
      BY <1>2 DEF ToSend
    <2>2. PICK x : x = IF j < i THEN j ELSE j - 1
      OBVIOUS
    <2>3. x \in 1 .. N - 1 /\ (IF x < i THEN x ELSE x + 1) = j
      BY <2>2, NAssumption DEF Others, Parties
    <2>4. x \in DOMAIN ToSend(i, k) /\ ToSend(i, k)[x] = [round |-> k, to |-> {IF x < i THEN x ELSE x + 1}]
      BY <2>1, <2>3
    <2>5. ToSend(i, k)[x].round = k /\ ToSend(i, k)[x].to = {j}
      BY <2>3, <2>4
    <2> QED
      BY <2>4, <2>5
  <1> QED
    BY <1>1, <1>2

(* Nothing is forgotten while what has left stays on its way, and what has  *)
(* not left stays or leaves.                                                *)
LEMMA AccountedKept ==
  ASSUME Accounted, pos' = pos,
         \A i \in Parties : Well(i)' => Well(i),
         \A s, j \in Parties : s # j /\ Well(s)' /\ Well(j)' =>
             \A k \in Rounds : /\ Sent(s, k, j) => Sent(s, k, j)'
                               /\ Pending(s, k, j) => Sent(s, k, j)' \/ Pending(s, k, j)'
  PROVE  Accounted'
  BY DEF Accounted

(* A poll puts a message on the wire, and leaves the others. *)
LEMMA ForwardKeeps ==
  ASSUME IndInv, NEW i \in Parties, Running(i),
         wire' = wire \cup Forwarded(i), unsent'[i] = StillUnsent(i),
         NEW k \in Rounds, NEW j \in Parties, Pending(i, k, j)
  PROVE  Sent(i, k, j)' \/ Pending(i, k, j)'
  <1>1. CASE mode[i] # "sending"
    BY <1>1 DEF StillUnsent, Pending
  <1>2. CASE mode[i] = "sending"
    <2>1. PICK u : u = unsent[i]
      OBVIOUS
    <2>2. u \in Seq(Outgoing) /\ u # <<>>
      BY <1>2, <2>1 DEF IndInv, TypeOK, Agent
    <2>3. PICK h : h = Head(u)
      OBVIOUS
    <2>4. /\ Len(u) \in Nat /\ Len(u) >= 1 /\ DOMAIN u = 1 .. Len(u) /\ h = u[1]
          /\ Tail(u) \in Seq(Outgoing) /\ DOMAIN Tail(u) = 1 .. Len(u) - 1
          /\ \A x \in 1 .. Len(u) - 1 : Tail(u)[x] = u[x + 1]
      BY <2>2, <2>3
    <2>5. /\ Forwarded(i) = {[sender |-> i, round |-> h.round, to |-> y] : y \in h.to}
          /\ unsent'[i] = Tail(u)
      BY <1>2, <2>1, <2>3 DEF Forwarded, StillUnsent
    <2>6. PICK x \in DOMAIN u : u[x].round = k /\ j \in u[x].to
      BY <2>1 DEF Pending
    <2>7. CASE x = 1
      <3>1. [sender |-> i, round |-> k, to |-> j] \in Forwarded(i)
        BY <2>4, <2>5, <2>6, <2>7
      <3> QED
        BY <3>1 DEF Sent
    <2>8. CASE x # 1
      <3>1. x - 1 \in 1 .. Len(u) - 1 /\ (x - 1) + 1 = x
        BY <2>4, <2>6, <2>8
      <3>2. x - 1 \in DOMAIN Tail(u) /\ Tail(u)[x - 1] = u[x]
        BY <2>4, <3>1
      <3> QED
        BY <2>5, <2>6, <3>2 DEF Pending
    <2> QED
      BY <2>7, <2>8
  <1> QED
    BY <1>1, <1>2

(* An execution that ends is not well; it takes nothing of the others along. *)
LEMMA EndStalls ==
  ASSUME StallInv, NEW i \in Parties, NEW how \in {"abandoned", "overflow", "mistyped"},
         End(i, how), wire \subseteq wire'
  PROVE  Accounted' /\ \A j \in Parties : Waiting(j)'
  <1>1. /\ TypeOK /\ Accounted
        /\ status' = [status EXCEPT ![i] = how]
        /\ inbox' = [inbox EXCEPT ![i] = <<>>] /\ app' = [app EXCEPT ![i] = <<>>]
        /\ unsent' = [unsent EXCEPT ![i] = <<>>]
        /\ UNCHANGED <<pos, mode, got, lost>>
    BY DEF StallInv, IndInv, End
  <1>2. /\ status'[i] = how /\ unsent'[i] = <<>>
        /\ \A j \in Parties \ {i} : /\ status'[j] = status[j] /\ inbox'[j] = inbox[j]
                                    /\ app'[j] = app[j] /\ unsent'[j] = unsent[j]
    BY <1>1 DEF TypeOK
  <1>3. ~Well(i)' /\ ~Running(i)' /\ \A j \in Parties \ {i} : Well(j)' = Well(j)
    BY <1>2 DEF Well, Running
  <1>4. ASSUME NEW s \in Parties \ {i}, NEW j \in Parties \ {i}, NEW k \in Rounds
        PROVE  /\ Sent(s, k, j) => Sent(s, k, j)'
               /\ Pending(s, k, j) => Pending(s, k, j)'
    <2>1. Here(j)' = Here(j)
      BY <1>1, <1>2 DEF Here
    <2>2. Sent(s, k, j) => Sent(s, k, j)'
      BY <2>1, <1>1 DEF Sent
    <2>3. Pending(s, k, j) => Pending(s, k, j)'
      BY <1>2 DEF Pending
    <2> QED
      BY <2>2, <2>3
  <1>5. Accounted'
    BY <1>1, <1>3, <1>4, AccountedKept
  <1>6. ASSUME NEW j \in Parties PROVE Waiting(j)'
    <2>1. Waiting(j)
      BY DEF StallInv
    <2>2. CASE j = i
      BY <2>2, <1>2, <1>3 DEF Waiting
    <2>3. CASE j # i
      BY <2>1, <2>3, <1>1, <1>2 DEF Waiting, Running, Complete
    <2> QED
      BY <2>2, <2>3
  <1> QED
    BY <1>5, <1>6

(* Whatever else a poll comes to, it keeps what the party has. *)
LEMMA PollKeeps ==
  ASSUME StallInv, NEW i \in Parties, Running(i),
         wire' = wire \cup Forwarded(i), lost' = lost, pos' = pos,
         unsent'[i] = StillUnsent(i), Here(i) \subseteq Here(i)',
         \A j \in Parties \ {i} : /\ Here(j)' = Here(j)
                                 /\ unsent'[j] = unsent[j] /\ status'[j] = status[j]
  PROVE  Accounted'
  <1>1. ASSUME NEW s \in Parties, NEW j \in Parties, NEW k \in Rounds
        PROVE  /\ Sent(s, k, j) => Sent(s, k, j)'
               /\ Pending(s, k, j) => Sent(s, k, j)' \/ Pending(s, k, j)'
    <2>1. Here(j) \subseteq Here(j)'
      OBVIOUS
    <2>2. Sent(s, k, j) => Sent(s, k, j)'
      BY <2>1 DEF Sent
    <2>3. CASE s = i
      BY <2>2, <2>3, ForwardKeeps DEF StallInv
    <2>4. CASE s # i
      BY <2>2, <2>4 DEF Pending
    <2> QED
      BY <2>2, <2>3, <2>4
  <1>2. \A j \in Parties : Well(j)' => Well(j)
    BY DEF Well, Running
  <1> QED
    BY <1>1, <1>2, AccountedKept DEF StallInv

(* A message moves from the wire into the execution's queue, or is lost. *)
LEMMA ProxyPollStalls ==
  ASSUME StallInv, NEW i \in Parties, ProxyPoll(i)
  PROVE  Accounted' /\ \A j \in Parties : Waiting(j)'
  <1>1. PICK m \in wire :
          /\ m.to = i /\ wire' = wire \ {m}
          /\ IF Len(inbox[i]) < InboxCapacity
             THEN /\ inbox' = [inbox EXCEPT ![i] =
                        Append(@, [sender |-> m.sender, round |-> m.round])]
                  /\ UNCHANGED lost
             ELSE lost' = lost \cup {m} /\ UNCHANGED inbox
          /\ UNCHANGED <<pos, mode, unsent, got, app, status>>
    BY DEF ProxyPoll
  <1>2. PICK r, b : r = [sender |-> m.sender, round |-> m.round] /\ b = inbox[i]
    OBVIOUS
  <1>3. /\ TypeOK /\ Accounted /\ m \in Requests /\ r \in Received /\ b \in Seq(Received)
    BY <1>2 DEF StallInv, IndInv, TypeOK, Requests, Received
  <1>4. \/ inbox' = inbox /\ lost' = lost \cup {m}
        \/ /\ lost' = lost /\ inbox'[i] = Append(b, r)
           /\ \A j \in Parties \ {i} : inbox'[j] = inbox[j]
    BY <1>1, <1>2, <1>3 DEF TypeOK
  <1>5. Range(Append(b, r)) = Range(b) \cup {r}
    <2>1. Len(b) \in Nat /\ DOMAIN b = 1 .. Len(b) /\ DOMAIN Append(b, r) = 1 .. Len(b) + 1
      BY <1>3
    <2>2. \A x \in 1 .. Len(b) + 1 : Append(b, r)[x] = IF x <= Len(b) THEN b[x] ELSE r
      BY <1>3
    <2>3. /\ \A x \in 1 .. Len(b) : x \in 1 .. Len(b) + 1 /\ Append(b, r)[x] = b[x]
          /\ Len(b) + 1 \in 1 .. Len(b) + 1 /\ Append(b, r)[Len(b) + 1] = r
          /\ \A x \in 1 .. Len(b) + 1 : x \in 1 .. Len(b) \/ x = Len(b) + 1
      BY <2>1, <2>2
    <2>4. Range(Append(b, r)) \subseteq Range(b) \cup {r}
      BY <2>1, <2>3 DEF Range
    <2>5. Range(b) \cup {r} \subseteq Range(Append(b, r))
      BY <2>1, <2>3 DEF Range
    <2> QED
      BY <2>4, <2>5
  <1>6. \A j \in Parties : Here(j) \subseteq Here(j)'
    BY <1>1, <1>2, <1>4, <1>5 DEF Here
  <1>7. r \in Here(i)' \/ m \in lost'
    BY <1>4, <1>5 DEF Here
  <1>8. ASSUME NEW s \in Parties, NEW j \in Parties, NEW k \in Rounds, Sent(s, k, j)
        PROVE  Sent(s, k, j)'
    <2>1. CASE [sender |-> s, round |-> k] \in Here(j)
      BY <2>1, <1>6 DEF Sent
    <2>2. CASE [sender |-> s, round |-> k, to |-> j] = m
      BY <2>2, <1>1, <1>2, <1>7 DEF Sent
    <2>3. CASE [sender |-> s, round |-> k, to |-> j] \in (wire \ {m}) \cup lost
      BY <2>3, <1>1, <1>4 DEF Sent
    <2> QED
      BY <1>8, <2>1, <2>2, <2>3 DEF Sent
  <1>9. Accounted'
    BY <1>1, <1>3, <1>8, AccountedKept DEF Pending, Well
  <1>10. \A j \in Parties : Waiting(j)'
    BY <1>1 DEF StallInv, Waiting, Running, Complete
  <1> QED
    BY <1>9, <1>10

(* A lost message has left, all the same. *)
LEMMA LoseStalls ==
  ASSUME StallInv, NEW m \in wire, Lose(m)
  PROVE  Accounted' /\ \A j \in Parties : Waiting(j)'
  <1>1. /\ wire' = wire \ {m} /\ lost' = lost \cup {m}
        /\ UNCHANGED <<pos, mode, unsent, got, app, inbox, status>>
    BY DEF Lose
  <1>2. \A s, k, j : Sent(s, k, j) => Sent(s, k, j)'
    BY <1>1 DEF Sent, Here
  <1>3. Accounted'
    BY <1>1, <1>2, AccountedKept DEF StallInv, Pending, Well
  <1>4. \A j \in Parties : Waiting(j)'
    BY <1>1 DEF StallInv, Waiting, Running, Complete
  <1> QED
    BY <1>3, <1>4

(* The next round's messages are for all the others. *)
LEMMA ProceedStalls ==
  ASSUME StallInv, NEW i \in Parties, Proceed(i)
  PROVE  Accounted' /\ \A j \in Parties : Waiting(j)'
  <1>1. PICK u, w, out : u = unsent[i] /\ w = ToSend(i, pos[i] + 1) /\ out = u \o w
    OBVIOUS
  <1>2. /\ TypeOK /\ IndInv /\ Accounted /\ mode[i] = "computing" /\ pos[i] <= R
        /\ R \in Nat /\ Rounds = 1 .. R
    BY Constants DEF StallInv, IndInv, Proceed, Agent
  <1>3. /\ pos' = [pos EXCEPT ![i] = pos[i] + 1]
        /\ unsent' = [unsent EXCEPT ![i] = out]
        /\ mode' = [mode EXCEPT ![i] =
              IF pos[i] + 1 <= R /\ Complete(i, pos[i] + 1, got[i]) THEN "computing"
              ELSE IF out # <<>> THEN "sending" ELSE "finished"]
        /\ UNCHANGED <<got, app, inbox, wire, lost, status>>
    BY <1>1 DEF Proceed
  <1>4. /\ pos'[i] = pos[i] + 1 /\ unsent'[i] = out
        /\ mode'[i] \in {"computing", "sending", "finished"}
        /\ mode'[i] = "finished" => out = <<>>
        /\ \A j \in Parties \ {i} : /\ pos'[j] = pos[j] /\ unsent'[j] = unsent[j]
                                    /\ mode'[j] = mode[j]
    BY <1>2, <1>3 DEF TypeOK
  <1>5. pos[i] \in Nat /\ pos[i] + 1 \in 0 .. R + 1
    BY <1>2 DEF TypeOK
  <1>6. u \in Seq(Outgoing) /\ w \in Seq(Outgoing)
    BY <1>1, <1>2, <1>5, ToSendFacts DEF TypeOK
  <1>7. /\ Len(u) \in Nat /\ Len(w) \in Nat
        /\ DOMAIN u = 1 .. Len(u) /\ DOMAIN w = 1 .. Len(w) /\ DOMAIN out = 1 .. Len(u) + Len(w)
        /\ \A x \in 1 .. Len(u) + Len(w) : out[x] = IF x <= Len(u) THEN u[x] ELSE w[x - Len(u)]
    <2>1. /\ out \in Seq(Outgoing) /\ Len(out) = Len(u) + Len(w)
          /\ \A x \in 1 .. Len(u) + Len(w) : out[x] = IF x <= Len(u) THEN u[x] ELSE w[x - Len(u)]
      BY <1>1, <1>6, ConcatProperties
    <2> QED
      BY <2>1, <1>6
  <1>8. \A x \in DOMAIN u : x \in DOMAIN out /\ out[x] = u[x]
    BY <1>7
  <1>9. \A x \in DOMAIN w : Len(u) + x \in DOMAIN out /\ out[Len(u) + x] = w[x]
    BY <1>7
  <1>10. \A s, k, j : Sent(s, k, j) => Sent(s, k, j)'
    BY <1>3 DEF Sent, Here
  <1>11. ASSUME NEW s \in Parties, NEW j \in Parties, s # j, Well(s)', Well(j)',
                NEW k \in Rounds, k <= pos'[s]
         PROVE  Sent(s, k, j)' \/ Pending(s, k, j)'
    <2>1. Well(s) /\ Well(j)
      BY <1>3, <1>11 DEF Well
    <2>2. CASE k <= pos[s]
      <3>1. CASE Sent(s, k, j)
        BY <3>1, <1>10
      <3>2. CASE Pending(s, k, j) /\ s # i
        BY <3>2, <1>4 DEF Pending
      <3>3. CASE Pending(s, k, j) /\ s = i
        <4>1. PICK x \in DOMAIN u : u[x].round = k /\ j \in u[x].to
          BY <3>3, <1>1 DEF Pending
        <4>2. x \in DOMAIN unsent'[s] /\ unsent'[s][x] = u[x]
          BY <3>3, <1>4, <1>8, <4>1
        <4> QED
          BY <4>1, <4>2 DEF Pending
      <3> QED
        BY <2>1, <2>2, <3>1, <3>2, <3>3, <1>2, <1>11 DEF Accounted
    <2>3. CASE ~(k <= pos[s])
      <3>1. s = i
        BY <2>3, <1>4, <1>11
      <3>2. k = pos[i] + 1
        BY <2>3, <3>1, <1>2, <1>4, <1>5, <1>11
      <3>3. PICK x \in DOMAIN w : w[x].round = k /\ j \in w[x].to
        BY <3>1, <3>2, <1>1, <1>11, ToSendCovers DEF Others
      <3> QED
        BY <3>1, <3>3, <1>4, <1>9 DEF Pending
    <2> QED
      BY <2>2, <2>3
  <1>12. ASSUME NEW j \in Parties PROVE Waiting(j)'
    <2>1. CASE j = i
      BY <2>1, <1>4 DEF Waiting
    <2>2. CASE j # i
      <3>1. Waiting(j) /\ got' = got /\ status' = status
        BY <1>3 DEF StallInv
      <3> QED
        BY <2>2, <3>1, <1>4 DEF Waiting, Running, Complete
    <2> QED
      BY <2>1, <2>2
  <1> QED
    BY <1>11, <1>12 DEF Accounted

(* What an agent is told, and what it takes. *)
LEMMA ExecPollStalls ==
  ASSUME StallInv, NEW i \in Parties, ExecPoll(i)
  PROVE  Accounted' /\ \A j \in Parties : Waiting(j)'
  <1>1. /\ IndInv /\ TypeOK /\ Waiting(i) /\ Running(i) /\ wire' = wire \cup Forwarded(i)
        /\ mode[i] \in {"computing", "sending", "receiving", "finished"}
    BY DEF ExecPoll, StallInv, IndInv, TypeOK
  <1>2. ModeAfterForward(i) \in {"receiving", "finished"} => StillUnsent(i) = <<>>
    BY <1>1 DEF ModeAfterForward, StillUnsent, Waiting
  <1>3. /\ Range(AppAfterIntake(i)) \cup Range(InboxLeft(i)) = Range(app[i]) \cup Range(inbox[i])
        /\ AppAfterIntake(i) \in Seq(Received) /\ IsInjective(AppAfterIntake(i))
    BY <1>1, IntakeFacts
  <1>4. CASE Overflow(i)
    BY <1>1, <1>4, EndStalls DEF Overflow
  <1>5. ASSUME pos' = pos, lost' = lost,
               unsent' = [unsent EXCEPT ![i] = StillUnsent(i)],
               inbox' = [inbox EXCEPT ![i] = InboxLeft(i)],
               NEW a, app' = [app EXCEPT ![i] = a],
               NEW g, got' = [got EXCEPT ![i] = g],
               got[i] \cup Range(AppAfterIntake(i)) \subseteq g \cup Range(a),
               NEW how \in {"running", "done"}, status' = [status EXCEPT ![i] = how],
               NEW new, mode' = [mode EXCEPT ![i] = new],
               new \in {"receiving", "finished"} => StillUnsent(i) = <<>>,
               new = "receiving" => ~Complete(i, pos[i], g)
        PROVE  Accounted' /\ \A j \in Parties : Waiting(j)'
    <2>1. /\ unsent'[i] = StillUnsent(i) /\ inbox'[i] = InboxLeft(i) /\ app'[i] = a
          /\ got'[i] = g /\ mode'[i] = new
          /\ \A j \in Parties \ {i} : /\ unsent'[j] = unsent[j] /\ inbox'[j] = inbox[j]
                                      /\ app'[j] = app[j] /\ got'[j] = got[j]
                                      /\ status'[j] = status[j] /\ mode'[j] = mode[j]
      BY <1>1, <1>5 DEF TypeOK
    <2>2. Here(i) \subseteq Here(i)'
      BY <2>1, <1>3, <1>5 DEF Here
    <2>3. \A j \in Parties \ {i} : Here(j)' = Here(j)
      BY <2>1 DEF Here
    <2>4. Accounted'
      BY <2>1, <2>2, <2>3, <1>1, <1>5, PollKeeps
    <2>5. ASSUME NEW j \in Parties PROVE Waiting(j)'
      <3>1. CASE j = i
        BY <3>1, <2>1, <1>5 DEF Waiting, Complete
      <3>2. CASE j # i
        <4>1. Waiting(j) /\ pos' = pos
          BY <1>5 DEF StallInv
        <4> QED
          BY <3>2, <4>1, <2>1 DEF Waiting, Running, Complete
      <3> QED
        BY <3>1, <3>2
    <2> QED
      BY <2>4, <2>5
  <1>6. got = [got EXCEPT ![i] = got[i]] /\ status = [status EXCEPT ![i] = "running"]
        /\ mode = [mode EXCEPT ![i] = mode[i]]
    BY <1>1 DEF TypeOK, Running
  <1>7. CASE AgentBusy(i)
    <2>1. /\ ModeAfterForward(i) \in {"computing", "sending"}
          /\ unsent' = [unsent EXCEPT ![i] = StillUnsent(i)]
          /\ app' = [app EXCEPT ![i] = AppAfterIntake(i)]
          /\ inbox' = [inbox EXCEPT ![i] = InboxLeft(i)]
          /\ pos' = pos /\ mode' = mode /\ got' = got /\ lost' = lost /\ status' = status
      BY <1>7 DEF AgentBusy
    <2>2. mode[i] \notin {"receiving", "finished"}
      BY <2>1 DEF ModeAfterForward
    <2> QED
      BY <2>1, <2>2, <1>5, <1>6
  <1>8. CASE AgentReceives(i)
    <2>1. PICK q, x, g : /\ q = AppAfterIntake(i) /\ x = Taken(i, q)
                         /\ g = got[i] \cup Range(SubSeq(q, 1, x))
      OBVIOUS
    <2>2. CASE x > 0 /\ Mistyped(i, q[x])
      BY <2>1, <2>2, <1>1, <1>8, EndStalls DEF AgentReceives
    <2>3. CASE ~(x > 0 /\ Mistyped(i, q[x]))
      <3>1. PICK a, new : /\ a = SubSeq(q, x + 1, Len(q))
                          /\ new = IF Complete(i, pos[i], g) THEN "computing" ELSE "receiving"
        OBVIOUS
      <3>2. /\ ModeAfterForward(i) = "receiving"
            /\ unsent' = [unsent EXCEPT ![i] = StillUnsent(i)]
            /\ app' = [app EXCEPT ![i] = a]
            /\ inbox' = [inbox EXCEPT ![i] = InboxLeft(i)]
            /\ got' = [got EXCEPT ![i] = g]
            /\ mode' = [mode EXCEPT ![i] = new]
            /\ pos' = pos /\ lost' = lost /\ status' = status
        BY <2>1, <2>3, <3>1, <1>8 DEF AgentReceives
      <3>3. x \in 0 .. Len(q) /\ q \in Seq(Received) /\ IsInjective(q)
        BY <2>1, <1>3, TakenFacts
      <3>4. Range(q) = Range(SubSeq(q, 1, x)) \cup Range(a)
        BY <3>1, <3>3, CutFacts
      <3>5. /\ got[i] \cup Range(AppAfterIntake(i)) \subseteq g \cup Range(a)
            /\ StillUnsent(i) = <<>> /\ (new = "receiving" => ~Complete(i, pos[i], g))
            /\ status' = [status EXCEPT ![i] = "running"]
        BY <2>1, <3>1, <3>2, <3>4, <1>2, <1>6
      <3> QED
        BY <3>2, <3>5, <1>5
    <2> QED
      BY <2>2, <2>3
  <1>9. CASE AgentReturns(i)
    <2>1. /\ ModeAfterForward(i) = "finished"
          /\ status' = [status EXCEPT ![i] = "done"]
          /\ mode' = [mode EXCEPT ![i] = "finished"]
          /\ unsent' = [unsent EXCEPT ![i] = <<>>]
          /\ app' = [app EXCEPT ![i] = AppAfterIntake(i)]
          /\ inbox' = [inbox EXCEPT ![i] = InboxLeft(i)]
          /\ pos' = pos /\ got' = got /\ lost' = lost
      BY <1>9 DEF AgentReturns
    <2> QED
      BY <2>1, <1>2, <1>5, <1>6
  <1> QED
    BY <1>4, <1>7, <1>8, <1>9 DEF ExecPoll

(* Nothing is forgotten, in any reachable state. *)
LEMMA StallInvHolds == Spec => []StallInv
  <1>1. Init => StallInv
    <2> SUFFICES ASSUME Init PROVE StallInv
      OBVIOUS
    <2>1. \A i \in Parties : pos[i] = 0 /\ mode[i] = "computing"
      BY DEF Init
    <2>2. \A k \in Rounds : ~(k <= 0)
      BY Constants
    <2> QED
      BY <2>1, <2>2, InitInd DEF StallInv, Accounted, Waiting
  <1>2. StallInv /\ [Next]_vars => StallInv'
    <2> SUFFICES ASSUME StallInv, [Next]_vars PROVE StallInv'
      OBVIOUS
    <2>1. IndInv'
      BY NextInd DEF StallInv
    <2>2. CASE UNCHANGED vars
      <3>1. UNCHANGED <<pos, mode, unsent, got, app, inbox, wire, lost, status>>
        BY <2>2 DEF vars
      <3>2. Accounted'
        BY <3>1 DEF StallInv, Accounted, Sent, Here, Pending, Well
      <3>3. \A j \in Parties : Waiting(j)'
        BY <3>1 DEF StallInv, Waiting, Running, Complete
      <3> QED
        BY <2>1, <3>2, <3>3 DEF StallInv
    <2>3. ASSUME NEW i \in Parties, Proceed(i) PROVE StallInv'
      BY <2>1, <2>3, ProceedStalls DEF StallInv
    <2>4. ASSUME NEW i \in Parties, ExecPoll(i) PROVE StallInv'
      BY <2>1, <2>4, ExecPollStalls DEF StallInv
    <2>5. ASSUME NEW i \in Parties, ProxyPoll(i) PROVE StallInv'
      BY <2>1, <2>5, ProxyPollStalls DEF StallInv
    <2>6. ASSUME NEW i \in Parties, EchoFails(i) PROVE StallInv'
      BY <2>1, <2>6, EndStalls DEF StallInv, EchoFails
    <2>7. ASSUME NEW m \in wire, Lose(m) PROVE StallInv'
      BY <2>1, <2>7, LoseStalls DEF StallInv
    <2> QED
      BY <2>2, <2>3, <2>4, <2>5, <2>6, <2>7 DEF Next
  <1> QED
    BY <1>1, <1>2, PTL DEF Spec

-----------------------------------------------------------------------------
(* Queues, the outbox and the states of agents keep their types. *)
THEOREM TypeCorrect == Spec => []TypeOK
  <1>1. IndInv => TypeOK
    BY DEF IndInv
  <1> QED
    BY <1>1, IndInvHolds, PTL

(* A queue of one message per other party is overrun only while the agent   *)
(* sends direct messages, however many parties and rounds there are.        *)
THEOREM OverflowsOnlyWhileSending == Spec => []OverflowOnlyWhileSending
  <1>1. IndInv => OverflowOnlyWhileSending
    BY DEF IndInv
  <1> QED
    BY <1>1, IndInvHolds, PTL

(* An agent meets a message it cannot deserialize only where two state      *)
(* machines share a channel, and only by a party that is a round ahead.     *)
THEOREM MistypedAtTheEdge == Spec => []MistypedOnlyAtTheEdge
  <1>1. IndInv => MistypedOnlyAtTheEdge
    BY DEF IndInv
  <1> QED
    BY <1>1, IndInvHolds, PTL

(* A party that has its result has had every message that is meant for it. *)
THEOREM NothingIsLate == Spec => []NothingLate
  <1>1. IndInv => NothingLate
    <2> SUFFICES ASSUME IndInv, NEW i \in Parties, status[i] = "done"
                 PROVE  /\ app[i] = <<>> /\ inbox[i] = <<>>
                        /\ \A m \in wire \cup lost : m.to # i
      BY DEF NothingLate
    <2>1. Agent(i) /\ ~Running(i)
      BY DEF IndInv, Running
    <2>2. pos[i] = R + 1 /\ R \in Nat /\ Rounds = 1 .. R
      BY <2>1, Constants DEF Agent
    <2>3. \A k \in Rounds : RoundMessages(i, k) \subseteq got[i]
      BY <2>1, <2>2 DEF Agent
    <2>4. ASSUME NEW m \in wire \cup lost, m.to = i PROVE FALSE
      <3>1. m \in Requests
        BY DEF IndInv, TypeOK
      <3>2. /\ m.sender \in Parties /\ m.round \in Rounds
            /\ m = [sender |-> m.sender, round |-> m.round, to |-> i]
        BY <2>4, <3>1 DEF Requests
      <3>3. Sent(m.sender, m.round, i)
        BY <3>2 DEF Sent
      <3>4. m.sender \in Others(i)
        BY <3>2, <3>3 DEF IndInv, Origin, Others
      <3>5. [sender |-> m.sender, round |-> m.round] \in got[i]
        BY <2>3, <3>2, <3>4 DEF RoundMessages
      <3> QED
        BY <2>4, <3>5 DEF IndInv, Once, Here
    <2> QED
      BY <2>1, <2>4 DEF Agent
  <1> QED
    BY <1>1, IndInvHolds, PTL

(* While nothing is lost and nobody has failed, somebody can go on: of those *)
(* without a result, the one that is furthest behind misses a message that   *)
(* has reached it, is on its way, or is still to be sent by a party that can *)
(* send it (execution.rs:88-271, round_based.rs:38-60).                      *)
THEOREM StallsAreLosses == Spec => []StallsOnlyOverLoss
  <1>1. StallInv => StallsOnlyOverLoss
    <2> SUFFICES ASSUME StallInv, lost = {}, \A j \in Parties : Well(j),
                        NEW a \in Parties, status[a] # "done",
                        \A j \in Parties : Running(j) =>
                            /\ mode[j] = "receiving" /\ inbox[j] = <<>>
                            /\ \A m \in wire : m.to # j
                 PROVE  FALSE
      BY DEF StallsOnlyOverLoss, Well
    <2>1. /\ IndInv /\ Accounted /\ R \in Nat /\ Rounds = 1 .. R
          /\ \A j \in Parties : pos[j] \in Nat
      BY Constants DEF StallInv, IndInv, TypeOK
    <2>2. \A j \in Parties : Running(j) \/ pos[j] = R + 1
      BY <2>1 DEF IndInv, Agent, Well, Running
    <2>3. Running(a)
      BY DEF Well, Running
    <2>4. PICK i \in Parties : Running(i) /\ \A j \in Parties : Running(j) => pos[i] <= pos[j]
      <3>1. CASE \A j \in Parties : Running(j) => pos[a] <= pos[j]
        BY <2>3, <3>1
      <3>2. CASE \E b \in Parties : Running(b) /\ ~(pos[a] <= pos[b])
        <4>1. PICK b \in Parties : Running(b) /\ ~(pos[a] <= pos[b])
          BY <3>2
        <4>2. \A j \in Parties : pos[b] <= pos[j]
          <5>1. ASSUME NEW j \in Parties PROVE pos[b] <= pos[j]
            <6>1. pos[a] <= pos[j] + 1 /\ pos[a] \in Nat /\ pos[b] \in Nat /\ pos[j] \in Nat
              BY <2>1, Lag
            <6> QED
              BY <4>1, <6>1
          <5> QED
            BY <5>1
        <4> QED
          BY <4>1, <4>2
      <3> QED
        BY <3>1, <3>2
    <2>5. /\ pos[i] \in Rounds /\ app[i] = <<>> /\ inbox[i] = <<>>
          /\ ~Complete(i, pos[i], got[i])
      BY <2>1, <2>4 DEF StallInv, IndInv, Agent, Waiting
    <2>6. PICK s \in Others(i) : [sender |-> s, round |-> pos[i]] \notin got[i]
      BY <2>5 DEF Complete, RoundMessages
    <2>7. s \in Parties /\ s # i
      BY <2>6 DEF Others
    <2>8. pos[i] <= pos[s]
      BY <2>1, <2>2, <2>4, <2>5, <2>7
    <2>9. Sent(s, pos[i], i) \/ Pending(s, pos[i], i)
      BY <2>1, <2>5, <2>7, <2>8 DEF Accounted
    <2>10. ~Sent(s, pos[i], i)
      <3>1. Range(app[i]) = {} /\ Range(inbox[i]) = {}
        BY <2>5 DEF Range
      <3> QED
        BY <2>4, <2>6, <3>1 DEF Sent, Here
    <2>11. unsent[s] = <<>>
      <3>1. CASE Running(s)
        BY <2>7, <3>1 DEF StallInv, Waiting
      <3>2. CASE ~Running(s)
        BY <2>1, <2>7, <3>2 DEF IndInv, Agent
      <3> QED
        BY <3>1, <3>2
    <2>12. ~Pending(s, pos[i], i)
      BY <2>11 DEF Pending
    <2> QED
      BY <2>9, <2>10, <2>12
  <1> QED
    BY <1>1, StallInvHolds, PTL

(* The parties implement RoundBased: an agent computes the next round only  *)
(* when everybody has sent it the messages of its own.                      *)
THEOREM ImplementsRoundBased == Spec => InStep
  <1>1. Init => Lockstep!Init
    BY DEF Init, Lockstep!Init, Parties, Lockstep!Parties
  <1>2. IndInv /\ [Next]_vars => [Lockstep!Next]_pos
    <2> SUFFICES ASSUME IndInv, [Next]_vars, pos' # pos PROVE Lockstep!Next
      OBVIOUS
    <2>1. PICK i \in Parties : Proceed(i)
      BY DEF Next, vars, ExecPoll, ProxyPoll, EchoFails, Lose, End, Overflow,
             AgentBusy, AgentReceives, AgentReturns
    <2>2. /\ mode[i] = "computing" /\ pos' = [pos EXCEPT ![i] = pos[i] + 1]
      BY <2>1 DEF Proceed
    <2>3. /\ pos[i] <= R /\ Complete(i, pos[i], got[i]) /\ pos[i] \in 0 .. R + 1
          /\ R \in Nat /\ Rounds = 1 .. R
          /\ \A j \in Parties : pos[j] \in Nat
      BY <2>2, Constants DEF IndInv, Agent, TypeOK
    <2>4. ASSUME NEW j \in Parties PROVE pos[j] >= pos[i]
      <3>1. CASE j = i \/ pos[i] \notin Rounds
        BY <3>1, <2>3
      <3>2. CASE j # i /\ pos[i] \in Rounds
        <4>1. pos[i] <= pos[j]
          BY <3>2, <2>3, CompleteLag DEF Complete, IndInv, Others
        <4> QED
          BY <4>1, <2>3
      <3> QED
        BY <3>1, <3>2
    <2>5. Lockstep!Advance(i)
      BY <2>2, <2>3, <2>4 DEF Lockstep!Advance, Lockstep!Parties, Parties
    <2> QED
      BY <2>5 DEF Lockstep!Next, Lockstep!Parties, Parties
  <1> QED
    BY <1>1, <1>2, IndInvHolds, PTL DEF Spec, InStep, Lockstep!Spec

(* The guarantees of a round-based computation, for these parties. *)
Steps == INSTANCE RoundBasedProofs

(* So no agent is more than one round ahead of another, however its         *)
(* messages are queued, and none has a result before all have computed      *)
(* their last ones.                                                         *)
THEOREM PartiesStayTogether == Spec => []Lockstep!Apart
  <1>1. Steps!Spec => []Steps!Apart
    BY Steps!WithinARound
  <1>2. Lockstep!Init => Steps!Init
    BY DEF Lockstep!Init, Steps!Init, Lockstep!Parties, Steps!Parties
  <1>3. [Lockstep!Next]_pos => [Steps!Next]_pos
    BY DEF Lockstep!Next, Steps!Next, Lockstep!Advance, Steps!Advance, Lockstep!Parties, Steps!Parties
  <1>4. Steps!Apart => Lockstep!Apart
    BY DEF Lockstep!Apart, Steps!Apart, Lockstep!Parties, Steps!Parties
  <1> QED
    BY <1>1, <1>2, <1>3, <1>4, ImplementsRoundBased, PTL DEF InStep, Lockstep!Spec, Steps!Spec
=============================================================================
