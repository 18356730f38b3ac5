------------------------ MODULE EchoBroadcastProofs ------------------------
(***************************************************************************)
(* The echo broadcast for every number of parties and rounds, and for      *)
(* whatever every sender sends to whomever.                                *)
(*                                                                         *)
(* Soundness.  EchoSound alone is not inductive: that an equal hash means  *)
(* equal payloads rests on where the messages of a hash come from.         *)
(* Addressed says that everything a party queues, batches or hashes was    *)
(* sent to that very party, so a message in the batches of two parties     *)
(* carries what its sender sent to both.                                   *)
(*                                                                         *)
(* Counting.  The gadget of echo.rs takes messages n at a time, in the     *)
(* order they come, and still every batch has exactly one message of its   *)
(* own party.  Because agents wait for each other, a party that has        *)
(* broadcast k messages has at least k - 1 and at most k + 1 of every      *)
(* other one, so its k-th own message is always among the k-th n messages  *)
(* it queues (Queued), wherever batches were cut so far; and since every   *)
(* message is queued once (Counted), the length of the queue tells how far *)
(* the echo lags behind the agent.                                         *)
(*                                                                         *)
(* Circles.  A batch without a message that somebody waits for holds one   *)
(* of the next round instead.  But whoever broadcast first in that round   *)
(* had all of the round before, and so had its gadget.                     *)
(***************************************************************************)
EXTENDS EchoBroadcast, SequenceTheorems, FiniteSetTheorems, WellFoundedInduction, TLAPS

Addressed ==
    /\ \A i \in Parties : Range(queue[i]) \subseteq MsgsAt(i)
    /\ \A i \in Parties : batch[i] \subseteq MsgsAt(i)
    /\ \A a \in acks : a.hash \subseteq MsgsAt(a.from)
    /\ \A i, j \in Parties : verified[i] \subseteq MsgsAt(j)

EchoInv == TypeOK /\ Addressed

(* Messages sent to a party are messages. *)
LEMMA MsgsAtMessages ==
  ASSUME NEW j \in Parties PROVE MsgsAt(j) \subseteq Messages
  BY DEF Messages

(* What a party broadcasts or receives is addressed to it. *)
LEMMA MsgAddressed ==
  ASSUME NEW s \in Parties, NEW k \in Rounds, NEW j \in Parties
  PROVE  /\ Msg(s, k, j) \in MsgsAt(j)
         /\ Msg(s, k, j) \in Messages
  BY MsgsAtMessages DEF MsgsAt

(* The fields of a message of j. *)
LEMMA MsgFields ==
  ASSUME NEW j \in Parties, NEW m \in MsgsAt(j)
  PROVE  /\ m.sender \in Parties /\ m.round \in Rounds
         /\ m.payload = Payload[m.sender][m.round][j]
  <1>1. PICK s \in Parties, k \in Rounds : m = Msg(s, k, j)
    BY DEF MsgsAt
  <1>2. QED
    BY <1>1 DEF Msg

(* What happens to a party's queue: a message is appended, or a prefix leaves. *)
LEMMA AppendAddressed ==
  ASSUME NEW j \in Parties, NEW q \in Seq(Messages), Range(q) \subseteq MsgsAt(j),
         NEW m \in MsgsAt(j)
  PROVE  Append(q, m) \in Seq(Messages) /\ Range(Append(q, m)) \subseteq MsgsAt(j)
  <1>1. m \in Messages
    BY MsgsAtMessages
  <1>2. Append(q, m) \in Seq(Messages)
    BY <1>1
  <1>3. ASSUME NEW x \in DOMAIN Append(q, m) PROVE Append(q, m)[x] \in MsgsAt(j)
    <2>1. x \in 1 .. Len(q) + 1
      BY <1>1, <1>3
    <2>2. CASE x = Len(q) + 1
      BY <2>2
    <2>3. CASE x # Len(q) + 1
      <3>1. x \in DOMAIN q /\ Append(q, m)[x] = q[x]
        BY <2>1, <2>3
      <3>2. QED
        BY <3>1 DEF Range
    <2>4. QED
      BY <2>2, <2>3
  <1>4. QED
    BY <1>2, <1>3 DEF Range

(* Any part of a queue holds only messages addressed to its party. *)
LEMMA SubSeqAddressed ==
  ASSUME NEW j \in Parties, NEW q \in Seq(Messages), Range(q) \subseteq MsgsAt(j),
         NEW a \in Nat \ {0}, NEW b \in 0 .. Len(q)
  PROVE  SubSeq(q, a, b) \in Seq(Messages) /\ Range(SubSeq(q, a, b)) \subseteq MsgsAt(j)
  <1>1. \A x \in a .. b : q[x] \in MsgsAt(j)
    <2> SUFFICES ASSUME NEW x \in a .. b PROVE q[x] \in MsgsAt(j)
      OBVIOUS
    <2>1. x \in DOMAIN q
      OBVIOUS
    <2>2. QED
      BY <2>1 DEF Range
  <1>2. SubSeq(q, a, b) \in Seq(MsgsAt(j))
    BY <1>1, SubSeqProperties
  <1>3. SubSeq(q, a, b) \in Seq(Messages)
    BY <1>1, MsgsAtMessages, SubSeqProperties
  <1>4. Range(SubSeq(q, a, b)) \subseteq MsgsAt(j)
    BY <1>2 DEF Range
  <1>5. QED
    BY <1>3, <1>4

(* The responses a party gives carry a hash over messages sent to it. *)
LEMMA RespondAddressed ==
  ASSUME NEW i \in Parties, NEW b, b \subseteq MsgsAt(i),
         NEW ok \in {"ok", "refused"}, NEW h, h \subseteq MsgsAt(i)
  PROVE  /\ Respond(i, b, ok, h) \subseteq Acks
         /\ \A a \in Respond(i, b, ok, h) : a.hash \subseteq MsgsAt(a.from)
  <1> SUFFICES ASSUME NEW a \in Respond(i, b, ok, h)
               PROVE  a \in Acks /\ a.hash \subseteq MsgsAt(a.from)
    OBVIOUS
  <1>1. PICK m \in b : a = [to |-> m.sender, round |-> m.round, from |-> i,
                            ok |-> ok, hash |-> h]
    BY DEF Respond
  <1>2. m.sender \in Parties /\ m.round \in Rounds
    BY MsgFields
  <1>3. h \subseteq Messages
    BY MsgsAtMessages
  <1>4. QED
    BY <1>1, <1>2, <1>3 DEF Acks

(* An execution that ends. *)
LEMMA EndInv ==
  ASSUME EchoInv, NEW i \in Parties, NEW how \in Ended, End(i, how) PROVE EchoInv'
  <1>1. TypeOK /\ Addressed
    BY DEF EchoInv
  <1>2. /\ Respond(i, Range(queue[i]), "refused", {}) \subseteq Acks
        /\ \A a \in Respond(i, Range(queue[i]), "refused", {}) : a.hash \subseteq MsgsAt(a.from)
    BY <1>1, RespondAddressed DEF Addressed
  <1>3. <<>> \in Seq(Messages) /\ Range(<<>>) = {}
    BY DEF Range
  <1>4. TypeOK'
    BY <1>1, <1>2, <1>3 DEF TypeOK, End
  <1>5. Addressed'
    BY <1>1, <1>2, <1>3 DEF Addressed, TypeOK, End
  <1>6. QED
    BY <1>4, <1>5 DEF EchoInv

(* The party's own broadcast and the arrival of another party's. *)
LEMMA BroadcastInv ==
  ASSUME EchoInv, NEW i \in Parties, Broadcast(i) PROVE EchoInv'
  <1>1. TypeOK /\ Addressed
    BY DEF EchoInv
  <1>2. CASE End(i, "panicked")
    BY <1>2, EndInv DEF Ended
  <1>3. CASE ~End(i, "panicked")
    <2>1. /\ round' = [round EXCEPT ![i] = @ + 1]
          /\ queue' = [queue EXCEPT ![i] = Append(@, Msg(i, round[i] + 1, i))]
          /\ UNCHANGED <<received, batch, r, acks, verified, status>>
      BY <1>3 DEF Broadcast
    <2>2. round[i] + 1 \in Rounds /\ round[i] + 1 \in 0 .. R
      BY <1>1, RAssumption DEF Broadcast, TypeOK, Rounds
    <2>3. /\ queue'[i] \in Seq(Messages)
          /\ Range(queue'[i]) \subseteq MsgsAt(i)
      <3>1. Msg(i, round[i] + 1, i) \in MsgsAt(i)
        BY <2>2, MsgAddressed
      <3>2. queue'[i] = Append(queue[i], Msg(i, round[i] + 1, i))
        BY <1>1, <2>1 DEF TypeOK
      <3>3. QED
        BY <1>1, <3>1, <3>2, AppendAddressed DEF TypeOK, Addressed
    <2>4. TypeOK'
      BY <1>1, <2>1, <2>2, <2>3 DEF TypeOK
    <2>5. Addressed'
      BY <1>1, <2>1, <2>3 DEF Addressed, TypeOK
    <2>6. QED
      BY <2>4, <2>5 DEF EchoInv
  <1>4. QED
    BY <1>2, <1>3

(* An incoming broadcast enters the queue of its addressee. *)
LEMMA DeliverInv ==
  ASSUME EchoInv, NEW i \in Parties, NEW s \in Parties, NEW k \in Rounds,
         Deliver(i, s, k)
  PROVE  EchoInv'
  <1>1. TypeOK /\ Addressed
    BY DEF EchoInv
  <1>2. CASE End(i, "panicked")
    BY <1>2, EndInv DEF Ended
  <1>3. CASE ~End(i, "panicked")
    <2>1. /\ received' = [received EXCEPT ![i] = @ \cup {<<s, k>>}]
          /\ queue' = [queue EXCEPT ![i] = Append(@, Msg(s, k, i))]
          /\ UNCHANGED <<round, batch, r, acks, verified, status>>
      BY <1>3 DEF Deliver
    <2>2. /\ queue'[i] \in Seq(Messages)
          /\ Range(queue'[i]) \subseteq MsgsAt(i)
      <3>1. Msg(s, k, i) \in MsgsAt(i)
        BY MsgAddressed
      <3>2. queue'[i] = Append(queue[i], Msg(s, k, i))
        BY <1>1, <2>1 DEF TypeOK
      <3>3. QED
        BY <1>1, <3>1, <3>2, AppendAddressed DEF TypeOK, Addressed
    <2>3. TypeOK'
      BY <1>1, <2>1, <2>2 DEF TypeOK
    <2>4. Addressed'
      BY <1>1, <2>1, <2>2 DEF Addressed, TypeOK
    <2>5. QED
      BY <2>3, <2>4 DEF EchoInv
  <1>4. QED
    BY <1>2, <1>3

(* A response that is no echo: late delivery or a failed request. *)
LEMMA OtherResponseInv ==
  ASSUME EchoInv, NEW i \in Parties, NEW s \in Parties, NEW k \in Rounds,
         NEW ok \in {"ok", "refused"},
         DeliverLate(i, s, k, ok) \/ RequestFails(i, s, k)
  PROVE  EchoInv'
  <1>1. TypeOK /\ Addressed
    BY DEF EchoInv
  <1>2. PICK o \in {"ok", "refused"} :
          acks' = acks \cup {[to |-> s, round |-> k, from |-> i, ok |-> o, hash |-> {}]}
    BY DEF DeliverLate, RequestFails
  <1>3. UNCHANGED <<round, received, queue, batch, r, verified, status>>
    BY DEF DeliverLate, RequestFails
  <1>4. TypeOK'
    BY <1>1, <1>2, <1>3 DEF TypeOK, Acks
  <1>5. Addressed'
    BY <1>1, <1>2, <1>3 DEF Addressed
  <1>6. QED
    BY <1>4, <1>5 DEF EchoInv

(* The batch that is hashed and acknowledged. *)
LEMMA CollectInv ==
  ASSUME EchoInv, NEW i \in Parties, Collect(i) PROVE EchoInv'
  <1> DEFINE b == Range(SubSeq(queue[i], 1, N))
             rest == SubSeq(queue[i], N + 1, Len(queue[i]))
  <1>1. TypeOK /\ Addressed
    BY DEF EchoInv
  <1>2. CASE End(i, "panicked")
    BY <1>2, EndInv DEF Ended
  <1>3. CASE ~End(i, "panicked")
    <2>1. /\ batch' = [batch EXCEPT ![i] = b]
          /\ queue' = [queue EXCEPT ![i] = SubSeq(@, N + 1, Len(@))]
          /\ acks' = acks \cup Respond(i, b, "ok", b)
          /\ UNCHANGED <<round, received, r, verified, status>>
      BY <1>3 DEF Collect
    <2>2. queue[i] \in Seq(Messages) /\ Range(queue[i]) \subseteq MsgsAt(i)
      BY <1>1 DEF TypeOK, Addressed
    <2>3. N \in 0 .. Len(queue[i]) /\ Len(queue[i]) \in 0 .. Len(queue[i])
      BY <2>2, NAssumption DEF Collect, BatchFull
    <2>4. b \subseteq MsgsAt(i)
      BY <2>2, <2>3, SubSeqAddressed
    <2>5. rest \in Seq(Messages) /\ Range(rest) \subseteq MsgsAt(i)
      BY <2>2, <2>3, NAssumption, SubSeqAddressed
    <2>6. /\ Respond(i, b, "ok", b) \subseteq Acks
          /\ \A a \in Respond(i, b, "ok", b) : a.hash \subseteq MsgsAt(a.from)
      BY <2>4, RespondAddressed
    <2>7. b \subseteq Messages
      BY <2>4, MsgsAtMessages
    <2> HIDE DEF b
    <2>8. TypeOK'
      BY <1>1, <2>1, <2>5, <2>6, <2>7 DEF TypeOK
    <2>9. Addressed'
      BY <1>1, <2>1, <2>4, <2>5, <2>6 DEF Addressed, TypeOK
    <2>10. QED
      BY <2>8, <2>9 DEF EchoInv
  <1>4. QED
    BY <1>2, <1>3

(* The heart of the argument: n - 1 hashes equal to the own one, each over  *)
(* messages sent to its responder.                                          *)
LEMMA VerifyInv ==
  ASSUME EchoInv, NEW i \in Parties, Verify(i) PROVE EchoInv'
  <1>1. TypeOK /\ Addressed
    BY DEF EchoInv
  <1>2. PICK m \in OwnIn(i, batch[i]) :
          /\ \A j \in Parties \ {i} : Answered(i, m.round, j)
          /\ \/ /\ \A a \in Responses(m) : a.ok = "ok" /\ a.hash = batch[i]
                /\ r' = [r EXCEPT ![i] = @ + 1]
                /\ verified' = [verified EXCEPT ![i] = @ \cup batch[i]]
                /\ batch' = [batch EXCEPT ![i] = {}]
                /\ UNCHANGED <<round, received, queue, acks, status>>
             \/ End(i, "inconsistent")
             \/ End(i, "echo_failed")
    BY DEF Verify
  <1>3. CASE End(i, "inconsistent") \/ End(i, "echo_failed")
    BY <1>3, EndInv DEF Ended
  <1>4. CASE ~(End(i, "inconsistent") \/ End(i, "echo_failed"))
    <2>1. /\ \A a \in Responses(m) : a.ok = "ok" /\ a.hash = batch[i]
          /\ r' = [r EXCEPT ![i] = @ + 1]
          /\ verified' = [verified EXCEPT ![i] = @ \cup batch[i]]
          /\ batch' = [batch EXCEPT ![i] = {}]
          /\ UNCHANGED <<round, received, queue, acks, status>>
      BY <1>2, <1>4
    <2>2. ASSUME NEW j \in Parties PROVE batch[i] \subseteq MsgsAt(j)
      <3>1. CASE j = i
        BY <1>1, <3>1 DEF Addressed
      <3>2. CASE j # i
        <4>1. PICK a \in acks : a.to = i /\ a.round = m.round /\ a.from = j
          BY <1>2, <3>2 DEF Answered
        <4>2. m.sender = i
          BY DEF OwnIn
        <4>3. a.hash = batch[i]
          BY <2>1, <4>1, <4>2 DEF Responses
        <4>4. QED
          BY <1>1, <4>1, <4>3 DEF Addressed
      <3>3. QED
        BY <3>1, <3>2
    <2>3. TypeOK'
      BY <1>1, <2>1 DEF TypeOK
    <2>4. Addressed'
      BY <1>1, <2>1, <2>2 DEF Addressed, TypeOK
    <2>5. QED
      BY <2>3, <2>4 DEF EchoInv
  <1>5. QED
    BY <1>3, <1>4

-----------------------------------------------------------------------------
(* The invariant behind EchoSound holds in every reachable state. *)
THEOREM EchoInvInductive == Spec => []EchoInv
  <1>1. Init => EchoInv
    <2> SUFFICES ASSUME Init PROVE EchoInv
      OBVIOUS
    <2>1. <<>> \in Seq(Messages) /\ Range(<<>>) = {}
      BY DEF Range
    <2>2. TypeOK
      BY <2>1, RAssumption DEF Init, TypeOK
    <2>3. Addressed
      BY <2>1 DEF Init, Addressed
    <2>4. QED
      BY <2>2, <2>3 DEF EchoInv
  <1>2. EchoInv /\ [Next]_vars => EchoInv'
    <2> SUFFICES ASSUME EchoInv, [Next]_vars PROVE EchoInv'
      OBVIOUS
    <2>1. CASE UNCHANGED vars \/ Terminated
      BY <2>1 DEF vars, Terminated, EchoInv, TypeOK, Addressed
    <2>2. ASSUME NEW i \in Parties, Broadcast(i) \/ Collect(i) \/ Verify(i)
          PROVE  EchoInv'
      BY <2>2, BroadcastInv, CollectInv, VerifyInv
    <2>3. ASSUME NEW i \in Parties, Finish(i) PROVE EchoInv'
      BY <2>3, EndInv DEF Finish, Ended
    <2>4. ASSUME NEW i \in Parties, NEW s \in Parties, NEW k \in Rounds,
                 \/ Deliver(i, s, k) \/ RequestFails(i, s, k)
                 \/ \E ok \in {"ok", "refused"} : DeliverLate(i, s, k, ok)
          PROVE  EchoInv'
      BY <2>4, DeliverInv, OtherResponseInv
    <2>5. QED
      BY <2>1, <2>2, <2>3, <2>4 DEF Next
  <1>3. QED
    BY <1>1, <1>2, PTL DEF Spec

(* The variables of the echo layer keep their types. *)
THEOREM EchoTypeCorrect == Spec => []TypeOK
  <1>1. EchoInv => TypeOK
    BY DEF EchoInv
  <1>2. QED
    BY <1>1, EchoInvInductive, PTL

(* An echo round that succeeds proves that its messages went to all alike. *)
THEOREM EchoSoundCorrect == Spec => []EchoSound
  <1>1. EchoInv => EchoSound
    <2> SUFFICES ASSUME EchoInv, NEW i \in Parties, NEW j \in Parties,
                        NEW m \in verified[i]
                 PROVE  Payload[m.sender][m.round][j] = m.payload
      BY DEF EchoSound
    <2>1. m \in MsgsAt(j)
      BY DEF EchoInv, Addressed
    <2>2. QED
      BY <2>1, MsgFields
  <1>2. QED
    BY <1>1, EchoInvInductive, PTL

-----------------------------------------------------------------------------
(* Counting: agents, their queues and batches. *)

(* Those a party waits for. *)
Others(i) == Parties \ {i}

(* Batches that are hashed, the one in progress included. *)
Batches(i) == r[i] + (IF batch[i] = {} THEN 0 ELSE 1)

(* What an agent has is of rounds their senders are in, and it has all of   *)
(* the rounds before its own.                                               *)
Received(i) ==
    /\ \A s \in Parties, k \in Rounds : <<s, k>> \in received[i] => s # i /\ k <= round[s]
    /\ \A k \in Rounds : k < round[i] => HasRound(i, k)
    /\ status[i] = "done" => round[i] = R /\ HasRound(i, R)

(* Of all that was ever queued, the own message of round k is one of the    *)
(* k-th n messages.                                                         *)
Queued(i) ==
    /\ IsInjective(queue[i])
    /\ \A x \in DOMAIN queue[i] : LET m == queue[i][x] IN
          /\ m.sender # i => <<m.sender, m.round>> \in received[i]
          /\ m.sender = i => /\ m.round <= round[i]
                             /\ N * (m.round - 1) < N * Batches(i) + x
                             /\ N * Batches(i) + x <= N * m.round
    /\ \A k \in Rounds : Batches(i) < k /\ k <= round[i] =>
          \E x \in DOMAIN queue[i] : queue[i][x] = Msg(i, k, i)

(* Every message an agent sent or has was queued once. *)
Counted(i) == N * Batches(i) + Len(queue[i]) = round[i] + Cardinality(received[i])

(* What the channel and the heap hold. *)
Bounded(i) == Len(queue[i]) <= IF batch[i] = {} THEN N + 3 ELSE N + 1

(* The own message of the echo round, and N - 1 others. *)
Whole(i) ==
    batch[i] # {} => /\ Cardinality(batch[i]) = N
                     /\ OwnIn(i, batch[i]) = {Msg(i, r[i] + 1, i)}

(* The state of one party.  An execution that has ended has dropped its     *)
(* queue, and no more is said of it than what its agent had.                *)
Sound(i) ==
    /\ Received(i) /\ Whole(i)
    /\ Running(i) => Queued(i) /\ Counted(i) /\ Bounded(i)
    /\ ~Running(i) => batch[i] = {}

(* The inductive invariant, together with EchoInv. *)
RoundsInv == \A i \in Parties : Sound(i)

-----------------------------------------------------------------------------
(* Counting. *)

(* Multiples of the number of parties. *)
LEMMA Multiples ==
  ASSUME NEW a \in Int, NEW b \in Int
  PROVE  /\ N * a \in Int /\ (N - 1) * a \in Int
         /\ N * (a + 1) = N * a + N /\ (N - 1) * a = N * a - a
         /\ a < b => N * a + N <= N * b
  <1>1. N \in Nat /\ N >= 2
    BY NAssumption
  <1>2. N * (a + 1) = N * a + N /\ (N - 1) * a = N * a - a
    BY <1>1
  <1>3. ASSUME a < b PROVE N * a + N <= N * b
    <2>1. b - a - 1 \in Nat
      BY <1>3
    <2>2. N * (b - a - 1) >= 0
      BY <1>1, <2>1
    <2>3. N * (b - a - 1) = N * b - (N * a + N)
      BY <1>1
    <2>4. N * a \in Int /\ N * b \in Int
      BY <1>1
    <2> QED
      BY <1>1, <2>2, <2>3, <2>4
  <1> QED
    BY <1>1, <1>2, <1>3

(* The others, and their messages of the first n rounds. *)
LEMMA OthersCount ==
  ASSUME NEW i \in Parties, NEW n \in Nat
  PROVE  /\ IsFiniteSet(Others(i) \X (1 .. n))
         /\ Cardinality(Others(i) \X (1 .. n)) = N * n - n
  <1>1. IsFiniteSet(Parties) /\ Cardinality(Parties) = N
    BY NAssumption, FS_Interval DEF Parties
  <1>2. IsFiniteSet(Others(i)) /\ Cardinality(Others(i)) = N - 1
    BY <1>1, FS_RemoveElement DEF Others
  <1>3. IsFiniteSet(1 .. n) /\ Cardinality(1 .. n) = n
    <2>1. 1 \in Int /\ n \in Int
      OBVIOUS
    <2>2. IsFiniteSet(1 .. n) /\ Cardinality(1 .. n) = IF 1 > n THEN 0 ELSE n - 1 + 1
      BY <2>1, FS_Interval
    <2> QED
      BY <2>2
  <1>4. /\ IsFiniteSet(Others(i) \X (1 .. n))
        /\ Cardinality(Others(i) \X (1 .. n)) = Cardinality(Others(i)) * Cardinality(1 .. n)
    BY <1>2, <1>3, FS_Product
  <1> QED
    BY <1>2, <1>3, <1>4, Multiples

(* Nobody is more than a round ahead. *)
LEMMA RoundLag ==
  ASSUME TypeOK, RoundsInv, NEW i \in Parties, NEW s \in Parties
  PROVE  round[s] <= round[i] + 1
  <1>1. round[s] \in 0 .. R /\ round[i] \in 0 .. R /\ R \in Nat /\ Rounds = 1 .. R
    BY RAssumption DEF TypeOK, Rounds
  <1>2. CASE s = i \/ round[s] <= 1
    BY <1>1, <1>2
  <1>3. CASE s # i /\ round[s] > 1
    <2>1. round[s] - 1 \in Rounds /\ round[s] - 1 < round[s]
      BY <1>1, <1>3
    <2>2. HasRound(s, round[s] - 1)
      BY <2>1 DEF RoundsInv, Sound, Received
    <2>3. <<i, round[s] - 1>> \in received[s]
      BY <1>3, <2>2 DEF HasRound
    <2>4. round[s] - 1 <= round[i]
      BY <2>1, <2>3 DEF RoundsInv, Sound, Received
    <2> QED
      BY <1>1, <2>4
  <1> QED
    BY <1>1, <1>2, <1>3

(* How many messages an agent has, by the round it is in. *)
LEMMA ReceivedCount ==
  ASSUME TypeOK, RoundsInv, NEW i \in Parties, NEW k, k = round[i],
         NEW c, c = Cardinality(received[i])
  PROVE  /\ IsFiniteSet(received[i]) /\ c \in Nat /\ k \in Nat
         /\ k >= 1 => N * (k - 1) + 1 <= k + c
         /\ (k >= 1 => HasRound(i, k)) => N * k <= k + c
         /\ k + c < N * k + N
  <1>1. /\ k \in 0 .. R /\ R \in Nat /\ Rounds = 1 .. R /\ Received(i)
        /\ received[i] \subseteq Parties \X Rounds /\ N \in Nat
    BY RAssumption, NAssumption DEF TypeOK, Rounds, RoundsInv, Sound
  <1>2. received[i] \subseteq Others(i) \X (1 .. k + 1)
    <2> SUFFICES ASSUME NEW s \in Parties, NEW l \in Rounds, <<s, l>> \in received[i]
                 PROVE  s \in Others(i) /\ l \in 1 .. k + 1
      BY <1>1
    <2>1. s # i /\ l <= round[s] /\ round[s] <= k + 1 /\ round[s] \in Nat
      BY <1>1, RoundLag DEF Received, TypeOK
    <2> QED
      BY <1>1, <2>1 DEF Others
  <1>3. /\ IsFiniteSet(received[i]) /\ c \in Nat /\ c <= N * (k + 1) - (k + 1)
    <2>1. k + 1 \in Nat
      BY <1>1
    <2>2. /\ IsFiniteSet(Others(i) \X (1 .. k + 1))
          /\ Cardinality(Others(i) \X (1 .. k + 1)) = N * (k + 1) - (k + 1)
      BY <2>1, OthersCount
    <2>3. IsFiniteSet(received[i]) /\ c <= N * (k + 1) - (k + 1)
      BY <1>2, <2>2, FS_Subset
    <2> QED
      BY <2>3, FS_CardinalityType
  <1>4. ASSUME NEW n \in 0 .. R, \A l \in 1 .. n : HasRound(i, l)
        PROVE  N * n - n <= c
    <2>1. n \in Nat /\ 1 .. n \subseteq Rounds
      BY <1>1
    <2>2. Others(i) \X (1 .. n) \subseteq received[i]
      BY <1>4 DEF HasRound, Others
    <2>3. Cardinality(Others(i) \X (1 .. n)) = N * n - n
      BY <2>1, OthersCount
    <2> QED
      BY <1>3, <2>2, <2>3, FS_Subset
  <1>5. N * k \in Int /\ N * (k + 1) = N * k + N /\ N * (k - 1) \in Int
    BY <1>1, Multiples
  <1>6. k >= 1 => N * (k - 1) + 1 <= k + c
    <2> SUFFICES ASSUME k >= 1 PROVE N * (k - 1) + 1 <= k + c
      OBVIOUS
    <2>1. k - 1 \in 0 .. R /\ \A l \in 1 .. k - 1 : l \in Rounds /\ l < k
      BY <1>1
    <2>2. N * (k - 1) - (k - 1) <= c
      BY <2>1, <1>1, <1>4 DEF Received
    <2>3. PICK y : y = N * (k - 1)
      OBVIOUS
    <2>4. y \in Int /\ k \in Int /\ c \in Int /\ y - (k - 1) <= c
      BY <2>2, <2>3, <1>1, <1>3, <1>5
    <2>5. y + 1 <= k + c
      BY <2>4
    <2> QED
      BY <2>3, <2>5
  <1>7. (k >= 1 => HasRound(i, k)) => N * k <= k + c
    <2> SUFFICES ASSUME k >= 1 => HasRound(i, k) PROVE N * k <= k + c
      OBVIOUS
    <2>1. \A l \in 1 .. k : l \in Rounds /\ (l < k \/ l = k)
      BY <1>1
    <2>2. \A l \in 1 .. k : HasRound(i, l)
      BY <2>1, <1>1 DEF Received
    <2>3. N * k - k <= c
      BY <2>2, <1>1, <1>4
    <2> QED
      BY <2>3, <1>1, <1>3, <1>5
  <1>8. k + c < N * k + N
    <2>1. PICK y, z : y = N * k /\ z = N * (k + 1)
      OBVIOUS
    <2>2. /\ y \in Int /\ k \in Int /\ c \in Int /\ N \in Int
          /\ z = y + N /\ c <= z - (k + 1)
      BY <2>1, <1>1, <1>3, <1>5
    <2>3. k + c < y + N
      BY <2>2
    <2> QED
      BY <2>1, <2>3
  <1> QED
    BY <1>1, <1>3, <1>6, <1>7, <1>8

-----------------------------------------------------------------------------
(* Queues. *)

(* A message of a party is the one of its sender's round. *)
LEMMA MsgIs ==
  ASSUME NEW j \in Parties
  PROVE  /\ \A m \in MsgsAt(j) : m = Msg(m.sender, m.round, j)
         /\ \A s \in Parties, k \in Rounds : Msg(s, k, j).sender = s /\ Msg(s, k, j).round = k
  BY DEF MsgsAt, Msg

(* A new message at the end of a queue. *)
LEMMA AppendFacts ==
  ASSUME NEW q \in Seq(Messages), NEW m \in Messages, NEW l, l = Len(q)
  PROVE  /\ l \in Nat /\ DOMAIN q = 1 .. l
         /\ Append(q, m) \in Seq(Messages) /\ Len(Append(q, m)) = l + 1
         /\ DOMAIN Append(q, m) = 1 .. l + 1
         /\ \A x \in 1 .. l : x \in 1 .. l + 1 /\ Append(q, m)[x] = q[x]
         /\ l + 1 \in 1 .. l + 1 /\ Append(q, m)[l + 1] = m
         /\ \A x \in 1 .. l + 1 : x \in 1 .. l \/ x = l + 1
         /\ IsInjective(q) /\ m \notin Range(q) => IsInjective(Append(q, m))
  <1>1. l \in Nat /\ DOMAIN q = 1 .. l
    OBVIOUS
  <1>2. PICK p : p = Append(q, m)
    OBVIOUS
  <1>3. /\ p \in Seq(Messages) /\ Len(p) = l + 1 /\ DOMAIN p = 1 .. l + 1
        /\ \A x \in 1 .. l : p[x] = q[x]
        /\ p[l + 1] = m
    BY <1>2
  <1>4. \A x \in 1 .. l + 1 : x \in 1 .. l \/ x = l + 1
    BY <1>1
  <1>5. l + 1 \in 1 .. l + 1 /\ \A x \in 1 .. l : x \in 1 .. l + 1
    BY <1>1
  <1>6. ASSUME IsInjective(q), m \notin Range(q) PROVE IsInjective(p)
    <2>1. \A x \in 1 .. l : q[x] # m
      BY <1>1, <1>6 DEF Range
    <2> QED
      BY <1>1, <1>3, <1>4, <1>6, <2>1 DEF IsInjective
  <1> QED
    BY <1>1, <1>2, <1>3, <1>4, <1>5, <1>6

(* The first n messages of a queue, and the rest. *)
LEMMA CutFacts ==
  ASSUME NEW q \in Seq(Messages), IsInjective(q), NEW l, l = Len(q), l >= N,
         NEW h, h = Range(SubSeq(q, 1, N)), NEW t, t = SubSeq(q, N + 1, l)
  PROVE  /\ h = {q[x] : x \in 1 .. N} /\ Cardinality(h) = N /\ h # {}
         /\ 1 .. N \subseteq DOMAIN q /\ l \in Nat /\ DOMAIN q = 1 .. l
         /\ t \in Seq(Messages) /\ Len(t) = l - N /\ DOMAIN t = 1 .. l - N
         /\ IsInjective(t)
  <1>1. /\ l \in Nat /\ DOMAIN q = 1 .. l /\ \A x \in 1 .. l : q[x] \in Messages
        /\ N \in Nat /\ N >= 2 /\ 1 .. N \subseteq 1 .. l
    BY NAssumption
  <1>2. PICK p : p = SubSeq(q, 1, N)
    OBVIOUS
  <1>3. DOMAIN p = 1 .. N /\ \A x \in 1 .. N : p[x] = q[x]
    <2>1. 1 \in Int /\ N \in Int /\ \A x \in 1 .. N : q[x] \in Messages
      BY <1>1
    <2>2. /\ p \in Seq(Messages) /\ Len(p) = IF 1 <= N THEN N - 1 + 1 ELSE 0
          /\ \A x \in 1 .. N - 1 + 1 : p[x] = q[1 + x - 1]
      BY <1>2, <2>1, SubSeqProperties
    <2>3. N - 1 + 1 = N /\ \A x \in 1 .. N : 1 + x - 1 = x
      BY <1>1
    <2>4. Len(p) = N
      BY <1>1, <2>2
    <2> QED
      BY <2>2, <2>3, <2>4
  <1>4. h = {q[x] : x \in 1 .. N}
    BY <1>2, <1>3 DEF Range
  <1>5. Cardinality(h) = N
    <2> DEFINE f == [x \in 1 .. N |-> q[x]]
    <2>1. f \in Bijection(1 .. N, h)
      BY <1>1, <1>4 DEF Bijection, Injection, Surjection, IsInjective
    <2>2. IsFiniteSet(1 .. N) /\ Cardinality(1 .. N) = N
      BY <1>1, FS_Interval
    <2>3. ExistsBijection(1 .. N, h)
      BY <2>1 DEF ExistsBijection
    <2> QED
      BY <2>2, <2>3, FS_Bijection
  <1>6. q[1] \in h
    BY <1>1, <1>4
  <1>7. t \in Seq(Messages) /\ Len(t) = l - N /\ \A x \in 1 .. l - N : t[x] = q[N + x]
    <2>1. N + 1 \in Int /\ l \in Int /\ \A x \in N + 1 .. l : q[x] \in Messages
      BY <1>1
    <2>2. /\ t \in Seq(Messages) /\ Len(t) = IF N + 1 <= l THEN l - (N + 1) + 1 ELSE 0
          /\ \A x \in 1 .. l - (N + 1) + 1 : t[x] = q[(N + 1) + x - 1]
      BY <2>1, SubSeqProperties
    <2>3. l - (N + 1) + 1 = l - N /\ \A x \in 1 .. l - N : (N + 1) + x - 1 = N + x
      BY <1>1
    <2>4. Len(t) = l - N
      BY <1>1, <2>2
    <2> QED
      BY <2>2, <2>3, <2>4
  <1>8. DOMAIN t = 1 .. l - N /\ \A x \in 1 .. l - N : N + x \in 1 .. l
    BY <1>1, <1>7
  <1>9. IsInjective(t)
    <2> SUFFICES ASSUME NEW x \in 1 .. l - N, NEW y \in 1 .. l - N, t[x] = t[y] PROVE x = y
      BY <1>8, ZenonT(60) DEF IsInjective
    <2>1. q[N + x] = q[N + y] /\ N + x \in DOMAIN q /\ N + y \in DOMAIN q
      BY <1>1, <1>7, <1>8
    <2>2. N + x = N + y
      BY <2>1 DEF IsInjective
    <2> QED
      BY <1>1, <2>2
  <1> QED
    BY <1>1, <1>4, <1>5, <1>6, <1>7, <1>8, <1>9

(* Where the rest comes from. *)
LEMMA CutRest ==
  ASSUME NEW q \in Seq(Messages), NEW l, l = Len(q), l >= N, NEW t, t = SubSeq(q, N + 1, l)
  PROVE  \A x \in 1 .. l - N : t[x] = q[N + x] /\ N + x \in DOMAIN q
  <1>1. /\ l \in Nat /\ DOMAIN q = 1 .. l /\ \A x \in 1 .. l : q[x] \in Messages
        /\ N \in Nat
    BY NAssumption
  <1>2. N + 1 \in Int /\ l \in Int /\ \A y \in N + 1 .. l : q[y] \in Messages
    BY <1>1
  <1>3. \A y \in 1 .. l - (N + 1) + 1 : t[y] = q[(N + 1) + y - 1]
    BY <1>2, SubSeqProperties
  <1>4. \A x \in 1 .. l - N : x \in 1 .. l - (N + 1) + 1 /\ (N + 1) + x - 1 = N + x /\ N + x \in 1 .. l
    BY <1>1
  <1> QED
    BY <1>1, <1>3, <1>4

-----------------------------------------------------------------------------
(* One lemma per action. *)

(* A party whose state is as it was, when others may have gone on. *)
LEMMA SoundKept ==
  ASSUME TypeOK, TypeOK', NEW j \in Parties, Sound(j),
         \A s \in Parties : round'[s] >= round[s],
         round'[j] = round[j], received'[j] = received[j], queue'[j] = queue[j],
         batch'[j] = batch[j], r'[j] = r[j], status'[j] = status[j]
  PROVE  Sound(j)'
  <1>1. Received(j)'
    <2>1. ASSUME NEW s \in Parties, NEW k \in Rounds, <<s, k>> \in received'[j]
          PROVE  s # j /\ k <= round'[s]
      <3>1. s # j /\ k <= round[s] /\ round[s] <= round'[s]
        BY <2>1 DEF Sound, Received
      <3>2. k \in Int /\ round[s] \in Int /\ round'[s] \in Int
        BY RAssumption DEF TypeOK, Rounds
      <3> QED
        BY <3>1, <3>2
    <2>2. \A k : HasRound(j, k)' = HasRound(j, k)
      BY DEF HasRound
    <2> QED
      BY <2>1, <2>2 DEF Sound, Received, HasRound
  <1>2. Running(j)' = Running(j) /\ Batches(j)' = Batches(j)
    BY DEF Running, Batches
  <1>3. Queued(j) => Queued(j)'
    BY <1>2 DEF Queued
  <1>4. (Counted(j) => Counted(j)') /\ (Bounded(j) => Bounded(j)') /\ (Whole(j) => Whole(j)')
    BY <1>2 DEF Counted, Bounded, Whole, OwnIn
  <1> QED
    BY <1>1, <1>2, <1>3, <1>4 DEF Sound

(* An execution ends; with a result only when it has the last round. *)
LEMMA EndSound ==
  ASSUME TypeOK, TypeOK', RoundsInv, NEW i \in Parties, NEW how \in Ended, End(i, how),
         how = "done" => round[i] = R /\ HasRound(i, R)
  PROVE  RoundsInv'
  <1>1. /\ status' = [status EXCEPT ![i] = how]
        /\ queue' = [queue EXCEPT ![i] = <<>>] /\ batch' = [batch EXCEPT ![i] = {}]
        /\ UNCHANGED <<round, received, r, verified>>
    BY DEF End
  <1>2. \A s \in Parties : round'[s] >= round[s]
    BY <1>1 DEF TypeOK
  <1>3. ASSUME NEW j \in Parties, j # i PROVE Sound(j)'
    BY <1>1, <1>2, <1>3, SoundKept DEF RoundsInv, TypeOK
  <1>4. Sound(i)'
    <2>1. Received(i) /\ status'[i] = how /\ batch'[i] = {}
      BY <1>1 DEF RoundsInv, Sound, TypeOK
    <2>2. ~Running(i)'
      BY <2>1 DEF Running, Ended
    <2>3. Received(i)'
      BY <1>1, <2>1 DEF Received, HasRound
    <2> QED
      BY <2>1, <2>2, <2>3 DEF Sound, Whole
  <1> QED
    BY <1>3, <1>4 DEF RoundsInv

(* The own message of the next round joins the others of its n messages. *)
LEMMA BroadcastSound ==
  ASSUME EchoInv, EchoInv', RoundsInv, NEW i \in Parties, Broadcast(i) PROVE RoundsInv'
  <1>1. TypeOK /\ TypeOK' /\ Addressed /\ Running(i) /\ Sound(i)
    BY DEF EchoInv, Broadcast, RoundsInv
  <1>2. CASE End(i, "panicked")
    BY <1>1, <1>2, EndSound DEF Ended
  <1>3. CASE ~End(i, "panicked")
    <2>1. PICK k, q : k = round[i] + 1 /\ q = queue[i]
      OBVIOUS
    <2>2. PICK m, l, b, c : /\ m = Msg(i, k, i) /\ l = Len(q) /\ b = Batches(i)
                            /\ c = Cardinality(received[i])
      OBVIOUS
    <2>3. /\ EchoChannelTakes(i) /\ round[i] < R /\ (round[i] > 0 => HasRound(i, round[i]))
          /\ round' = [round EXCEPT ![i] = k]
          /\ queue' = [queue EXCEPT ![i] = Append(q, m)]
          /\ UNCHANGED <<received, batch, r, acks, verified, status>>
      BY <1>1, <1>3, <2>1, <2>2 DEF Broadcast, TypeOK
    <2>4. /\ round[i] \in Nat /\ k \in Rounds /\ k \in Nat /\ Rounds = 1 .. R /\ N \in Nat
          /\ q \in Seq(Messages) /\ Range(q) \subseteq MsgsAt(i)
          /\ b \in Nat /\ r[i] \in Nat
      BY <1>1, <2>1, <2>2, <2>3, RAssumption, NAssumption
         DEF TypeOK, Addressed, Rounds, Batches
    <2>5. /\ m \in Messages /\ m.sender = i /\ m.round = k
          /\ \A s \in Parties, x \in Rounds : Msg(s, x, i).sender = s /\ Msg(s, x, i).round = x
      BY <2>2, <2>4, MsgIs, MsgAddressed
    <2>6. /\ round'[i] = k /\ queue'[i] = Append(q, m) /\ batch'[i] = batch[i] /\ r'[i] = r[i]
          /\ received'[i] = received[i] /\ status'[i] = status[i]
          /\ \A s \in Parties \ {i} : round'[s] = round[s] /\ queue'[s] = queue[s]
          /\ Batches(i)' = b /\ Running(i)'
      BY <1>1, <2>2, <2>3 DEF TypeOK, Batches, Running
    <2>7. /\ l \in Nat /\ DOMAIN q = 1 .. l /\ Len(Append(q, m)) = l + 1
          /\ DOMAIN Append(q, m) = 1 .. l + 1
          /\ \A x \in 1 .. l : x \in 1 .. l + 1 /\ Append(q, m)[x] = q[x]
          /\ l + 1 \in 1 .. l + 1 /\ Append(q, m)[l + 1] = m
          /\ \A x \in 1 .. l + 1 : x \in 1 .. l \/ x = l + 1
          /\ IsInjective(q) /\ m \notin Range(q) => IsInjective(Append(q, m))
      BY <2>2, <2>4, <2>5, AppendFacts
    <2>8. Queued(i) /\ Counted(i) /\ Bounded(i) /\ Received(i) /\ Whole(i)
      BY <1>1 DEF Sound
    <2>9. \A x \in 1 .. l :
             /\ q[x] \in MsgsAt(i) /\ q[x].round \in Rounds
             /\ q[x].sender # i => <<q[x].sender, q[x].round>> \in received[i]
             /\ q[x].sender = i => /\ q[x].round <= round[i]
                                   /\ N * (q[x].round - 1) < N * b + x
                                   /\ N * b + x <= N * q[x].round
      <3>1. \A x \in 1 .. l : q[x] \in Range(q)
        BY <2>7 DEF Range
      <3>2. \A x \in 1 .. l : q[x] \in MsgsAt(i) /\ q[x].round \in Rounds
        BY <2>4, <3>1, MsgFields
      <3> QED
        BY <2>1, <2>2, <2>7, <2>8, <3>2 DEF Queued
    <2>10. N * b + l = round[i] + c /\ c \in Nat /\ N * b \in Int
      <3>1. N * b + l = round[i] + c
        BY <2>1, <2>2, <2>8 DEF Counted
      <3>2. c \in Nat
        BY <1>1, <2>2, ReceivedCount
      <3>3. N * b \in Int
        BY <2>4
      <3> QED
        BY <3>1, <3>2, <3>3
    (* The message counts among those of its round. *)
    <2>11. N * (k - 1) < N * b + (l + 1) /\ N * b + (l + 1) <= N * k
      <3>1. round[i] >= 1 => HasRound(i, round[i])
        BY <2>3, <2>4
      <3>2. N * round[i] <= round[i] + c /\ round[i] + c < N * round[i] + N
        BY <1>1, <2>2, <3>1, ReceivedCount
      <3>3. k - 1 = round[i] /\ N * k = N * round[i] + N /\ N * round[i] \in Int
        <4>1. k - 1 = round[i] /\ k = round[i] + 1 /\ round[i] \in Int /\ N \in Int
          BY <2>1, <2>4
        <4> QED
          BY <4>1, Multiples
      <3>4. N * (k - 1) = N * round[i]
        BY <3>3
      <3>5. PICK y, z : y = N * round[i] /\ z = N * b
        OBVIOUS
      <3>6. /\ y \in Int /\ z \in Int /\ l \in Nat /\ N \in Nat
            /\ z + l = round[i] + c /\ y <= round[i] + c /\ round[i] + c < y + N
            /\ round[i] \in Nat /\ c \in Nat
        BY <2>4, <2>7, <2>10, <3>2, <3>3, <3>5
      <3>7. y < z + (l + 1) /\ z + (l + 1) <= y + N
        BY <3>6
      <3> QED
        BY <3>3, <3>4, <3>5, <3>7
    <2>12. Received(i)'
      <3>1. \A x \in Rounds : x < k => x < round[i] \/ (x = round[i] /\ round[i] > 0)
        BY <2>1, <2>4
      <3>2. \A x : HasRound(i, x)' = HasRound(i, x)
        BY <2>6 DEF HasRound
      <3>3. \A x \in Rounds : x < k => HasRound(i, x)
        BY <2>3, <2>8, <3>1 DEF Received
      <3>4. ASSUME NEW s \in Parties, NEW x \in Rounds, <<s, x>> \in received[i]
            PROVE  s # i /\ x <= round'[s]
        <4>1. s # i /\ x <= round[s]
          BY <2>8, <3>4 DEF Received
        <4> QED
          BY <4>1, <2>6
      <3>5. status'[i] # "done"
        BY <2>6 DEF Running
      <3> QED
        BY <2>6, <3>2, <3>3, <3>4, <3>5 DEF Received, HasRound
    <2>13. m \notin Range(q)
      <3> SUFFICES ASSUME NEW x \in 1 .. l, q[x] = m PROVE FALSE
        BY <2>7 DEF Range
      <3>1. k <= round[i]
        BY <2>5, <2>9
      <3> QED
        BY <3>1, <2>1, <2>4
    <2>14. Queued(i)'
      <3>1. IsInjective(Append(q, m))
        BY <2>7, <2>8, <2>13, <2>1 DEF Queued
      <3>2. ASSUME NEW x \in 1 .. l + 1, NEW n, n = Append(q, m)[x]
            PROVE  /\ n.sender # i => <<n.sender, n.round>> \in received[i]
                   /\ n.sender = i => /\ n.round <= k
                                      /\ N * (n.round - 1) < N * b + x
                                      /\ N * b + x <= N * n.round
        <4>1. CASE x \in 1 .. l
          <5>1. n = q[x]
            BY <2>7, <3>2, <4>1
          <5>2. n.round \in Nat /\ (n.round <= round[i] => n.round <= k)
            <6>1. n.round \in Rounds /\ R \in Nat
              BY <5>1, <4>1, <2>9, RAssumption
            <6> QED
              BY <6>1, <2>1, <2>4
          <5> QED
            BY <2>9, <4>1, <5>1, <5>2
        <4>2. CASE x = l + 1
          <5>1. n = m
            BY <2>7, <3>2, <4>2
          <5>2. N * (k - 1) < N * b + x /\ N * b + x <= N * k
            BY <4>2, <2>11
          <5> QED
            BY <5>1, <5>2, <2>4, <2>5
        <4> QED
          BY <2>7, <4>1, <4>2
      <3>3. ASSUME NEW x \in Rounds, b < x, x <= k
            PROVE  \E y \in 1 .. l + 1 : Append(q, m)[y] = Msg(i, x, i)
        <4>1. CASE x = k
          BY <4>1, <2>2, <2>7
        <4>2. CASE x # k
          <5>1. x <= round[i]
            BY <3>3, <4>2, <2>1, <2>4
          <5>2. PICK y \in 1 .. l : q[y] = Msg(i, x, i)
            BY <5>1, <3>3, <2>1, <2>2, <2>7, <2>8 DEF Queued
          <5> QED
            BY <5>2, <2>7
        <4> QED
          BY <4>1, <4>2
      <3>4. PICK p : p = Append(q, m)
        OBVIOUS
      <3>5. IsInjective(p) /\ DOMAIN p = 1 .. l + 1 /\ queue'[i] = p
        BY <2>6, <2>7, <3>1, <3>4
      <3>6. \A x \in DOMAIN p : LET n == p[x] IN
               /\ n.sender # i => <<n.sender, n.round>> \in received'[i]
               /\ n.sender = i => /\ n.round <= round'[i]
                                  /\ N * (n.round - 1) < N * b + x
                                  /\ N * b + x <= N * n.round
        BY <2>6, <3>2, <3>4, <3>5
      <3>7. \A x \in Rounds : b < x /\ x <= round'[i] =>
               \E y \in DOMAIN p : p[y] = Msg(i, x, i)
        BY <2>6, <3>3, <3>4, <3>5
      <3> QED
        BY <2>6, <3>5, <3>6, <3>7 DEF Queued, Msg
    <2>15. Counted(i)'
      <3>1. Len(queue'[i]) = l + 1 /\ round'[i] = round[i] + 1 /\ Cardinality(received'[i]) = c
        BY <2>1, <2>2, <2>6, <2>7
      <3>2. N * b + (l + 1) = (round[i] + 1) + c
        <4>1. PICK y, z : y = N * b /\ z = round[i]
          OBVIOUS
        <4>2. y \in Int /\ z \in Int /\ l \in Int /\ c \in Int /\ y + l = z + c
          BY <4>1, <2>4, <2>7, <2>10
        <4>3. y + (l + 1) = (z + 1) + c
          BY <4>2
        <4> QED
          BY <4>1, <4>3
      <3> QED
        BY <2>6, <3>1, <3>2 DEF Counted
    <2>16. Bounded(i)'
      <3>1. IF batch[i] = {} THEN l <= N + 2 ELSE ~(l > N)
        BY <2>1, <2>2, <2>3 DEF EchoChannelTakes, EchoChannelFull
      <3>2. l + 1 <= IF batch[i] = {} THEN N + 3 ELSE N + 1
        BY <3>1, <2>4, <2>7
      <3> QED
        BY <2>6, <2>7, <3>2 DEF Bounded
    <2>17. Whole(i)'
      BY <2>6, <2>8 DEF Whole, OwnIn, Msg
    <2>18. Sound(i)'
      BY <2>6, <2>12, <2>14, <2>15, <2>16, <2>17 DEF Sound
    <2>19. \A s \in Parties : round'[s] >= round[s]
      <3>1. \A s \in Parties : round[s] \in Nat
        BY <1>1, RAssumption DEF TypeOK
      <3>2. round'[i] >= round[i] /\ \A s \in Parties \ {i} : round'[s] = round[s]
        BY <2>1, <2>4, <2>6
      <3> QED
        BY <3>1, <3>2
    <2>20. ASSUME NEW j \in Parties, j # i PROVE Sound(j)'
      BY <1>1, <2>3, <2>6, <2>19, <2>20, SoundKept DEF RoundsInv
    <2> QED
      BY <2>18, <2>20 DEF RoundsInv
  <1> QED
    BY <1>2, <1>3

(* A message of another party joins the queue. *)
LEMMA DeliverSound ==
  ASSUME EchoInv, EchoInv', RoundsInv, NEW i \in Parties, NEW s \in Parties, NEW k \in Rounds,
         Deliver(i, s, k)
  PROVE  RoundsInv'
  <1>1. TypeOK /\ TypeOK' /\ Addressed /\ Running(i) /\ Sound(i)
    BY DEF EchoInv, Deliver, RoundsInv
  <1>2. CASE End(i, "panicked")
    BY <1>1, <1>2, EndSound DEF Ended
  <1>3. CASE ~End(i, "panicked")
    <2>1. PICK q, g : q = queue[i] /\ g = received[i] \cup {<<s, k>>}
      OBVIOUS
    <2>2. PICK m, l, b, c : /\ m = Msg(s, k, i) /\ l = Len(q) /\ b = Batches(i)
                            /\ c = Cardinality(received[i])
      OBVIOUS
    <2>3. /\ EchoChannelTakes(i) /\ s # i /\ k <= round[s] /\ <<s, k>> \notin received[i]
          /\ received' = [received EXCEPT ![i] = g]
          /\ queue' = [queue EXCEPT ![i] = Append(q, m)]
          /\ UNCHANGED <<round, batch, r, acks, verified, status>>
      BY <1>1, <1>3, <2>1, <2>2 DEF Deliver, TypeOK
    <2>4. /\ q \in Seq(Messages) /\ Range(q) \subseteq MsgsAt(i)
          /\ b \in Nat /\ r[i] \in Nat /\ N \in Nat /\ round[i] \in Nat
      BY <1>1, <2>1, <2>2, NAssumption, RAssumption, SMTT(60) DEF TypeOK, Addressed, Batches
    <2>5. /\ m \in Messages /\ m.sender = s /\ m.round = k
          /\ \A t \in Parties, x \in Rounds : Msg(t, x, i).sender = t /\ Msg(t, x, i).round = x
      BY <2>2, MsgIs, MsgAddressed
    <2>6. /\ round'[i] = round[i] /\ queue'[i] = Append(q, m) /\ batch'[i] = batch[i]
          /\ r'[i] = r[i] /\ received'[i] = g /\ status'[i] = status[i]
          /\ \A j \in Parties \ {i} : received'[j] = received[j] /\ queue'[j] = queue[j]
          /\ Batches(i)' = b /\ Running(i)'
      BY <1>1, <2>2, <2>3 DEF TypeOK, Batches, Running
    <2>7. /\ l \in Nat /\ DOMAIN q = 1 .. l /\ Len(Append(q, m)) = l + 1
          /\ DOMAIN Append(q, m) = 1 .. l + 1
          /\ \A x \in 1 .. l : x \in 1 .. l + 1 /\ Append(q, m)[x] = q[x]
          /\ l + 1 \in 1 .. l + 1 /\ Append(q, m)[l + 1] = m
          /\ \A x \in 1 .. l + 1 : x \in 1 .. l \/ x = l + 1
          /\ IsInjective(q) /\ m \notin Range(q) => IsInjective(Append(q, m))
      BY <2>2, <2>4, <2>5, AppendFacts
    <2>8. Queued(i) /\ Counted(i) /\ Bounded(i) /\ Received(i) /\ Whole(i)
      BY <1>1 DEF Sound
    <2>9. Received(i)'
      <3>1. \A x : HasRound(i, x) => HasRound(i, x)'
        BY <2>1, <2>6 DEF HasRound
      <3>2. ASSUME NEW t \in Parties, NEW x \in Rounds, <<t, x>> \in g
            PROVE  t # i /\ x <= round[t]
        BY <2>1, <2>3, <2>8, <3>2 DEF Received
      <3>3. status'[i] # "done"
        BY <2>6 DEF Running
      <3> QED
        BY <2>3, <2>6, <2>8, <3>1, <3>2, <3>3 DEF Received
    <2>10. m \notin Range(q)
      <3> SUFFICES ASSUME NEW x \in 1 .. l, q[x] = m PROVE FALSE
        BY <2>7 DEF Range
      <3>1. <<s, k>> \in received[i]
        BY <2>1, <2>3, <2>5, <2>7, <2>8 DEF Queued
      <3> QED
        BY <3>1, <2>3
    <2>11. Queued(i)'
      <3>1. PICK p : p = Append(q, m)
        OBVIOUS
      <3>2. IsInjective(p) /\ DOMAIN p = 1 .. l + 1 /\ queue'[i] = p
        BY <2>1, <2>6, <2>7, <2>8, <2>10, <3>1 DEF Queued
      <3>3. ASSUME NEW x \in 1 .. l + 1, NEW n, n = p[x]
            PROVE  /\ n.sender # i => <<n.sender, n.round>> \in g
                   /\ n.sender = i => /\ n.round <= round[i]
                                      /\ N * (n.round - 1) < N * b + x
                                      /\ N * b + x <= N * n.round
        <4>1. CASE x \in 1 .. l
          <5>1. n = q[x]
            BY <2>7, <3>1, <3>3, <4>1
          <5> QED
            BY <2>1, <2>2, <2>7, <2>8, <4>1, <5>1 DEF Queued
        <4>2. CASE x = l + 1
          BY <2>1, <2>3, <2>5, <2>7, <3>1, <3>3, <4>2
        <4> QED
          BY <2>7, <4>1, <4>2
      <3>4. ASSUME NEW x \in Rounds, b < x, x <= round[i]
            PROVE  \E y \in 1 .. l + 1 : p[y] = Msg(i, x, i)
        <4>1. PICK y \in 1 .. l : q[y] = Msg(i, x, i)
          BY <3>4, <2>1, <2>2, <2>7, <2>8 DEF Queued
        <4> QED
          BY <4>1, <2>7, <3>1
      <3>5. \A x \in DOMAIN p : LET n == p[x] IN
               /\ n.sender # i => <<n.sender, n.round>> \in received'[i]
               /\ n.sender = i => /\ n.round <= round'[i]
                                  /\ N * (n.round - 1) < N * b + x
                                  /\ N * b + x <= N * n.round
        BY <2>6, <3>2, <3>3
      <3>6. \A x \in Rounds : b < x /\ x <= round'[i] =>
               \E y \in DOMAIN p : p[y] = Msg(i, x, i)
        BY <2>6, <3>2, <3>4
      <3> QED
        BY <2>6, <3>2, <3>5, <3>6 DEF Queued, Msg
    <2>12. Counted(i)'
      <3>1. IsFiniteSet(received[i]) /\ c \in Nat
        BY <1>1, <2>2, ReceivedCount
      <3>2. Cardinality(g) = c + 1
        BY <2>1, <2>2, <2>3, <3>1, FS_AddElement
      <3>3. N * b + l = round[i] + c /\ N * b \in Int
        BY <2>1, <2>2, <2>4, <2>8 DEF Counted
      <3>4. N * b + (l + 1) = round[i] + (c + 1)
        <4>1. PICK z : z = N * b
          OBVIOUS
        <4>2. z \in Int /\ l \in Nat /\ c \in Nat /\ round[i] \in Nat /\ z + l = round[i] + c
          BY <2>4, <2>7, <3>1, <3>3, <4>1
        <4>3. z + (l + 1) = round[i] + (c + 1)
          BY <4>2
        <4> QED
          BY <4>1, <4>3
      <3> QED
        BY <2>6, <2>7, <3>2, <3>4 DEF Counted
    <2>13. Bounded(i)'
      <3>1. IF batch[i] = {} THEN l <= N + 2 ELSE ~(l > N)
        BY <2>1, <2>2, <2>3 DEF EchoChannelTakes, EchoChannelFull
      <3>2. l + 1 <= IF batch[i] = {} THEN N + 3 ELSE N + 1
        BY <3>1, <2>4, <2>7
      <3> QED
        BY <2>6, <2>7, <3>2 DEF Bounded
    <2>14. Whole(i)'
      BY <2>6, <2>8 DEF Whole, OwnIn, Msg
    <2>15. Sound(i)'
      BY <2>6, <2>9, <2>11, <2>12, <2>13, <2>14 DEF Sound
    <2>16. \A t \in Parties : round'[t] >= round[t]
      BY <1>1, <2>3, RAssumption DEF TypeOK
    <2>17. ASSUME NEW j \in Parties, j # i PROVE Sound(j)'
      BY <1>1, <2>3, <2>6, <2>16, <2>17, SoundKept DEF RoundsInv
    <2> QED
      BY <2>15, <2>17 DEF RoundsInv
  <1> QED
    BY <1>2, <1>3

(* Responses leave the parties as they are. *)
LEMMA ResponseSound ==
  ASSUME TypeOK, TypeOK', RoundsInv,
         UNCHANGED <<round, received, queue, batch, r, verified, status>>
  PROVE  RoundsInv'
  <1>1. \A s \in Parties : round'[s] >= round[s]
    BY RAssumption DEF TypeOK
  <1> QED
    BY <1>1, SoundKept DEF RoundsInv

(* The first n messages of a full queue hold one own message. *)
LEMMA FullBatch ==
  ASSUME EchoInv, RoundsInv, NEW i \in Parties, BatchFull(i), NEW k, k = r[i] + 1,
         NEW h, h = Range(SubSeq(queue[i], 1, N))
  PROVE  OwnIn(i, h) = {Msg(i, k, i)} /\ k \in Rounds /\ k <= round[i]
  <1>1. PICK q, l, c : q = queue[i] /\ l = Len(q) /\ c = Cardinality(received[i])
    OBVIOUS
  <1>2. /\ TypeOK /\ Addressed /\ Queued(i) /\ Counted(i) /\ batch[i] = {} /\ l >= N
        /\ q \in Seq(Messages) /\ Range(q) \subseteq MsgsAt(i) /\ r[i] \in Nat /\ k \in Nat
        /\ N \in Nat /\ N >= 2 /\ R \in Nat /\ round[i] \in 0 .. R /\ Rounds = 1 .. R
    BY <1>1, NAssumption, RAssumption
       DEF EchoInv, RoundsInv, Sound, BatchFull, TypeOK, Addressed, Rounds
  <1>3. Batches(i) = r[i] /\ r[i] = k - 1
    BY <1>2 DEF Batches
  <1>4. /\ h = {q[x] : x \in 1 .. N} /\ 1 .. N \subseteq DOMAIN q /\ l \in Nat /\ DOMAIN q = 1 .. l
    BY <1>1, <1>2, CutFacts, ZenonT(60) DEF Queued
  <1>5. N * k = N * r[i] + N /\ N * r[i] \in Int /\ N * k \in Int
    BY <1>2, Multiples
  (* n messages of the round make the own one of them. *)
  <1>6. k <= round[i]
    <2> SUFFICES ASSUME round[i] < k PROVE FALSE
      BY <1>2
    <2>1. round[i] = r[i] \/ round[i] < r[i]
      BY <1>2
    <2>2. N * round[i] <= N * r[i] /\ N * round[i] \in Int
      <3>1. round[i] < r[i] => N * round[i] + N <= N * r[i]
        <4>1. round[i] \in Int /\ r[i] \in Int
          BY <1>2
        <4> QED
          BY <4>1, Multiples
      <3>2. N * round[i] \in Int
        BY <1>2
      <3>3. PICK y, z : y = N * round[i] /\ z = N * r[i]
        OBVIOUS
      <3>4. y \in Int /\ z \in Int /\ (round[i] < r[i] => y + N <= z) /\ (round[i] = r[i] => y = z)
        BY <3>1, <3>2, <3>3, <1>5
      <3>5. y <= z
        BY <3>4, <2>1, <1>2
      <3> QED
        BY <3>2, <3>3, <3>5
    <2>3. N * r[i] + l = round[i] + c
      BY <1>1, <1>2, <1>3 DEF Counted
    <2>4. round[i] + c < N * round[i] + N /\ c \in Nat
      BY <1>1, <1>2, ReceivedCount
    <2>5. PICK y, z : y = N * round[i] /\ z = N * r[i]
      OBVIOUS
    <2>6. /\ y \in Int /\ z \in Int /\ y <= z /\ z + l = round[i] + c /\ round[i] + c < y + N
          /\ l >= N /\ l \in Nat /\ N \in Nat /\ c \in Nat /\ round[i] \in Nat
      BY <1>2, <1>4, <1>5, <2>2, <2>3, <2>4, <2>5
    <2> QED
      BY <2>6, SMTT(60)
  <1>7. k \in Rounds
    BY <1>2, <1>6
  <1>8. ASSUME NEW x \in 1 .. N, q[x].sender = i PROVE q[x] = Msg(i, k, i)
    <2>1. PICK n : n = q[x].round
      OBVIOUS
    <2>2. q[x] \in MsgsAt(i) /\ x \in DOMAIN q
      BY <1>2, <1>4 DEF Range
    <2>3. n \in Rounds /\ n \in Nat /\ q[x] = Msg(i, n, i)
      BY <1>2, <1>8, <2>1, <2>2, MsgFields, MsgIs
    <2>4. N * (n - 1) < N * r[i] + x /\ N * r[i] + x <= N * n
      BY <1>1, <1>2, <1>3, <1>8, <2>1, <2>2 DEF Queued
    <2>5. n <= k
      <3> SUFFICES ASSUME k < n PROVE FALSE
        BY <1>2, <2>3
      <3>1. r[i] < n - 1 /\ n - 1 \in Int
        BY <1>2, <1>3, <2>3
      <3>2. N * r[i] + N <= N * (n - 1) /\ N * (n - 1) \in Int
        <4>1. PICK y : y = n - 1
          OBVIOUS
        <4>2. y \in Int /\ r[i] \in Int /\ r[i] < y
          BY <3>1, <1>2, <4>1
        <4>3. N * r[i] + N <= N * y /\ N * y \in Int
          BY <4>2, Multiples
        <4> QED
          BY <4>1, <4>3
      <3>3. PICK y, z : y = N * (n - 1) /\ z = N * r[i]
        OBVIOUS
      <3>4. y \in Int /\ z \in Int /\ z + N <= y /\ y < z + x /\ x \in 1 .. N /\ N \in Nat
        BY <3>2, <3>3, <2>4, <1>2, <1>5
      <3> QED
        BY <3>4
    <2>6. k <= n
      <3> SUFFICES ASSUME n < k PROVE FALSE
        BY <1>2, <2>3
      <3>1. n < r[i] \/ n = r[i]
        BY <1>2, <1>3, <2>3
      <3>2. (n < r[i] => N * n + N <= N * r[i]) /\ N * n \in Int
        <4>1. n \in Int /\ r[i] \in Int
          BY <1>2, <2>3
        <4> QED
          BY <4>1, Multiples
      <3>3. PICK y, z : y = N * n /\ z = N * r[i]
        OBVIOUS
      <3>4. /\ y \in Int /\ z \in Int /\ (n < r[i] => y + N <= z) /\ (n = r[i] => y = z)
            /\ z + x <= y /\ x \in 1 .. N /\ N \in Nat
        BY <3>2, <3>3, <2>3, <2>4, <1>2, <1>5
      <3> QED
        BY <3>1, <3>4
    <2> QED
      BY <2>3, <2>5, <2>6
  <1>9. Msg(i, k, i) \in h /\ Msg(i, k, i).sender = i
    <2>1. Batches(i) < k
      BY <1>2, <1>3
    <2>2. PICK x \in DOMAIN q : q[x] = Msg(i, k, i)
      BY <1>1, <1>2, <1>6, <1>7, <2>1 DEF Queued
    <2>3. Msg(i, k, i).sender = i /\ Msg(i, k, i).round = k
      BY <1>7, MsgIs
    <2>4. N * r[i] + x <= N * k
      BY <1>1, <1>2, <1>3, <2>2, <2>3 DEF Queued
    <2>5. x \in 1 .. N
      <3>1. PICK z : z = N * r[i]
        OBVIOUS
      <3>2. z \in Int /\ z + x <= z + N /\ x \in 1 .. l /\ l \in Nat /\ N \in Nat
        BY <1>2, <1>4, <1>5, <2>4, <3>1
      <3> QED
        BY <3>2
    <2> QED
      BY <1>4, <2>2, <2>3, <2>5
  <1> QED
    BY <1>4, <1>6, <1>7, <1>8, <1>9 DEF OwnIn

(* The first n messages become a batch. *)
LEMMA CollectSound ==
  ASSUME EchoInv, EchoInv', RoundsInv, NEW i \in Parties, Collect(i) PROVE RoundsInv'
  <1>1. TypeOK /\ TypeOK' /\ Addressed /\ BatchFull(i) /\ Sound(i)
    BY DEF EchoInv, Collect, RoundsInv
  <1>2. CASE End(i, "panicked")
    BY <1>1, <1>2, EndSound DEF Ended
  <1>3. CASE ~End(i, "panicked")
    <2>1. PICK q, l, k : q = queue[i] /\ l = Len(q) /\ k = r[i] + 1
      OBVIOUS
    <2>2. PICK h, t : h = Range(SubSeq(q, 1, N)) /\ t = SubSeq(q, N + 1, l)
      OBVIOUS
    <2>3. /\ batch' = [batch EXCEPT ![i] = h] /\ queue' = [queue EXCEPT ![i] = t]
          /\ UNCHANGED <<round, received, r, verified, status>>
      BY <1>1, <1>3, <2>1, <2>2 DEF Collect, TypeOK
    <2>4. /\ Running(i) /\ batch[i] = {} /\ l >= N /\ q \in Seq(Messages)
          /\ r[i] \in Nat /\ k \in Nat /\ N \in Nat /\ N >= 2
          /\ Queued(i) /\ Counted(i) /\ Bounded(i) /\ Received(i) /\ IsInjective(q)
      BY <1>1, <2>1, NAssumption DEF BatchFull, TypeOK, Sound, Queued
    <2>5. /\ h = {q[x] : x \in 1 .. N} /\ Cardinality(h) = N /\ h # {}
          /\ 1 .. N \subseteq DOMAIN q /\ l \in Nat /\ DOMAIN q = 1 .. l
          /\ t \in Seq(Messages) /\ Len(t) = l - N /\ DOMAIN t = 1 .. l - N
          /\ \A x \in 1 .. l - N : t[x] = q[N + x] /\ N + x \in DOMAIN q
          /\ IsInjective(t)
      <3>1. q \in Seq(Messages) /\ IsInjective(q) /\ l = Len(q) /\ l >= N
        BY <2>1, <2>4
      <3>2. h = Range(SubSeq(q, 1, N)) /\ t = SubSeq(q, N + 1, l)
        BY <2>2
      <3>3. /\ h = {q[x] : x \in 1 .. N} /\ Cardinality(h) = N /\ h # {}
            /\ 1 .. N \subseteq DOMAIN q /\ l \in Nat /\ DOMAIN q = 1 .. l
        BY <3>1, <3>2, CutFacts
      <3>4. t \in Seq(Messages) /\ Len(t) = l - N /\ DOMAIN t = 1 .. l - N
        BY <3>1, <3>2, CutFacts
      <3>5. \A x \in 1 .. l - N : t[x] = q[N + x] /\ N + x \in DOMAIN q
        BY <2>1, <2>2, <2>4, CutRest
      <3>6. IsInjective(t)
        BY <3>1, <3>2, CutFacts
      <3> QED
        BY <3>3, <3>4, <3>5, <3>6
    <2>6. /\ round'[i] = round[i] /\ queue'[i] = t /\ batch'[i] = h
          /\ r'[i] = r[i] /\ received'[i] = received[i] /\ status'[i] = status[i]
          /\ \A j \in Parties \ {i} : batch'[j] = batch[j] /\ queue'[j] = queue[j]
      BY <1>1, <2>3 DEF TypeOK
    <2>7. Batches(i) = r[i] /\ Batches(i)' = k /\ Running(i)'
      <3>1. Batches(i) = r[i] + 0
        BY <2>4 DEF Batches
      <3>2. Batches(i)' = r[i] + 1
        BY <2>5, <2>6 DEF Batches
      <3>3. Running(i)'
        BY <2>4, <2>6 DEF Running
      <3> QED
        BY <2>1, <2>4, <3>1, <3>2, <3>3
    <2>8. PICK z : z = N * r[i]
      OBVIOUS
    <2>9. z \in Int /\ N * k = z + N
      <3>1. r[i] \in Int /\ k = r[i] + 1 /\ k \in Int
        BY <2>1, <2>4
      <3>2. z = N * r[i]
        BY <2>8
      <3> QED
        BY <3>1, <3>2, Multiples
    <2>10. Whole(i)'
      <3>1. OwnIn(i, h) = {Msg(i, k, i)}
        BY <1>1, <2>1, <2>2, FullBatch
      <3> QED
        BY <2>1, <2>5, <2>6, <3>1 DEF Whole, OwnIn, Msg
    <2>11. Queued(i)'
      <3>1. ASSUME NEW x \in 1 .. l - N, NEW n, n = t[x]
            PROVE  /\ n.sender # i => <<n.sender, n.round>> \in received[i]
                   /\ n.sender = i => /\ n.round <= round[i]
                                      /\ N * (n.round - 1) < N * k + x
                                      /\ N * k + x <= N * n.round
        <4>1. n = q[N + x] /\ N + x \in DOMAIN q
          BY <2>5, <3>1
        <4>2. /\ n.sender # i => <<n.sender, n.round>> \in received[i]
              /\ n.sender = i => /\ n.round <= round[i]
                                 /\ N * (n.round - 1) < z + (N + x)
                                 /\ z + (N + x) <= N * n.round
          BY <2>1, <2>4, <2>7, <2>8, <4>1 DEF Queued
        <4>3. N * k + x = z + (N + x)
          BY <2>4, <2>5, <2>9
        <4> QED
          BY <4>2, <4>3
      <3>2. ASSUME NEW n \in Rounds, k < n, n <= round[i]
            PROVE  \E y \in 1 .. l - N : t[y] = Msg(i, n, i)
        <4>1. n \in Nat /\ r[i] < n
          BY <2>1, <2>4, <3>2, RAssumption DEF Rounds
        <4>2. PICK y \in 1 .. l : q[y] = Msg(i, n, i)
          BY <2>1, <2>4, <2>5, <2>7, <3>2, <4>1 DEF Queued
        <4>3. Msg(i, n, i).sender = i /\ Msg(i, n, i).round = n
          BY MsgIs
        <4>4. N * (n - 1) < z + y
          BY <2>1, <2>4, <2>5, <2>7, <2>8, <4>2, <4>3 DEF Queued
        <4>5. z + N <= N * (n - 1) /\ N * (n - 1) \in Int
          <5>1. PICK u : u = n - 1
            OBVIOUS
          <5>2. u \in Int /\ r[i] \in Int /\ r[i] < u
            BY <2>1, <2>4, <3>2, <4>1, <5>1
          <5>3. N * r[i] + N <= N * u /\ N * u \in Int
            BY <5>2, Multiples
          <5> QED
            BY <2>8, <5>1, <5>3
        <4>6. PICK u : u = N * (n - 1)
          OBVIOUS
        <4>7. u \in Int /\ z + N <= u /\ u < z + y /\ y \in 1 .. l
          BY <4>4, <4>5, <4>6
        <4>8. y - N \in 1 .. l - N /\ N + (y - N) = y
          BY <2>4, <2>5, <2>9, <4>7
        <4>9. t[y - N] = Msg(i, n, i)
          BY <2>5, <4>2, <4>8
        <4> QED
          BY <4>8, <4>9
      <3>3. \A x \in DOMAIN t : LET n == t[x] IN
               /\ n.sender # i => <<n.sender, n.round>> \in received'[i]
               /\ n.sender = i => /\ n.round <= round'[i]
                                  /\ N * (n.round - 1) < N * k + x
                                  /\ N * k + x <= N * n.round
        BY <2>5, <2>6, <3>1
      <3>4. \A n \in Rounds : k < n /\ n <= round'[i] =>
               \E y \in DOMAIN t : t[y] = Msg(i, n, i)
        BY <2>5, <2>6, <3>2
      <3> QED
        BY <2>5, <2>6, <2>7, <3>3, <3>4 DEF Queued, Msg
    <2>12. Counted(i)'
      <3>1. z + l = round[i] + Cardinality(received[i])
        BY <2>1, <2>4, <2>7, <2>8 DEF Counted
      <3>2. N * k + (l - N) = z + l
        BY <2>4, <2>5, <2>9
      <3> QED
        BY <2>5, <2>6, <2>7, <3>1, <3>2 DEF Counted
    <2>13. Bounded(i)'
      <3>1. l <= N + 3
        BY <2>1, <2>4 DEF Bounded
      <3>2. l - N <= N + 1
        BY <2>4, <2>5, <3>1
      <3> QED
        BY <2>5, <2>6, <3>2 DEF Bounded
    <2>14. \A s \in Parties : round'[s] >= round[s]
      BY <1>1, <2>3, RAssumption DEF TypeOK
    <2>15. Received(i)'
      BY <2>3, <2>4 DEF Received, HasRound
    <2>16. Sound(i)'
      BY <2>7, <2>10, <2>11, <2>12, <2>13, <2>15 DEF Sound
    <2>17. ASSUME NEW j \in Parties, j # i PROVE Sound(j)'
      BY <1>1, <2>3, <2>6, <2>14, <2>17, SoundKept DEF RoundsInv
    <2> QED
      BY <2>16, <2>17 DEF RoundsInv
  <1> QED
    BY <1>2, <1>3

(* An echo round is complete, or ends the execution. *)
LEMMA VerifySound ==
  ASSUME EchoInv, EchoInv', RoundsInv, NEW i \in Parties, Verify(i) PROVE RoundsInv'
  <1>1. TypeOK /\ TypeOK' /\ Running(i) /\ Sound(i)
    BY DEF EchoInv, Verify, RoundsInv
  <1>2. CASE End(i, "inconsistent") \/ End(i, "echo_failed")
    BY <1>1, <1>2, EndSound DEF Ended
  <1>3. CASE ~(End(i, "inconsistent") \/ End(i, "echo_failed"))
    <2>1. /\ batch[i] # {}
          /\ r' = [r EXCEPT ![i] = @ + 1] /\ batch' = [batch EXCEPT ![i] = {}]
          /\ UNCHANGED <<round, received, queue, acks, status>>
      BY <1>3 DEF Verify, OwnIn
    <2>2. r[i] \in Nat /\ N \in Nat /\ N >= 2 /\ Len(queue[i]) \in Nat
      BY <1>1, NAssumption DEF TypeOK
    <2>3. /\ r'[i] = r[i] + 1 /\ batch'[i] = {} /\ queue'[i] = queue[i] /\ round'[i] = round[i]
          /\ received'[i] = received[i] /\ status'[i] = status[i]
          /\ \A j \in Parties \ {i} : batch'[j] = batch[j] /\ r'[j] = r[j]
      BY <1>1, <2>1 DEF TypeOK
    <2>4. Batches(i)' = Batches(i)
      BY <2>1, <2>2, <2>3 DEF Batches
    <2>5. Queued(i) /\ Counted(i) /\ Bounded(i) /\ Received(i)
      BY <1>1 DEF Sound
    <2>6. Queued(i)' /\ Counted(i)' /\ Received(i)'
      BY <2>1, <2>3, <2>4, <2>5 DEF Queued, Counted, Received, HasRound
    <2>7. Bounded(i)'
      <3>1. Len(queue[i]) <= N + 1
        BY <2>1, <2>5 DEF Bounded
      <3>2. Len(queue[i]) <= N + 3
        BY <2>2, <3>1
      <3> QED
        BY <2>3, <3>2 DEF Bounded
    <2>8. Sound(i)'
      BY <1>1, <2>3, <2>6, <2>7 DEF Sound, Whole, Running
    <2>9. \A s \in Parties : round'[s] >= round[s]
      BY <1>1, <2>1, RAssumption DEF TypeOK
    <2>10. ASSUME NEW j \in Parties, j # i PROVE Sound(j)'
      BY <1>1, <2>1, <2>3, <2>9, <2>10, SoundKept DEF RoundsInv
    <2> QED
      BY <2>8, <2>10 DEF RoundsInv
  <1> QED
    BY <1>2, <1>3

-----------------------------------------------------------------------------
(* The invariant, for any number of parties and rounds. *)

(* Nothing is queued before the first broadcast. *)
LEMMA InitSound == Init => RoundsInv
  <1> SUFFICES ASSUME Init, NEW i \in Parties PROVE Sound(i)
    BY DEF RoundsInv
  <1>1. R \in Nat /\ R >= 1 /\ Rounds = 1 .. R /\ N \in Nat
    BY RAssumption, NAssumption DEF Rounds
  <1>2. /\ round[i] = 0 /\ received[i] = {} /\ queue[i] = <<>> /\ batch[i] = {} /\ r[i] = 0
        /\ status[i] = "running"
    BY DEF Init
  <1>3. Received(i)
    BY <1>1, <1>2 DEF Received
  <1>4. Queued(i)
    <2>1. IsInjective(<<>>) /\ DOMAIN <<>> = {}
      BY DEF IsInjective
    <2>2. Batches(i) = 0
      BY <1>2 DEF Batches
    <2>3. \A k \in Rounds : ~(k <= 0)
      BY <1>1
    <2> QED
      BY <1>2, <2>1, <2>2, <2>3 DEF Queued
  <1>5. Counted(i)
    <2>1. Cardinality(received[i]) = 0
      BY <1>2, FS_EmptySet
    <2>2. Batches(i) = 0 /\ N * 0 = 0 /\ Len(queue[i]) = 0
      BY <1>1, <1>2 DEF Batches
    <2> QED
      BY <1>2, <2>1, <2>2 DEF Counted
  <1>6. Bounded(i)
    <2>1. Len(queue[i]) = 0 /\ 0 <= N + 3
      BY <1>1, <1>2
    <2> QED
      BY <1>2, <2>1 DEF Bounded
  <1> QED
    BY <1>2, <1>3, <1>4, <1>5, <1>6 DEF Sound, Whole, Running

(* Every step of agents, executions and gadgets. *)
LEMMA NextSound == EchoInv /\ EchoInv' /\ RoundsInv /\ [Next]_vars => RoundsInv'
  <1> SUFFICES ASSUME EchoInv, EchoInv', RoundsInv, [Next]_vars PROVE RoundsInv'
    OBVIOUS
  <1>1. TypeOK /\ TypeOK'
    BY DEF EchoInv
  <1>2. CASE UNCHANGED vars \/ Terminated
    BY <1>1, <1>2, ResponseSound DEF vars, Terminated
  <1>3. ASSUME NEW i \in Parties, Broadcast(i) PROVE RoundsInv'
    BY <1>3, BroadcastSound
  <1>4. ASSUME NEW i \in Parties, Collect(i) PROVE RoundsInv'
    BY <1>4, CollectSound
  <1>5. ASSUME NEW i \in Parties, Verify(i) PROVE RoundsInv'
    BY <1>5, VerifySound
  <1>6. ASSUME NEW i \in Parties, Finish(i) PROVE RoundsInv'
    <2>1. R \in Rounds
      BY RAssumption DEF Rounds
    <2> QED
      BY <1>1, <1>6, <2>1, EndSound DEF Finish, Ended
  <1>7. ASSUME NEW i \in Parties, NEW s \in Parties, NEW k \in Rounds, Deliver(i, s, k)
        PROVE  RoundsInv'
    BY <1>7, DeliverSound
  <1>8. ASSUME NEW i \in Parties, NEW s \in Parties, NEW k \in Rounds,
               RequestFails(i, s, k) \/ \E ok \in {"ok", "refused"} : DeliverLate(i, s, k, ok)
        PROVE  RoundsInv'
    BY <1>1, <1>8, ResponseSound DEF RequestFails, DeliverLate
  <1> QED
    BY <1>2, <1>3, <1>4, <1>5, <1>6, <1>7, <1>8 DEF Next

(* What the theorems follow from. *)
LEMMA RoundsInvHolds == Spec => []RoundsInv
  BY InitSound, NextSound, EchoInvInductive, PTL DEF Spec

-----------------------------------------------------------------------------
(* A batch has n messages, of which one is the party's own, that of the     *)
(* echo round: echo.rs:75 never overwrites a receiver of responses.         *)
THEOREM BatchesHaveOwn == Spec => []OwnInBatch
  <1>1. RoundsInv => OwnInBatch
    BY DEF RoundsInv, Sound, Whole, OwnInBatch
  <1> QED
    BY <1>1, RoundsInvHolds, PTL

(* The expect of echo.rs:80 does not fail: of the n messages that are about *)
(* to become a batch one is the party's own.                                *)
THEOREM ExpectHolds ==
    Spec => [](\A i \in Parties :
                  BatchFull(i) => OwnIn(i, Range(SubSeq(queue[i], 1, N))) # {})
  <1>1. EchoInv /\ RoundsInv =>
           \A i \in Parties : BatchFull(i) => OwnIn(i, Range(SubSeq(queue[i], 1, N))) # {}
    BY FullBatch
  <1> QED
    BY <1>1, RoundsInvHolds, EchoInvInductive, PTL

(* An agent is at most three rounds ahead of its echo: it has the messages  *)
(* of all others of k - 1 rounds, and the channel does not hold three       *)
(* rounds of messages before the try_send of execution.rs:184 fails.        *)
THEOREM EchoNeverFarBehind == Spec => []EchoKeepsUp
  <1>1. EchoInv /\ RoundsInv => EchoKeepsUp
    <2> SUFFICES ASSUME EchoInv, RoundsInv, NEW i \in Parties, Running(i), round[i] > r[i] + 3
                 PROVE  FALSE
      BY RAssumption DEF EchoKeepsUp, EchoInv, TypeOK
    <2>1. PICK l, c, k, b : /\ l = Len(queue[i]) /\ c = Cardinality(received[i]) /\ k = round[i]
                            /\ b = Batches(i)
      OBVIOUS
    <2>2. /\ TypeOK /\ k \in Nat /\ r[i] \in Nat /\ N \in Nat /\ N >= 2 /\ l \in Nat
          /\ b = r[i] + (IF batch[i] = {} THEN 0 ELSE 1) /\ b \in Nat
      BY <2>1, RAssumption, NAssumption DEF EchoInv, TypeOK, Batches
    <2>3. Counted(i) /\ Bounded(i)
      BY DEF RoundsInv, Sound
    <2>4. N * b + l = k + c
      BY <2>1, <2>3 DEF Counted
    <2>5. N * (k - 1) + 1 <= k + c
      BY <2>1, <2>2, ReceivedCount, SMTT(60)
    (* Two rounds more than the batches, and a third when none is in progress. *)
    <2>6. PICK x, y, z, w : x = b + 1 /\ y = b + 2 /\ z = N * b /\ w = N * (k - 1)
      OBVIOUS
    <2>7. k - 1 >= y /\ (batch[i] = {} => k - 1 > y)
      <3>1. k > r[i] + 3 /\ y = b + 2 /\ k \in Nat /\ r[i] \in Nat
        BY <2>1, <2>2, <2>6
      <3>2. CASE batch[i] = {}
        <4>1. b = r[i] + 0
          BY <2>2, <3>2
        <4> QED
          BY <3>1, <4>1
      <3>3. CASE batch[i] # {}
        <4>1. b = r[i] + 1
          BY <2>2, <3>3
        <4> QED
          BY <3>1, <3>3, <4>1
      <3> QED
        BY <3>2, <3>3
    <2>8. N * x = z + N /\ N * y = z + N + N /\ z \in Int
      BY <2>2, <2>6, Multiples
    <2>9. N * y <= w /\ (batch[i] = {} => N * y + N <= w) /\ w \in Int
      <3>1. PICK u : u = k - 1
        OBVIOUS
      <3>2. u \in Int /\ y \in Int /\ (y < u \/ y = u) /\ (batch[i] = {} => y < u)
        BY <2>2, <2>6, <2>7, <3>1
      <3>3. N * u \in Int /\ N * y \in Int /\ (y < u => N * y + N <= N * u)
        BY <3>2, Multiples
      <3>4. N * y <= N * u
        BY <3>2, <3>3, <2>2
      <3> QED
        BY <2>6, <3>1, <3>2, <3>3, <3>4
    <2>10. z + l >= w + 1
      BY <2>4, <2>5, <2>6
    <2>11. CASE batch[i] = {}
      <3>1. l <= N + 3
        BY <2>1, <2>3, <2>11 DEF Bounded
      <3> QED
        BY <2>2, <2>8, <2>9, <2>10, <2>11, <3>1
    <2>12. CASE batch[i] # {}
      <3>1. l <= N + 1
        BY <2>1, <2>3, <2>12 DEF Bounded
      <3> QED
        BY <2>2, <2>8, <2>9, <2>10, <3>1
    <2> QED
      BY <2>11, <2>12
  <1> QED
    BY <1>1, RoundsInvHolds, EchoInvInductive, PTL

-----------------------------------------------------------------------------
(* Where a party is in RoundBased. *)
Pos(i) == IF status[i] = "done" THEN R + 1 ELSE round[i]

(* A party that has every round k message is in a round that no other is *)
(* behind.                                                               *)
LEMMA NobodyBehind ==
  ASSUME EchoInv, RoundsInv, NEW i \in Parties, Running(i),
         round[i] > 0 => HasRound(i, round[i])
  PROVE  \A j \in Parties : Pos(j) >= round[i]
  <1> TAKE j \in Parties
  <1>1. /\ round[i] \in 0 .. R /\ round[j] \in 0 .. R /\ R \in Nat /\ Rounds = 1 .. R
        /\ Received(i)
    BY RAssumption DEF EchoInv, TypeOK, RoundsInv, Sound, Rounds
  <1>2. round[j] >= round[i]
    <2>1. CASE j = i \/ round[i] = 0
      BY <1>1, <2>1
    <2>2. CASE j # i /\ round[i] # 0
      <3>1. round[i] \in Rounds /\ <<j, round[i]>> \in received[i]
        BY <1>1, <2>2 DEF HasRound
      <3> QED
        BY <1>1, <3>1 DEF Received
    <2> QED
      BY <2>1, <2>2
  <1> QED
    BY <1>1, <1>2 DEF Pos

(* A broadcast is an advance, unless the full channel ends the execution. *)
LEMMA BroadcastAdvances ==
  ASSUME EchoInv, RoundsInv, NEW i \in Parties, Broadcast(i)
  PROVE  \/ Lockstep!Advance(i)
         \/ \A j \in Parties : Pos(j)' = Pos(j)
  <1>1. TypeOK /\ Running(i) /\ round[i] < R /\ (round[i] > 0 => HasRound(i, round[i]))
    BY DEF EchoInv, Broadcast
  <1>2. CASE End(i, "panicked")
    <2>1. round' = round /\ status' = [status EXCEPT ![i] = "panicked"]
      BY <1>2 DEF End
    <2> QED
      BY <1>1, <2>1 DEF Pos, Running, TypeOK
  <1>3. CASE round' = [round EXCEPT ![i] = @ + 1] /\ UNCHANGED status
    <2> DEFINE pos == [j \in Parties |-> Pos(j)]
    <2>1. \A j \in Parties : pos[j] >= pos[i]
      BY <1>1, NobodyBehind DEF Pos, Running
    <2>2. pos[i] = round[i] /\ pos[i] <= R
      BY <1>1, RAssumption DEF Pos, Running, TypeOK
    <2>3. \A j \in Parties : Pos(j)' = IF j = i THEN Pos(i) + 1 ELSE Pos(j)
      BY <1>1, <1>3 DEF Pos, Running, TypeOK
    <2>4. pos' = [pos EXCEPT ![i] = pos[i] + 1]
      BY <2>3
    <2> QED
      BY <2>1, <2>2, <2>4 DEF Lockstep!Advance, Lockstep!Parties, Parties, Pos
  <1> QED
    BY <1>2, <1>3 DEF Broadcast

(* An agent that returns has the last message of every other. *)
LEMMA FinishAdvances ==
  ASSUME EchoInv, RoundsInv, NEW i \in Parties, Finish(i)
  PROVE  Lockstep!Advance(i)
  <1> DEFINE pos == [j \in Parties |-> Pos(j)]
  <1>1. /\ TypeOK /\ Running(i) /\ round[i] = R /\ (\A k \in Rounds : HasRound(i, k))
        /\ round' = round /\ status' = [status EXCEPT ![i] = "done"]
        /\ R \in Rounds
    BY RAssumption DEF EchoInv, Finish, End, Rounds
  <1>2. pos[i] = R /\ pos[i] <= R
    BY <1>1, RAssumption DEF Pos, Running
  <1>3. \A j \in Parties : pos[j] >= pos[i]
    BY <1>1, <1>2, NobodyBehind
  <1>4. \A j \in Parties : Pos(j)' = IF j = i THEN Pos(i) + 1 ELSE Pos(j)
    BY <1>1, <1>2 DEF Pos, TypeOK
  <1>5. pos' = [pos EXCEPT ![i] = pos[i] + 1]
    BY <1>4
  <1> QED
    BY <1>2, <1>3, <1>5 DEF Lockstep!Advance, Lockstep!Parties, Parties, Pos

(* Messages, batches and responses move no agent, nor does a failure. *)
LEMMA OthersStutter ==
  ASSUME TypeOK, NEW i \in Parties,
         \/ Collect(i) \/ Verify(i)
         \/ \E s \in Parties, k \in Rounds :
               \/ Deliver(i, s, k) \/ RequestFails(i, s, k)
               \/ \E ok \in {"ok", "refused"} : DeliverLate(i, s, k, ok)
  PROVE  \A j \in Parties : Pos(j)' = Pos(j)
  <1>1. CASE UNCHANGED <<round, status>>
    BY <1>1 DEF Pos
  <1>2. ASSUME Running(i), NEW how \in {"panicked", "inconsistent", "echo_failed"}, End(i, how)
        PROVE  \A j \in Parties : Pos(j)' = Pos(j)
    <2>1. round' = round /\ status' = [status EXCEPT ![i] = how] /\ how # "done"
      BY <1>2 DEF End
    <2> QED
      BY <1>2, <2>1 DEF Pos, Running, TypeOK
  <1>3. CASE Collect(i)
    BY <1>1, <1>2, <1>3 DEF Collect, BatchFull
  <1>4. CASE Verify(i)
    BY <1>1, <1>2, <1>4 DEF Verify
  <1>5. ASSUME NEW s \in Parties, NEW k \in Rounds,
               \/ Deliver(i, s, k) \/ RequestFails(i, s, k)
               \/ \E ok \in {"ok", "refused"} : DeliverLate(i, s, k, ok)
        PROVE  \A j \in Parties : Pos(j)' = Pos(j)
    BY <1>1, <1>2, <1>5 DEF Deliver, RequestFails, DeliverLate
  <1> QED
    BY <1>3, <1>4, <1>5

(* The parties implement RoundBased: an agent broadcasts its next message,  *)
(* or returns, only when every other party has broadcast as many as it.     *)
THEOREM EchoesImplementRoundBased == Spec => InStep
  <1>1. Init => Lockstep!Init
    BY DEF Init, Lockstep!Init, Parties, Lockstep!Parties
  <1>2. EchoInv /\ RoundsInv /\ [Next]_vars => 
           [Lockstep!Next]_([i \in Parties |-> IF status[i] = "done" THEN R + 1 ELSE round[i]])
    <2> DEFINE pos == [j \in Parties |-> Pos(j)]
    <2> SUFFICES ASSUME EchoInv, RoundsInv, [Next]_vars, pos' # pos PROVE Lockstep!Next
      BY DEF Pos
    <2>1. ~(\A j \in Parties : Pos(j)' = Pos(j))
      OBVIOUS
    <2>2. ~UNCHANGED vars
      BY <2>1 DEF vars, Pos
    <2>3. PICK i \in Parties : Broadcast(i) \/ Finish(i)
      BY <2>1, <2>2, OthersStutter DEF Next, Terminated, EchoInv
    <2>4. Lockstep!Advance(i)
      BY <2>1, <2>3, BroadcastAdvances, FinishAdvances
    <2> QED
      BY <2>4 DEF Lockstep!Next, Lockstep!Parties, Parties
  <1> QED
    BY <1>1, <1>2, RoundsInvHolds, EchoInvInductive, PTL DEF Spec, InStep, Lockstep!Spec

(* The guarantees of a round-based computation, for these parties. *)
Steps == INSTANCE RoundBasedProofs WITH
    pos <- [i \in Parties |-> IF status[i] = "done" THEN R + 1 ELSE round[i]]

(* So no agent is more than one broadcast ahead of another, also between    *)
(* its own, and none has returned before all have broadcast their last      *)
(* message, although no party waits for the echo of its own.                *)
THEOREM EchoesStayTogether == Spec => []Lockstep!Apart
  <1> DEFINE here == [i \in Parties |-> IF status[i] = "done" THEN R + 1 ELSE round[i]]
  <1>1. Steps!Spec => []Steps!Apart
    BY Steps!WithinARound
  <1>2. Lockstep!Init => Steps!Init
    BY DEF Lockstep!Init, Steps!Init, Lockstep!Parties, Steps!Parties
  <1>3. [Lockstep!Next]_here => [Steps!Next]_here
    BY DEF Lockstep!Next, Steps!Next, Lockstep!Advance, Steps!Advance, Lockstep!Parties, Steps!Parties
  <1>4. Steps!Apart => Lockstep!Apart
    BY DEF Lockstep!Apart, Steps!Apart, Lockstep!Parties, Steps!Parties
  <1> QED
    BY <1>1, <1>2, <1>3, <1>4, EchoesImplementRoundBased, PTL DEF InStep, Lockstep!Spec, Steps!Spec

-----------------------------------------------------------------------------
(* Circles of gadgets that wait for each other's acknowledgments.           *)

(* What a gadget has taken into batches. *)
Took(i) == batch[i] \cup verified[i]

(* It has acknowledged these messages, and own messages were preceded by    *)
(* all of the rounds before.                                                *)
Taken(i) ==
    \A m \in Took(i) :
        /\ m.sender # i => /\ <<m.sender, m.round>> \in received[i]
                           /\ Answered(m.sender, m.round, i)
        /\ m.sender = i => /\ m.round <= round[i]
                           /\ \A s \in Parties, k \in Rounds : k < m.round => Msg(s, k, i) \in Took(i)

Tally(i) == IsFiniteSet(Took(i)) /\ Cardinality(Took(i)) = N * Batches(i)

(* What an agent sent or has is in a batch or queued. *)
Kept(i) ==
    \A s \in Parties, k \in Rounds :
        (IF s = i THEN k <= round[i] ELSE <<s, k>> \in received[i])
            => Msg(s, k, i) \in Took(i) \cup Range(queue[i])

(* The queue is what comes next. *)
Behind(i) ==
    \A x \in DOMAIN queue[i] :
        /\ queue[i][x] \notin Took(i)
        /\ queue[i][x].sender = i =>
              \A s \in Parties, k \in Rounds : k < queue[i][x].round =>
                  Msg(s, k, i) \in Took(i) \/ \E y \in 1 .. x - 1 : queue[i][y] = Msg(s, k, i)

Orderly(i) == Running(i) => Taken(i) /\ Tally(i) /\ Kept(i) /\ Behind(i)

(* The first k batches are without messages of later rounds. *)
Calm(i, k) ==
    Batches(i) <= k => /\ \A m \in Took(i) : m.round <= k
                       /\ \A x \in 1 .. N * (k - Batches(i)) :
                             x \in DOMAIN queue[i] /\ queue[i][x].round <= k

(* Whoever began round k + 1 first had all of the rounds before, and        *)
(* nothing else.                                                            *)
Firsts ==
    \A k \in Rounds : (\E i \in Parties : round[i] > k) =>
        \E i \in Parties : round[i] > k /\ (Running(i) => Calm(i, k))

CircleInv == Firsts /\ \A i \in Parties : Orderly(i)

(* A party whose state is as it was. *)
LEMMA OrderlyKept ==
  ASSUME NEW i \in Parties, Orderly(i), acks \subseteq acks', Running(i)' => Running(i),
         round'[i] = round[i], received'[i] = received[i], queue'[i] = queue[i],
         batch'[i] = batch[i], verified'[i] = verified[i], r'[i] = r[i]
  PROVE  Orderly(i)' /\ \A k : Calm(i, k) => Calm(i, k)'
  <1>1. Took(i)' = Took(i) /\ Batches(i)' = Batches(i)
    BY DEF Took, Batches
  <1>2. \A s, k : Answered(s, k, i) => Answered(s, k, i)'
    BY DEF Answered
  <1>3. Taken(i) => Taken(i)'
    BY <1>1, <1>2 DEF Taken, Msg
  <1>4. (Tally(i) => Tally(i)') /\ (Kept(i) => Kept(i)') /\ (Behind(i) => Behind(i)')
    BY <1>1 DEF Tally, Kept, Behind, Msg
  <1>5. \A k : Calm(i, k) => Calm(i, k)'
    BY <1>1 DEF Calm
  <1> QED
    BY <1>3, <1>4, <1>5 DEF Orderly

(* One party does something other than to begin a round. *)
LEMMA OneMoves ==
  ASSUME CircleInv, NEW i \in Parties, acks \subseteq acks', round' = round,
         \A j \in Parties \ {i} :
            /\ received'[j] = received[j] /\ queue'[j] = queue[j] /\ batch'[j] = batch[j]
            /\ verified'[j] = verified[j] /\ r'[j] = r[j] /\ status'[j] = status[j],
         Orderly(i)', Running(i)' => Running(i) /\ \A k \in Rounds : Calm(i, k) => Calm(i, k)'
  PROVE  CircleInv'
  <1>1. \A j \in Parties \ {i} : Running(j)' = Running(j)
    BY DEF Running
  <1>2. ASSUME NEW j \in Parties \ {i}
        PROVE  Orderly(j)' /\ \A k : Calm(j, k) => Calm(j, k)'
    BY <1>1, OrderlyKept DEF CircleInv
  <1>3. ASSUME NEW k \in Rounds, NEW j \in Parties, round'[j] > k
        PROVE  \E x \in Parties : round'[x] > k /\ (Running(x)' => Calm(x, k)')
    <2>1. PICK x \in Parties : round[x] > k /\ (Running(x) => Calm(x, k))
      BY <1>3 DEF CircleInv, Firsts
    <2>2. Running(x)' => Calm(x, k)'
      BY <1>1, <1>2, <2>1
    <2> QED
      BY <2>1, <2>2
  <1>4. Firsts'
    BY <1>3 DEF Firsts
  <1> QED
    BY <1>2, <1>4 DEF CircleInv

(* An execution ends. *)
LEMMA EndCircle ==
  ASSUME TypeOK, CircleInv, NEW i \in Parties, NEW how \in Ended, End(i, how)
  PROVE  CircleInv'
  <1>1. /\ status' = [status EXCEPT ![i] = how] /\ acks \subseteq acks'
        /\ queue' = [queue EXCEPT ![i] = <<>>] /\ batch' = [batch EXCEPT ![i] = {}]
        /\ UNCHANGED <<round, received, r, verified>>
    BY DEF End
  <1>2. ~Running(i)'
    BY <1>1 DEF TypeOK, Running, Ended
  <1>3. \A j \in Parties \ {i} : queue'[j] = queue[j] /\ batch'[j] = batch[j] /\ status'[j] = status[j]
    BY <1>1 DEF TypeOK
  <1>4. Orderly(i)'
    BY <1>2 DEF Orderly
  <1> QED
    BY <1>1, <1>2, <1>3, <1>4, OneMoves

(* Only responses. *)
LEMMA ResponseCircle ==
  ASSUME CircleInv, acks \subseteq acks',
         UNCHANGED <<round, received, queue, batch, r, verified, status>>
  PROVE  CircleInv'
  <1>1. PICK i \in Parties : TRUE
    BY NAssumption DEF Parties
  <1>2. Running(i)' = Running(i)
    BY DEF Running
  <1>3. Orderly(i)' /\ \A k : Calm(i, k) => Calm(i, k)'
    BY <1>2, OrderlyKept DEF CircleInv
  <1> QED
    BY <1>2, <1>3, OneMoves

(* A batch has been verified: it stays taken. *)
LEMMA VerifyCircle ==
  ASSUME TypeOK, CircleInv, NEW i \in Parties, Verify(i) PROVE CircleInv'
  <1>1. CASE End(i, "inconsistent") \/ End(i, "echo_failed")
    BY <1>1, EndCircle DEF Ended
  <1>2. CASE ~(End(i, "inconsistent") \/ End(i, "echo_failed"))
    <2>1. /\ batch[i] # {}
          /\ r' = [r EXCEPT ![i] = @ + 1] /\ batch' = [batch EXCEPT ![i] = {}]
          /\ verified' = [verified EXCEPT ![i] = @ \cup batch[i]]
          /\ UNCHANGED <<round, received, queue, acks, status>>
      BY <1>2 DEF Verify, OwnIn
    <2>2. /\ r'[i] = r[i] + 1 /\ batch'[i] = {} /\ verified'[i] = verified[i] \cup batch[i]
          /\ r[i] \in Nat
          /\ \A j \in Parties \ {i} : batch'[j] = batch[j] /\ r'[j] = r[j] /\ verified'[j] = verified[j]
      BY <2>1 DEF TypeOK
    <2>3. Took(i)' = Took(i) /\ Batches(i)' = Batches(i)
      BY <2>1, <2>2 DEF Took, Batches
    <2>4. (Taken(i) => Taken(i)') /\ (Tally(i) => Tally(i)')
      BY <2>1, <2>3 DEF Taken, Tally, Msg, Answered
    <2>5. (Kept(i) => Kept(i)') /\ (Behind(i) => Behind(i)')
      BY <2>1, <2>3 DEF Kept, Behind, Msg
    <2>6. \A k : Calm(i, k) => Calm(i, k)'
      BY <2>1, <2>3 DEF Calm
    <2>7. Running(i)' = Running(i)
      BY <2>1 DEF Running
    <2>8. Orderly(i)'
      BY <2>4, <2>5, <2>7 DEF Orderly, CircleInv
    <2> QED
      BY <2>1, <2>2, <2>6, <2>7, <2>8, OneMoves
  <1> QED
    BY <1>1, <1>2

(* What is taken or queued at a party is addressed to it. *)
LEMMA TookFacts ==
  ASSUME EchoInv, NEW i \in Parties
  PROVE  /\ Took(i) \subseteq MsgsAt(i) /\ Range(queue[i]) \subseteq MsgsAt(i)
         /\ \A m \in MsgsAt(i) : /\ m.sender \in Parties /\ m.round \in Rounds /\ m.round \in Nat
                                 /\ m = Msg(m.sender, m.round, i)
         /\ \A s \in Parties, k \in Rounds : Msg(s, k, i).sender = s /\ Msg(s, k, i).round = k
         /\ queue[i] \in Seq(Messages) /\ Len(queue[i]) \in Nat
         /\ DOMAIN queue[i] = 1 .. Len(queue[i])
         /\ \A x \in DOMAIN queue[i] : queue[i][x] \in MsgsAt(i)
  <1>1. Took(i) \subseteq MsgsAt(i) /\ Range(queue[i]) \subseteq MsgsAt(i) /\ queue[i] \in Seq(Messages)
    BY DEF EchoInv, Addressed, Took, TypeOK
  <1>2. \A m \in MsgsAt(i) : /\ m.sender \in Parties /\ m.round \in Rounds
                             /\ m = Msg(m.sender, m.round, i)
    BY MsgFields, MsgIs
  <1>3. Rounds \subseteq Nat
    BY RAssumption DEF Rounds
  <1>4. \A x \in DOMAIN queue[i] : queue[i][x] \in MsgsAt(i)
    BY <1>1 DEF Range
  <1>5. Len(queue[i]) \in Nat /\ DOMAIN queue[i] = 1 .. Len(queue[i])
    BY <1>1
  <1>6. \A s \in Parties, k \in Rounds : Msg(s, k, i).sender = s /\ Msg(s, k, i).round = k
    BY MsgIs
  <1>7. \A m \in MsgsAt(i) : m.round \in Nat
    BY <1>2, <1>3
  <1> QED
    BY <1>1, <1>2, <1>4, <1>5, <1>6, <1>7

(* A message joins the queue. *)
LEMMA AppendOrderly ==
  ASSUME EchoInv, NEW i \in Parties, Orderly(i), Running(i),
         NEW m \in MsgsAt(i), m \notin Took(i),
         queue'[i] = Append(queue[i], m), batch'[i] = batch[i], verified'[i] = verified[i],
         r'[i] = r[i], acks' = acks, received[i] \subseteq received'[i],
         round[i] <= round'[i], round'[i] \in Nat,
         m.sender = i => \A s \in Parties, k \in Rounds : k < m.round =>
                            Msg(s, k, i) \in Took(i) \cup Range(queue[i]),
         \A s \in Parties, k \in Rounds :
            (IF s = i THEN k <= round'[i] ELSE <<s, k>> \in received'[i])
                => \/ Msg(s, k, i) = m
                   \/ IF s = i THEN k <= round[i] ELSE <<s, k>> \in received[i]
  PROVE  Orderly(i)' /\ \A k \in Rounds : Calm(i, k) => Calm(i, k)'
  <1>1. Took(i)' = Took(i) /\ Batches(i)' = Batches(i)
    BY DEF Took, Batches
  <1>2. PICK q, l, p : q = queue[i] /\ l = Len(q) /\ p = Append(q, m)
    OBVIOUS
  <1>3. /\ q \in Seq(Messages) /\ m \in Messages /\ queue[i] = q /\ queue'[i] = p
        /\ round[i] \in Nat
    BY <1>2, TookFacts, MsgsAtMessages DEF EchoInv, TypeOK
  <1>4. /\ l \in Nat /\ DOMAIN q = 1 .. l /\ DOMAIN p = 1 .. l + 1
        /\ \A x \in 1 .. l : x \in 1 .. l + 1 /\ p[x] = q[x]
        /\ l + 1 \in 1 .. l + 1 /\ p[l + 1] = m
        /\ \A x \in 1 .. l + 1 : x \in 1 .. l \/ x = l + 1
    BY <1>2, <1>3, AppendFacts
  <1>5. Taken(i) /\ Tally(i) /\ Kept(i) /\ Behind(i)
    BY DEF Orderly
  <1>6. Taken(i)'
    <2>1. \A n \in Took(i) : n.round <= round[i] => n.round <= round'[i]
      <3>1. \A n \in Took(i) : n.round \in Nat
        BY TookFacts
      <3> QED
        BY <3>1, <1>3
    <2> QED
      BY <1>1, <1>5, <2>1 DEF Taken, Answered, Msg
  <1>7. Tally(i)'
    BY <1>1, <1>5 DEF Tally
  <1>8. Range(q) \subseteq Range(p) /\ m \in Range(p)
    BY <1>4 DEF Range
  <1>9. \A s \in Parties, k \in Rounds :
           (IF s = i THEN k <= round'[i] ELSE <<s, k>> \in received'[i])
               => Msg(s, k, i) \in Took(i) \cup Range(p)
    BY <1>3, <1>5, <1>8 DEF Kept
  <1>10. Kept(i)'
    BY <1>1, <1>3, <1>9 DEF Kept, Msg
  <1>11. ASSUME NEW x \in 1 .. l + 1
         PROVE  /\ p[x] \notin Took(i)
                /\ p[x].sender = i =>
                      \A s \in Parties, k \in Rounds : k < p[x].round =>
                          Msg(s, k, i) \in Took(i) \/ \E y \in 1 .. x - 1 : p[y] = Msg(s, k, i)
    <2>1. CASE x \in 1 .. l
      <3>1. /\ q[x] \notin Took(i)
            /\ q[x].sender = i =>
                  \A s \in Parties, k \in Rounds : k < q[x].round =>
                      Msg(s, k, i) \in Took(i) \/ \E y \in 1 .. x - 1 : q[y] = Msg(s, k, i)
        <4>1. x \in DOMAIN queue[i] /\ queue[i][x] = q[x]
          BY <1>3, <1>4, <2>1
        <4>2. queue[i] = q
          BY <1>3
        <4> QED
          BY <1>5, <4>1, <4>2, SMTT(60) DEF Behind
      <3>2. \A y \in 1 .. x - 1 : p[y] = q[y]
        BY <1>4, <2>1
      <3> QED
        BY <1>4, <2>1, <3>1, <3>2
    <2>2. CASE x = l + 1
      <3>1. p[x] = m /\ 1 .. x - 1 = 1 .. l
        BY <1>4, <2>2
      <3>2. \A n \in Range(q) : \E y \in 1 .. l : p[y] = n
        BY <1>4 DEF Range
      <3> QED
        BY <1>3, <3>1, <3>2
    <2> QED
      BY <1>4, <2>1, <2>2
  <1>12. Behind(i)'
    <2>1. DOMAIN queue'[i] = 1 .. l + 1 /\ queue'[i] = p
      BY <1>3, <1>4
    <2> QED
      BY <1>1, <1>11, <2>1 DEF Behind, Msg
  <1>13. ASSUME NEW k \in Rounds, Calm(i, k) PROVE Calm(i, k)'
    BY <1>1, <1>3, <1>4, <1>13 DEF Calm
  <1> QED
    BY <1>6, <1>7, <1>10, <1>12, <1>13 DEF Orderly

(* A message arrives. *)
LEMMA DeliverCircle ==
  ASSUME EchoInv, CircleInv, NEW i \in Parties, NEW s \in Parties, NEW k \in Rounds,
         Deliver(i, s, k)
  PROVE  CircleInv'
  <1>1. TypeOK /\ Running(i) /\ Orderly(i) /\ s # i /\ <<s, k>> \notin received[i]
    BY DEF EchoInv, CircleInv, Deliver
  <1>2. CASE End(i, "panicked")
    BY <1>1, <1>2, EndCircle DEF Ended
  <1>3. CASE ~End(i, "panicked")
    <2>1. /\ received' = [received EXCEPT ![i] = @ \cup {<<s, k>>}]
          /\ queue' = [queue EXCEPT ![i] = Append(@, Msg(s, k, i))]
          /\ UNCHANGED <<round, batch, r, acks, verified, status>>
      BY <1>3 DEF Deliver
    <2>2. PICK m : m = Msg(s, k, i)
      OBVIOUS
    <2>3. /\ m \in MsgsAt(i) /\ m.sender = s /\ m.round = k
      BY <2>2, MsgAddressed, MsgIs
    <2>4. /\ received'[i] = received[i] \cup {<<s, k>>} /\ queue'[i] = Append(queue[i], m)
          /\ round[i] \in Nat
          /\ \A j \in Parties \ {i} : received'[j] = received[j] /\ queue'[j] = queue[j]
      BY <1>1, <2>1, <2>2 DEF TypeOK
    <2>5. m \notin Took(i)
      BY <1>1, <2>3 DEF Orderly, Taken
    <2>6. \A t \in Parties, n \in Rounds :
             (IF t = i THEN n <= round'[i] ELSE <<t, n>> \in received'[i])
                => \/ Msg(t, n, i) = m
                   \/ IF t = i THEN n <= round[i] ELSE <<t, n>> \in received[i]
      BY <2>1, <2>2, <2>4
    <2>7. received[i] \subseteq received'[i] /\ round[i] <= round'[i] /\ round'[i] \in Nat
      BY <2>1, <2>4
    <2>8. Orderly(i)' /\ \A n \in Rounds : Calm(i, n) => Calm(i, n)'
      BY <1>1, <2>1, <2>3, <2>4, <2>5, <2>6, <2>7, AppendOrderly
    <2>9. Running(i)' = Running(i)
      BY <2>1 DEF Running
    <2> QED
      BY <2>1, <2>4, <2>8, <2>9, <1>1, OneMoves
  <1> QED
    BY <1>2, <1>3

(* A round begins: of those who begin it, the first has seen no message of   *)
(* it and so has only messages of rounds before.                            *)
LEMMA BroadcastCircle ==
  ASSUME EchoInv, EchoInv', RoundsInv, CircleInv, NEW i \in Parties, Broadcast(i)
  PROVE  CircleInv'
  <1>1. TypeOK /\ TypeOK' /\ Running(i) /\ Orderly(i) /\ Sound(i)
    BY DEF EchoInv, CircleInv, RoundsInv, Broadcast
  <1>2. CASE End(i, "panicked")
    BY <1>1, <1>2, EndCircle DEF Ended
  <1>3. CASE ~End(i, "panicked")
    <2>1. PICK k, m : k = round[i] + 1 /\ m = Msg(i, k, i)
      OBVIOUS
    <2>2. /\ round[i] < R /\ (round[i] > 0 => HasRound(i, round[i]))
          /\ round' = [round EXCEPT ![i] = k]
          /\ queue' = [queue EXCEPT ![i] = Append(queue[i], m)]
          /\ UNCHANGED <<received, batch, r, acks, verified, status>>
      BY <1>1, <1>3, <2>1 DEF Broadcast, TypeOK
    <2>3. /\ round[i] \in Nat /\ k \in Nat /\ k \in Rounds /\ Rounds = 1 .. R /\ R \in Nat
          /\ round'[i] = k /\ queue'[i] = Append(queue[i], m)
          /\ \A j \in Parties \ {i} : round'[j] = round[j] /\ queue'[j] = queue[j]
          /\ \A j \in Parties : round[j] \in Nat
      BY <1>1, <2>1, <2>2, RAssumption DEF TypeOK, Rounds
    <2>4. m \in MsgsAt(i) /\ m.sender = i /\ m.round = k
      BY <2>1, <2>3, MsgAddressed, MsgIs
    <2>5. /\ Taken(i) /\ Kept(i) /\ Received(i) /\ Queued(i) /\ Counted(i)
      BY <1>1 DEF Orderly, Sound
    <2>6. m \notin Took(i)
      <3>1. m \in Took(i) => k <= round[i]
        BY <2>4, <2>5 DEF Taken
      <3>2. ~(k <= round[i])
        BY <2>1, <2>3
      <3> QED
        BY <3>1, <3>2
    <2>7. ASSUME NEW s \in Parties, NEW n \in Rounds, n < k
          PROVE  Msg(s, n, i) \in Took(i) \cup Range(queue[i])
      <3>1. n <= round[i] /\ n \in Nat /\ n > 0
        BY <2>1, <2>3, <2>7
      <3>2. CASE s = i
        BY <2>5, <3>1, <3>2 DEF Kept
      <3>3. CASE s # i
        <4>1. HasRound(i, n)
          BY <2>2, <2>3, <2>5, <3>1 DEF Received
        <4> QED
          BY <2>5, <3>3, <4>1 DEF Kept, HasRound
      <3> QED
        BY <3>2, <3>3
    <2>8. \A s \in Parties, n \in Rounds :
             (IF s = i THEN n <= round'[i] ELSE <<s, n>> \in received'[i])
                => \/ Msg(s, n, i) = m
                   \/ IF s = i THEN n <= round[i] ELSE <<s, n>> \in received[i]
      BY <2>1, <2>2, <2>3
    <2>9. received[i] \subseteq received'[i] /\ round[i] <= round'[i] /\ round'[i] \in Nat
      BY <2>1, <2>2, <2>3
    <2>10. Orderly(i)' /\ \A n \in Rounds : Calm(i, n) => Calm(i, n)'
      BY <1>1, <2>2, <2>3, <2>4, <2>6, <2>7, <2>8, <2>9, AppendOrderly
    <2>11. \A j \in Parties : Running(j)' = Running(j)
      BY <2>2 DEF Running
    <2>12. ASSUME NEW j \in Parties \ {i}
           PROVE  Orderly(j)' /\ \A n : Calm(j, n) => Calm(j, n)'
      <3>1. /\ acks \subseteq acks' /\ round'[j] = round[j] /\ received'[j] = received[j]
            /\ queue'[j] = queue[j] /\ batch'[j] = batch[j] /\ verified'[j] = verified[j]
            /\ r'[j] = r[j]
        BY <2>2, <2>3
      <3> QED
        BY <2>11, <3>1, OrderlyKept DEF CircleInv
    <2>13. ASSUME NEW n \in Rounds, NEW j \in Parties, round'[j] > n
           PROVE  \E x \in Parties : round'[x] > n /\ (Running(x)' => Calm(x, n)')
      <3>1. CASE \E x \in Parties : round[x] > n
        <4>1. PICK x \in Parties : round[x] > n /\ (Running(x) => Calm(x, n))
          BY <3>1 DEF CircleInv, Firsts
        <4>2. round'[x] > n
          <5>1. n \in Nat /\ round[x] \in Nat /\ (x = i \/ round'[x] = round[x])
            BY <2>3
          <5>2. k > round[i]
            BY <2>1, <2>3
          <5> QED
            BY <2>3, <4>1, <5>1, <5>2
        <4>3. Running(x)' => Calm(x, n)'
          BY <2>10, <2>11, <2>12, <4>1
        <4> QED
          BY <4>2, <4>3
      <3>2. CASE ~\E x \in Parties : round[x] > n
        <4>1. n \in Nat /\ n >= 1 /\ \A x \in Parties : round[x] <= n
          BY <2>3, <3>2
        <4>2. j = i /\ n = round[i] /\ round'[i] > n
          BY <2>1, <2>3, <2>13, <4>1
        <4>3. \A m2 \in MsgsAt(i) :
                 \/ m2.sender # i /\ <<m2.sender, m2.round>> \in received[i]
                 \/ m2.sender = i /\ m2.round <= round[i]
                 => m2.round <= n
          <5>1. \A m2 \in MsgsAt(i) : m2.sender \in Parties /\ m2.round \in Rounds /\ m2.round \in Nat
            BY TookFacts
          <5>2. \A m2 \in MsgsAt(i) :
                   <<m2.sender, m2.round>> \in received[i] => m2.round <= round[m2.sender]
            BY <5>1, <2>5 DEF Received
          <5> QED
            BY <5>1, <5>2, <4>1, <4>2, <2>3
        <4>4. \A m2 \in Took(i) : m2.round <= n
          BY <4>3, <2>5, TookFacts DEF Taken
        <4>5. \A x \in DOMAIN queue[i] : queue[i][x].round <= n
          BY <4>3, <2>5, TookFacts DEF Queued
        <4>6. PICK b, l, c : b = Batches(i) /\ l = Len(queue[i]) /\ c = Cardinality(received[i])
          OBVIOUS
        <4>7. b \in Nat /\ l \in Nat /\ DOMAIN queue[i] = 1 .. l
          <5>1. r[i] \in Nat
            BY <1>1 DEF TypeOK
          <5> QED
            BY <4>6, <5>1, TookFacts DEF Batches
        <4>8. N * b + l = n + c
          BY <2>5, <4>2, <4>6 DEF Counted
        <4>9. N * n <= n + c /\ c \in Nat
          <5>1. round[i] >= 1 => HasRound(i, round[i])
            BY <2>2, <2>3
          <5> QED
            BY <1>1, <4>2, <4>6, <5>1, ReceivedCount
        <4>10. N * (n - b) <= l /\ N * (n - b) \in Int
          <5>1. N \in Nat /\ N * (n - b) = N * n - N * b /\ N * n \in Int /\ N * b \in Int
            BY <4>1, <4>7, NAssumption
          <5>2. PICK y, z, w : y = N * n /\ z = N * b /\ w = N * (n - b)
            OBVIOUS
          <5>3. y \in Int /\ z \in Int /\ w = y - z /\ z + l = n + c /\ y <= n + c
            BY <4>8, <4>9, <5>1, <5>2
          <5>4. w <= l /\ w \in Int
            BY <5>3, <4>1, <4>7, <4>9
          <5> QED
            BY <5>2, <5>4
        <4>11. Calm(i, n)
          <5>1. \A x \in 1 .. N * (n - b) : x \in 1 .. l
            BY <4>7, <4>10
          <5> QED
            BY <4>4, <4>5, <4>6, <4>7, <5>1 DEF Calm
        <4> QED
          BY <2>10, <4>2, <4>11
      <3> QED
        BY <3>1, <3>2
    <2>14. Firsts'
      BY <2>13 DEF Firsts
    <2> QED
      BY <2>10, <2>12, <2>14 DEF CircleInv
  <1> QED
    BY <1>2, <1>3

(* The first n messages are taken. *)
LEMMA CollectCircle ==
  ASSUME EchoInv, RoundsInv, CircleInv, NEW i \in Parties, Collect(i) PROVE CircleInv'
  <1>1. TypeOK /\ BatchFull(i) /\ Sound(i) /\ Orderly(i)
    BY DEF EchoInv, Collect, RoundsInv, CircleInv
  <1>2. CASE End(i, "panicked")
    BY <1>1, <1>2, EndCircle DEF Ended
  <1>3. CASE ~End(i, "panicked")
    <2>1. PICK q, l, b : q = queue[i] /\ l = Len(q) /\ b = Batches(i)
      OBVIOUS
    <2>2. PICK h, t : h = Range(SubSeq(q, 1, N)) /\ t = SubSeq(q, N + 1, l)
      OBVIOUS
    <2>3. /\ batch' = [batch EXCEPT ![i] = h] /\ queue' = [queue EXCEPT ![i] = t]
          /\ acks' = acks \cup Respond(i, h, "ok", h)
          /\ UNCHANGED <<round, received, r, verified, status>>
      BY <1>1, <1>3, <2>1, <2>2 DEF Collect, TypeOK
    <2>4. /\ Running(i) /\ batch[i] = {} /\ l >= N /\ q \in Seq(Messages)
          /\ r[i] \in Nat /\ N \in Nat /\ N >= 2 /\ b = r[i] /\ b \in Nat
          /\ Queued(i) /\ IsInjective(q) /\ Taken(i) /\ Tally(i) /\ Kept(i) /\ Behind(i)
      BY <1>1, <2>1, NAssumption DEF BatchFull, TypeOK, Sound, Queued, Orderly, Batches
    <2>5. /\ h = {q[x] : x \in 1 .. N} /\ Cardinality(h) = N /\ h # {}
          /\ 1 .. N \subseteq DOMAIN q /\ l \in Nat /\ DOMAIN q = 1 .. l
          /\ DOMAIN t = 1 .. l - N
      <3>1. q \in Seq(Messages) /\ IsInjective(q) /\ l = Len(q) /\ l >= N
        BY <2>1, <2>4
      <3>2. h = Range(SubSeq(q, 1, N)) /\ t = SubSeq(q, N + 1, l)
        BY <2>2
      <3> QED
        BY <3>1, <3>2, CutFacts
    <2>6. \A x \in 1 .. l - N : t[x] = q[N + x] /\ N + x \in DOMAIN q
      BY <2>1, <2>2, <2>4, CutRest
    <2>7. /\ round'[i] = round[i] /\ queue'[i] = t /\ batch'[i] = h /\ verified'[i] = verified[i]
          /\ r'[i] = r[i] /\ received'[i] = received[i] /\ status'[i] = status[i]
          /\ \A j \in Parties \ {i} : batch'[j] = batch[j] /\ queue'[j] = queue[j]
      BY <1>1, <2>3 DEF TypeOK
    <2>8. Took(i)' = h \cup Took(i) /\ Batches(i)' = b + 1 /\ Running(i)'
      <3>1. Took(i) = verified[i] /\ Took(i)' = h \cup verified[i]
        BY <2>4, <2>7 DEF Took
      <3>2. Batches(i)' = r[i] + 1
        BY <2>5, <2>7 DEF Batches
      <3> QED
        BY <2>4, <2>7, <3>1, <3>2 DEF Running
    <2>9. \A x \in 1 .. l :
             /\ q[x] \in MsgsAt(i) /\ q[x] \notin Took(i)
             /\ q[x].sender # i => <<q[x].sender, q[x].round>> \in received[i]
             /\ q[x].sender = i =>
                   /\ q[x].round <= round[i]
                   /\ \A s \in Parties, n \in Rounds : n < q[x].round =>
                         Msg(s, n, i) \in Took(i) \/ \E y \in 1 .. x - 1 : q[y] = Msg(s, n, i)
      <3>1. \A x \in 1 .. l : q[x] \in MsgsAt(i)
        BY <2>1, <2>5, TookFacts
      <3>2. \A x \in 1 .. l : /\ q[x].sender # i => <<q[x].sender, q[x].round>> \in received[i]
                              /\ q[x].sender = i => q[x].round <= round[i]
        BY <2>1, <2>4, <2>5 DEF Queued
      <3> QED
        BY <2>1, <2>4, <2>5, <3>1, <3>2 DEF Behind
    <2>10. \A s, n : Answered(s, n, i) => Answered(s, n, i)'
      BY <2>3 DEF Answered
    <2>11. \A m \in h : m.sender # i => Answered(m.sender, m.round, i)'
      <3> SUFFICES ASSUME NEW m \in h, m.sender # i, ~Answered(m.sender, m.round, i)
                   PROVE  Answered(m.sender, m.round, i)'
        BY <2>10
      <3>1. PICK a : a = [to |-> m.sender, round |-> m.round, from |-> i, ok |-> "ok", hash |-> h]
        OBVIOUS
      <3>2. a \in acks'
        BY <2>3, <3>1 DEF Respond
      <3> QED
        BY <3>1, <3>2 DEF Answered
    <2>12. Taken(i)'
      <3>1. ASSUME NEW m \in h \cup Took(i)
            PROVE  /\ m.sender # i => <<m.sender, m.round>> \in received[i] /\ Answered(m.sender, m.round, i)'
                   /\ m.sender = i => /\ m.round <= round[i]
                                      /\ \A s \in Parties, n \in Rounds :
                                            n < m.round => Msg(s, n, i) \in h \cup Took(i)
        <4>1. CASE m \in Took(i)
          BY <2>4, <2>10, <4>1 DEF Taken
        <4>2. CASE m \in h
          <5>1. PICK x \in 1 .. N : m = q[x]
            BY <2>5, <4>2
          <5>2. x \in 1 .. l /\ \A y \in 1 .. x - 1 : y \in 1 .. N
            BY <2>4, <2>5
          <5>3. \A y \in 1 .. x - 1 : q[y] \in h
            BY <2>5, <5>2
          <5>4. m.sender # i => <<m.sender, m.round>> \in received[i] /\ Answered(m.sender, m.round, i)'
            BY <2>9, <2>11, <4>2, <5>1, <5>2
          <5> QED
            BY <2>9, <5>1, <5>2, <5>3, <5>4
        <4> QED
          BY <3>1, <4>1, <4>2
      <3> QED
        BY <2>7, <2>8, <3>1 DEF Taken, Msg
    <2>13. Tally(i)'
      <3>1. IsFiniteSet(h)
        <4>1. IsFiniteSet(1 .. N)
          BY <2>4, FS_Interval
        <4>2. PICK f : f = [x \in 1 .. N |-> q[x]]
          OBVIOUS
        <4>3. f \in Surjection(1 .. N, h)
          BY <2>5, <4>2 DEF Surjection
        <4> QED
          BY <4>1, <4>3, FS_Surjection
      <3>2. h \cap Took(i) = {}
        BY <2>5, <2>9
      <3>3. IsFiniteSet(Took(i)) /\ Cardinality(Took(i)) = N * b
        BY <2>1, <2>4 DEF Tally
      <3>4. /\ IsFiniteSet(h \cup Took(i))
            /\ Cardinality(h \cup Took(i)) = N + N * b - 0
        BY <2>5, <3>1, <3>2, <3>3, FS_Union, FS_EmptySet, SMTT(60)
      <3>5. N + N * b - 0 = N * (b + 1)
        BY <2>4
      <3> QED
        BY <2>8, <3>4, <3>5 DEF Tally
    <2>14. \A y \in 1 .. l : q[y] \in h \/ (y - N \in 1 .. l - N /\ t[y - N] = q[y])
      <3> SUFFICES ASSUME NEW y \in 1 .. l, y \notin 1 .. N
                   PROVE  y - N \in 1 .. l - N /\ t[y - N] = q[y]
        BY <2>5
      <3>1. y - N \in 1 .. l - N /\ N + (y - N) = y
        BY <2>4, <2>5
      <3> QED
        BY <2>6, <3>1
    <2>15. Kept(i)'
      <3>1. Range(q) \subseteq h \cup Range(t)
        BY <2>5, <2>14 DEF Range
      <3>2. Took(i) \cup Range(q) \subseteq (h \cup Took(i)) \cup Range(t)
        BY <3>1
      <3> QED
        BY <2>1, <2>4, <2>7, <2>8, <3>2 DEF Kept, Msg
    <2>16. Behind(i)'
      <3>1. ASSUME NEW x \in 1 .. l - N
            PROVE  /\ t[x] \notin h \cup Took(i)
                   /\ t[x].sender = i =>
                         \A s \in Parties, n \in Rounds : n < t[x].round =>
                             \/ Msg(s, n, i) \in h \cup Took(i)
                             \/ \E y \in 1 .. x - 1 : t[y] = Msg(s, n, i)
        <4>1. t[x] = q[N + x] /\ N + x \in 1 .. l /\ N + x \notin 1 .. N
          BY <2>4, <2>5, <2>6
        <4>2. t[x] \notin h
          BY <2>4, <2>5, <4>1 DEF IsInjective
        <4>3. ASSUME NEW s \in Parties, NEW n \in Rounds, t[x].sender = i, n < t[x].round,
                     Msg(s, n, i) \notin h \cup Took(i)
              PROVE  \E y \in 1 .. x - 1 : t[y] = Msg(s, n, i)
          <5>1. PICK y \in 1 .. (N + x) - 1 : q[y] = Msg(s, n, i)
            BY <2>9, <4>1, <4>3
          <5>2. y \in 1 .. l
            BY <4>1, <5>1, <2>4, <2>5
          <5>3. y - N \in 1 .. l - N /\ t[y - N] = Msg(s, n, i)
            BY <2>14, <4>3, <5>1, <5>2
          <5>4. y - N \in 1 .. x - 1
            BY <2>4, <5>1, <5>3
          <5> QED
            BY <5>3, <5>4
        <4> QED
          BY <2>9, <4>1, <4>2, <4>3
      <3> QED
        BY <2>5, <2>7, <2>8, <3>1 DEF Behind, Msg
    <2>17. ASSUME NEW n \in Rounds, Calm(i, n) PROVE Calm(i, n)'
      <3> SUFFICES ASSUME b + 1 <= n
                   PROVE  /\ \A m \in h \cup Took(i) : m.round <= n
                          /\ \A x \in 1 .. N * (n - (b + 1)) : x \in 1 .. l - N /\ t[x].round <= n
        BY <2>5, <2>7, <2>8 DEF Calm
      <3>1. n \in Nat /\ b <= n
        BY <2>4, RAssumption DEF Rounds
      <3>2. /\ \A m \in Took(i) : m.round <= n
            /\ \A x \in 1 .. N * (n - b) : x \in 1 .. l /\ q[x].round <= n
        BY <2>1, <2>5, <2>17, <3>1 DEF Calm
      <3>3. PICK z : z = N * (n - (b + 1))
        OBVIOUS
      <3>4. z \in Int /\ z >= 0 /\ N * (n - b) = z + N
        <4>1. n - (b + 1) \in Nat /\ n - b = (n - (b + 1)) + 1
          BY <2>4, <3>1
        <4>2. N * (n - (b + 1)) \in Nat
          BY <2>4, <4>1
        <4>3. N * ((n - (b + 1)) + 1) = N * (n - (b + 1)) + N
          BY <4>1, Multiples
        <4> QED
          BY <3>3, <4>1, <4>2, <4>3
      <3>5. \A x \in 1 .. N : x \in 1 .. N * (n - b)
        BY <2>4, <3>4
      <3>6. \A m \in h : m.round <= n
        BY <2>5, <3>2, <3>5
      <3>7. ASSUME NEW x \in 1 .. z PROVE x \in 1 .. l - N /\ t[x].round <= n
        <4>1. N + x \in 1 .. N * (n - b)
          BY <2>4, <3>4
        <4>2. N + x \in 1 .. l /\ q[N + x].round <= n
          BY <3>2, <4>1
        <4>3. x \in 1 .. l - N
          BY <2>4, <2>5, <3>4, <4>2
        <4> QED
          BY <2>6, <4>2, <4>3
      <3> QED
        BY <3>2, <3>3, <3>6, <3>7
    <2>18. Orderly(i)'
      BY <2>12, <2>13, <2>15, <2>16 DEF Orderly
    <2> QED
      BY <2>3, <2>4, <2>7, <2>17, <2>18, OneMoves
  <1> QED
    BY <1>2, <1>3

(* Nothing is taken yet. *)
LEMMA InitCircle == Init => CircleInv
  <1> SUFFICES ASSUME Init PROVE CircleInv
    OBVIOUS
  <1>1. N \in Nat /\ R \in Nat /\ Rounds = 1 .. R
    BY NAssumption, RAssumption DEF Rounds
  <1>2. Firsts
    BY <1>1 DEF Init, Firsts
  <1>3. ASSUME NEW i \in Parties PROVE Orderly(i)
    <2>1. /\ Took(i) = {} /\ queue[i] = <<>> /\ round[i] = 0 /\ received[i] = {} /\ Batches(i) = 0
      BY DEF Init, Took, Batches
    <2>2. Taken(i)
      BY <2>1 DEF Taken
    <2>3. Tally(i)
      <3>1. N * 0 = 0
        BY <1>1
      <3> QED
        BY <2>1, <3>1, FS_EmptySet DEF Tally
    <2>4. Kept(i)
      <3>1. \A k \in Rounds : ~(k <= 0)
        BY <1>1
      <3> QED
        BY <2>1, <3>1 DEF Kept
    <2>5. Behind(i)
      <3>1. DOMAIN queue[i] = {}
        BY <2>1
      <3> QED
        BY <3>1 DEF Behind
    <2> QED
      BY <2>2, <2>3, <2>4, <2>5 DEF Orderly
  <1> QED
    BY <1>2, <1>3 DEF CircleInv

(* Every step of agents, executions and gadgets. *)
LEMMA NextCircle == EchoInv /\ EchoInv' /\ RoundsInv /\ CircleInv /\ [Next]_vars => CircleInv'
  <1> SUFFICES ASSUME EchoInv, EchoInv', RoundsInv, CircleInv, [Next]_vars PROVE CircleInv'
    OBVIOUS
  <1>1. TypeOK
    BY DEF EchoInv
  <1>2. CASE UNCHANGED vars \/ Terminated
    BY <1>2, ResponseCircle DEF vars, Terminated
  <1>3. ASSUME NEW i \in Parties, Broadcast(i) PROVE CircleInv'
    BY <1>3, BroadcastCircle
  <1>4. ASSUME NEW i \in Parties, Collect(i) PROVE CircleInv'
    BY <1>4, CollectCircle
  <1>5. ASSUME NEW i \in Parties, Verify(i) PROVE CircleInv'
    BY <1>1, <1>5, VerifyCircle
  <1>6. ASSUME NEW i \in Parties, Finish(i) PROVE CircleInv'
    BY <1>1, <1>6, EndCircle DEF Finish, Ended
  <1>7. ASSUME NEW i \in Parties, NEW s \in Parties, NEW k \in Rounds, Deliver(i, s, k)
        PROVE  CircleInv'
    BY <1>7, DeliverCircle
  <1>8. ASSUME NEW i \in Parties, NEW s \in Parties, NEW k \in Rounds,
               RequestFails(i, s, k) \/ \E ok \in {"ok", "refused"} : DeliverLate(i, s, k, ok)
        PROVE  CircleInv'
    BY <1>8, ResponseCircle DEF RequestFails, DeliverLate
  <1> QED
    BY <1>2, <1>3, <1>4, <1>5, <1>6, <1>7, <1>8 DEF Next

(* What the theorems on circles follow from. *)
LEMMA CircleInvHolds == Spec => []CircleInv
  BY InitCircle, NextCircle, RoundsInvHolds, EchoInvInductive, PTL DEF Spec

(* A gadget that lacks what another one in its echo round waits for has     *)
(* taken a message of a later round in its place.                           *)
LEMMA LackingIsPremature ==
  ASSUME EchoInv, NEW j \in Parties, Orderly(j), Running(j), batch[j] # {},
         NEW i \in Parties, NEW k, k = r[j] + 1, k \in Rounds, Msg(i, k, j) \notin Took(j)
  PROVE  Premature(j)
  <1> SUFFICES ASSUME ~Premature(j) PROVE FALSE
    OBVIOUS
  <1>1. PICK G, g : G = Parties \X (1 .. k) /\ g = [m \in Took(j) |-> <<m.sender, m.round>>]
    OBVIOUS
  <1>2. r[j] \in Nat /\ k \in Nat /\ k >= 1 /\ N \in Nat /\ N >= 2
    BY NAssumption DEF EchoInv, TypeOK
  <1>3. IsFiniteSet(G) /\ Cardinality(G) = N * k
    <2>1. IsFiniteSet(Parties) /\ Cardinality(Parties) = N
      BY NAssumption, FS_Interval DEF Parties
    <2>2. IsFiniteSet(1 .. k) /\ Cardinality(1 .. k) = k
      BY <1>2, FS_Interval
    <2> QED
      BY <1>1, <2>1, <2>2, FS_Product
  <1>4. IsFiniteSet(Took(j)) /\ Cardinality(Took(j)) = N * k
    BY <1>2 DEF Orderly, Tally, Batches
  <1>5. \A m \in Took(j) : /\ m.sender \in Parties /\ m.round \in 1 .. k
                           /\ m = Msg(m.sender, m.round, j)
    <2>1. \A m \in Took(j) : /\ m.sender \in Parties /\ m.round \in Rounds
                             /\ m = Msg(m.sender, m.round, j)
      BY TookFacts
    <2>2. \A m \in Took(j) : ~(m.round > k)
      BY DEF Premature, Took
    <2> QED
      BY <1>2, <2>1, <2>2 DEF Rounds
  <1>6. g \in Injection(Took(j), G)
    BY <1>1, <1>5 DEF Injection, IsInjective
  <1>7. g \in Surjection(Took(j), G)
    BY <1>3, <1>4, <1>6, FS_Injection
  <1>8. PICK m \in Took(j) : g[m] = <<i, k>>
    <2>1. <<i, k>> \in G
      BY <1>1, <1>2
    <2> QED
      BY <1>7, <2>1 DEF Surjection
  <1>9. m = Msg(i, k, j)
    BY <1>1, <1>5, <1>8
  <1> QED
    BY <1>8, <1>9

(* However many gadgets wait for each other, they are not two: the one that  *)
(* is furthest behind waits for another that is as far and has taken a       *)
(* message of the next round instead, and so does that one; but whoever      *)
(* broadcast in that round first has taken none (echo.rs:57-118).            *)
THEOREM CirclesTakeThree == Spec => []CircleTakesThree
  <1>1. EchoInv /\ RoundsInv /\ CircleInv => CircleTakesThree
    <2> SUFFICES ASSUME EchoInv, RoundsInv, CircleInv,
                        \A i \in Parties : Running(i) /\ batch[i] # {} /\ ~Acknowledged(i)
                 PROVE  \E i, j, k \in Parties :
                           /\ i # j /\ r[i] = r[j] /\ Premature(i) /\ Premature(j)
                           /\ r[k] > r[i] \/ (r[k] = r[i] /\ ~Premature(k))
      BY DEF CircleTakesThree
    <2>1. \A i \in Parties : /\ r[i] \in Nat /\ Orderly(i) /\ Taken(i) /\ Sound(i)
                             /\ batch[i] \subseteq MsgsAt(i)
      BY DEF EchoInv, TypeOK, Addressed, CircleInv, Orderly, RoundsInv
    <2>2. PICK a \in Parties : \A i \in Parties : r[a] <= r[i]
      <3>1. IsWellFoundedOn(OpToRel(<, Nat), Nat)
        BY NatLessThanWellFounded
      <3>2. PICK S : S = {r[i] : i \in Parties}
        OBVIOUS
      <3>3. S \subseteq Nat /\ S # {}
        <4>1. 1 \in Parties
          BY NAssumption DEF Parties
        <4> QED
          BY <2>1, <3>2, <4>1
      <3>4. PICK x \in S : \A y \in S : ~(<<y, x>> \in OpToRel(<, Nat))
        BY <3>1, <3>3, WFMin
      <3>5. \A y \in S : ~(y < x)
        BY <3>3, <3>4 DEF OpToRel
      <3> QED
        BY <2>1, <3>2, <3>5
    (* Whom one of those furthest behind waits for. *)
    <2>3. ASSUME NEW i \in Parties, r[i] = r[a]
          PROVE  \E j \in Parties : j # i /\ r[j] = r[a] /\ Premature(j)
      <3>1. PICK k : k = r[i] + 1
        OBVIOUS
      <3>2. /\ Msg(i, k, i) \in batch[i] /\ OwnIn(i, batch[i]) = {Msg(i, k, i)}
        BY <2>1, <3>1 DEF Sound, Whole, OwnIn
      <3>3. k \in Rounds
        <4>1. PICK n : n = Msg(i, k, i)
          OBVIOUS
        <4>2. n.round = k /\ n \in MsgsAt(i)
          BY <2>1, <3>2, <4>1 DEF Msg
        <4> QED
          BY <4>2, MsgFields
      <3>4. Msg(i, k, i).round = k
        BY <3>3, MsgIs
      <3>5. PICK j \in Parties \ {i} : ~Answered(i, k, j)
        BY <3>2, <3>4 DEF Acknowledged
      <3>6. Msg(i, k, j) \notin Took(j)
        <4>1. Msg(i, k, j).sender = i /\ Msg(i, k, j).round = k
          BY <3>3, MsgIs
        <4> QED
          BY <2>1, <3>5, <4>1 DEF Taken
      <3>7. r[j] = r[a]
        <4> SUFFICES ASSUME k <= r[j] PROVE FALSE
          BY <2>1, <2>2, <2>3, <3>1
        <4>1. PICK n, m : n = r[j] + 1 /\ m = Msg(j, n, j)
          OBVIOUS
        <4>2. m \in batch[j] /\ m.sender = j /\ m.round = n
          BY <2>1, <4>1 DEF Sound, Whole, OwnIn, Msg
        <4>3. k < n
          BY <2>1, <3>1, <4>1
        <4> QED
          BY <2>1, <3>3, <3>6, <4>2, <4>3 DEF Taken, Took
      <3>8. k = r[j] + 1
        BY <2>3, <3>1, <3>7
      <3>9. Premature(j)
        BY <2>1, <3>3, <3>6, <3>8, LackingIsPremature
      <3> QED
        BY <3>7, <3>9
    <2>4. PICK i \in Parties : r[i] = r[a] /\ Premature(i)
      BY <2>3
    <2>5. PICK j \in Parties : j # i /\ r[j] = r[a] /\ Premature(j)
      BY <2>3, <2>4
    (* The first of those who broadcast what i has taken too early. *)
    <2>6. \E k \in Parties : r[k] > r[i] \/ (r[k] = r[i] /\ ~Premature(k))
      <3>1. PICK m \in Took(i) : m.round > r[i] + 1
        BY <2>4 DEF Premature, Took
      <3>2. /\ m.sender \in Parties /\ m.round \in Rounds /\ Rounds = 1 .. R /\ R \in Nat
            /\ r[i] \in Nat
        BY <2>1, <3>1, TookFacts, RAssumption DEF Rounds
      <3>3. m.round <= round[m.sender]
        <4>1. CASE m.sender = i
          BY <2>1, <4>1 DEF Taken
        <4>2. CASE m.sender # i
          <5>1. <<m.sender, m.round>> \in received[i] /\ Received(i)
            BY <2>1, <4>2 DEF Taken, Sound
          <5> QED
            BY <3>2, <5>1 DEF Received
        <4> QED
          BY <4>1, <4>2
      <3>4. PICK n : n = r[i] + 1
        OBVIOUS
      <3>5. n \in Rounds /\ round[m.sender] > n
        <4>1. round[m.sender] \in Nat
          BY <3>2 DEF EchoInv, TypeOK
        <4> QED
          BY <3>1, <3>2, <3>3, <3>4, <4>1
      <3>6. PICK k \in Parties : round[k] > n /\ Calm(k, n)
        BY <3>2, <3>5 DEF CircleInv, Firsts
      <3>7. CASE r[k] > r[i]
        BY <3>7
      <3>8. CASE ~(r[k] > r[i])
        <4>1. r[k] = r[i]
          BY <2>1, <2>2, <2>4, <3>8
        <4>2. Batches(k) = n
          BY <3>4, <4>1 DEF Batches
        <4>3. \A x \in Took(k) : x.round <= n /\ x.round \in Nat
          BY <3>2, <3>4, <3>6, <4>2, TookFacts DEF Calm
        <4>4. ~Premature(k)
          BY <3>2, <3>4, <4>1, <4>3 DEF Premature, Took
        <4> QED
          BY <4>1, <4>4
      <3> QED
        BY <3>7, <3>8
    <2> QED
      BY <2>4, <2>5, <2>6
  <1> QED
    BY <1>1, CircleInvHolds, RoundsInvHolds, EchoInvInductive, PTL

(* Two parties never wait for each other: unless an execution has ended, a  *)
(* gadget collects messages or has all its acknowledgments.                 *)
THEOREM TwoNeverCircle ==
    N = 2 => (Spec => [](\E i \in Parties : ~Running(i) \/ batch[i] = {} \/ Acknowledged(i)))
  <1> SUFFICES ASSUME N = 2
               PROVE  Spec => [](\E i \in Parties : ~Running(i) \/ batch[i] = {} \/ Acknowledged(i))
    OBVIOUS
  <1>1. TypeOK /\ CircleTakesThree =>
           \E i \in Parties : ~Running(i) \/ batch[i] = {} \/ Acknowledged(i)
    <2> SUFFICES ASSUME TypeOK, NEW i \in Parties, NEW j \in Parties, NEW k \in Parties,
                        i # j, r[i] = r[j], Premature(i), Premature(j),
                        r[k] > r[i] \/ (r[k] = r[i] /\ ~Premature(k))
                 PROVE  FALSE
      BY DEF CircleTakesThree
    <2>1. k # i /\ k # j
      <3>1. r[i] \in Nat /\ ~(r[i] > r[i])
        BY DEF TypeOK
      <3> QED
        BY <3>1
    <2>2. i \in {1, 2} /\ j \in {1, 2} /\ k \in {1, 2}
      BY DEF Parties
    <2> QED
      BY <2>1, <2>2
  <1> QED
    BY <1>1, CirclesTakeThree, EchoTypeCorrect, PTL

=============================================================================
