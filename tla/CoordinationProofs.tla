------------------------- MODULE CoordinationProofs -------------------------
(***************************************************************************)
(* Safety of Coordination for every set of nodes and sessions, every       *)
(* proposer and size, over an ordered or unordered, lossless or lossy      *)
(* network.                                                                *)
(*                                                                         *)
(* What an execution may rely on was decided by messages that its joiners  *)
(* no longer remember, so the invariant speaks of the messages still under *)
(* way: each tells the truth about its session (Truthful), and there are   *)
(* never two proposals, or two start messages, of one session on their way *)
(* to one node (Single).  A start message in flight therefore excludes     *)
(* that its receiver executes the session already, and an accepted         *)
(* proposal that another copy of it follows.  Single needs the sequences   *)
(* themselves: Part says that a receiver or a wire has lost requests, and  *)
(* gained or doubled none.                                                 *)
(***************************************************************************)
EXTENDS Coordination, SequenceTheorems, TLAPS

(* What a request on its way to n says of its session.  A proposal has not  *)
(* been answered by n yet, a start message is not being obeyed by n yet,    *)
(* and a computation message is from one party of its session to another.   *)
Truthful(n, m) ==
    /\ m.kind = "proposal" =>
          /\ m.session \in proposed /\ m.from = Proposer[m.session]
          /\ n # m.from /\ <<m.session, n>> \notin answered
    /\ m.kind = "start" =>
          /\ <<m.session, m.parties>> \in started /\ m.from = Proposer[m.session]
          /\ n # m.from /\ n \in m.parties
          /\ ~(phase[n] = "executing" /\ run[n] = m.session)
    /\ m.kind \in {"round", "p2p"} =>
          \E P \in SUBSET Nodes : <<m.session, P>> \in started /\ m.from \in P /\ n \in P

(* No two requests with the same place in the coordination of one session   *)
(* are on their way to the same node.                                       *)
Alike(m1, m2) ==
    m1.kind = m2.kind /\ m1.session = m2.session /\ m1.kind \in {"proposal", "start"}

Single(n) ==
    /\ \A i, j \in DOMAIN inbox[n] : i # j => ~Alike(inbox[n][i], inbox[n][j])
    /\ \A q \in Nodes : \A i, j \in DOMAIN wire[<<q, n>>] :
          i # j => ~Alike(wire[<<q, n>>][i], wire[<<q, n>>][j])
    /\ \A q \in Nodes : \A i \in DOMAIN inbox[n], j \in DOMAIN wire[<<q, n>>] :
          ~Alike(inbox[n][i], wire[<<q, n>>][j])

Mail(n) ==
    /\ \A m \in Coming(n) : Truthful(n, m)
    /\ \A q \in Nodes : \A m \in Range(wire[<<q, n>>]) : m.from = q
    /\ Single(n)

(* A start message names the parties its proposer counted. *)
Justified(s, P) ==
    /\ s \in proposed /\ Proposer[s] \in P
    /\ Cardinality(P) = Size[s]
    /\ \A p \in P \ {Proposer[s]} : <<s, p>> \in answered

History ==
    /\ \A st \in started : Justified(st[1], st[2])
    /\ \A st1, st2 \in started : st1[1] = st2[1] => st1 = st2
    /\ answers \subseteq answered
    /\ \A an \in answered : an[1] \in proposed

(* What the owner of the receiver knows. *)
NodeShape(n) ==
    /\ phase[n] = "negotiation" =>
          /\ agent[n] \in proposed /\ Proposer[agent[n]] = n
          /\ n \in peers[n]
          /\ \A p \in peers[n] \ {n} : <<agent[n], p>> \in answered
          /\ \A st \in started : st[1] # agent[n]
    /\ phase[n] = "executing" =>
          /\ run[n] \in Sessions /\ <<run[n], peers[n]>> \in started
          /\ n \in peers[n]

IndInv == TypeOK /\ History /\ \A n \in Nodes : NodeShape(n) /\ Mail(n)

-----------------------------------------------------------------------------
(* t has the requests of s, each at most as often as s has it. *)
Part(t, s) ==
    \E f \in [DOMAIN t -> DOMAIN s] :
        /\ \A i, j \in DOMAIN t : f[i] = f[j] => i = j
        /\ \A i \in DOMAIN t : t[i] = s[f[i]]

(* A sequence is part of itself, ... *)
LEMMA PartSame == ASSUME NEW s PROVE Part(s, s)
  <1> DEFINE f == [i \in DOMAIN s |-> i]
  <1>1. f \in [DOMAIN s -> DOMAIN s]
    OBVIOUS
  <1>2. \A i, j \in DOMAIN s : f[i] = f[j] => i = j
    OBVIOUS
  <1>3. \A i \in DOMAIN s : s[i] = s[f[i]]
    OBVIOUS
  <1> QED
    BY <1>1, <1>2, <1>3 DEF Part

(* ... nothing is part of every sequence, ... *)
LEMMA PartEmpty == ASSUME NEW S, NEW s \in Seq(S) PROVE Part(<<>>, s)
  <1> DEFINE f == [i \in {} |-> i]
  <1>1. DOMAIN <<>> = {}
    OBVIOUS
  <1>2. f \in [{} -> DOMAIN s]
    OBVIOUS
  <1> QED
    BY <1>1, <1>2 DEF Part

(* ... and so is what follows the head. *)
LEMMA PartTail ==
  ASSUME NEW S, NEW s \in Seq(S), s # <<>>
  PROVE  /\ Tail(s) \in Seq(S) /\ Head(s) \in S
         /\ Part(Tail(s), s)
         /\ \A i \in DOMAIN Tail(s) : i + 1 \in DOMAIN s /\ Tail(s)[i] = s[i + 1]
         /\ 1 \in DOMAIN s /\ Head(s) = s[1]
  <1> DEFINE t == Tail(s)
             f == [i \in DOMAIN t |-> i + 1]
  <1>1. t \in Seq(S) /\ Head(s) \in S /\ Len(s) \in Nat \ {0} /\ Len(t) = Len(s) - 1
    OBVIOUS
  <1>2. DOMAIN s = 1 .. Len(s) /\ DOMAIN t = 1 .. Len(t)
    BY <1>1
  <1>3. \A i \in DOMAIN t : i + 1 \in DOMAIN s /\ t[i] = s[i + 1]
    BY <1>1, <1>2
  <1>4. f \in [DOMAIN t -> DOMAIN s]
    BY <1>3
  <1>5. \A i, j \in DOMAIN t : f[i] = f[j] => i = j
    BY <1>1, <1>2
  <1>6. \A i \in DOMAIN t : t[i] = s[f[i]]
    BY <1>3
  <1>7. Part(t, s)
    BY <1>4, <1>5, <1>6 DEF Part
  <1> QED
    BY <1>1, <1>2, <1>3, <1>7

(* What Take leaves on the wire: the requests before the one taken, then    *)
(* those after it.                                                          *)
Without(s, x) == SubSeq(s, 1, x - 1) \o SubSeq(s, x + 1, Len(s))

(* The rest is part of what was on the wire, without the one taken. *)
LEMMA PartCut ==
  ASSUME NEW S, NEW s \in Seq(S), NEW x \in DOMAIN s
  PROVE  /\ Without(s, x) \in Seq(S) /\ Part(Without(s, x), s)
         /\ \A i \in DOMAIN Without(s, x) : \E j \in DOMAIN s : j # x /\ Without(s, x)[i] = s[j]
  <1>1. x \in 1 .. Len(s) /\ Len(s) \in Nat /\ DOMAIN s = 1 .. Len(s)
    OBVIOUS
  <1>2. \A i \in 1 .. Len(s) : s[i] \in S
    OBVIOUS
  <1> DEFINE a == SubSeq(s, 1, x - 1)
             b == SubSeq(s, x + 1, Len(s))
  <1>3. a \in Seq(S) /\ Len(a) = x - 1 /\ \A i \in 1 .. x - 1 : a[i] = s[i]
    <2>1. 1 \in Int /\ x - 1 \in Int /\ \A i \in 1 .. x - 1 : s[i] \in S
      BY <1>1, <1>2
    <2>2. /\ a \in Seq(S)
          /\ Len(a) = IF 1 <= x - 1 THEN (x - 1) - 1 + 1 ELSE 0
          /\ \A i \in 1 .. (x - 1) - 1 + 1 : a[i] = s[1 + i - 1]
      BY <2>1, SubSeqProperties
    <2> HIDE DEF a
    <2>3. (x - 1) - 1 + 1 = x - 1 /\ \A i \in 1 .. x - 1 : 1 + i - 1 = i
      BY <1>1
    <2> QED
      BY <1>1, <2>2, <2>3
  <1>4. /\ b \in Seq(S) /\ Len(b) = Len(s) - x
        /\ \A i \in 1 .. Len(s) - x : b[i] = s[x + i]
    <2>1. x + 1 \in Int /\ Len(s) \in Int /\ \A i \in x + 1 .. Len(s) : s[i] \in S
      BY <1>1, <1>2
    <2>2. /\ b \in Seq(S)
          /\ Len(b) = IF x + 1 <= Len(s) THEN Len(s) - (x + 1) + 1 ELSE 0
          /\ \A i \in 1 .. Len(s) - (x + 1) + 1 : b[i] = s[(x + 1) + i - 1]
      BY <2>1, SubSeqProperties
    <2> HIDE DEF b
    <2>3. Len(s) - (x + 1) + 1 = Len(s) - x /\ \A i \in 1 .. Len(s) - x : (x + 1) + i - 1 = x + i
      BY <1>1
    <2> QED
      BY <1>1, <2>2, <2>3
  <1> HIDE DEF a, b
  <1>5. /\ a \o b \in Seq(S) /\ Len(a \o b) = Len(a) + Len(b)
        /\ \A i \in 1 .. Len(a) + Len(b) :
              (a \o b)[i] = IF i <= Len(a) THEN a[i] ELSE b[i - Len(a)]
    <2>1. a \in Seq(S) /\ b \in Seq(S)
      BY <1>3, <1>4
    <2> QED
      BY <2>1, ConcatProperties
  <1> DEFINE t == a \o b
             f == [i \in 1 .. Len(s) - 1 |-> IF i < x THEN i ELSE i + 1]
  <1>6. DOMAIN t = 1 .. Len(s) - 1
    <2>1. Len(t) = Len(s) - 1
      BY <1>1, <1>3, <1>4, <1>5
    <2>2. t \in Seq(S)
      BY <1>5
    <2> HIDE DEF t
    <2> QED
      BY <2>1, <2>2
  <1>7. \A i \in 1 .. Len(s) - 1 : t[i] = IF i < x THEN a[i] ELSE b[i - (x - 1)]
    BY <1>1, <1>3, <1>4, <1>5
  <1> HIDE DEF t
  <1>8. \A i \in 1 .. Len(s) - 1 : f[i] \in DOMAIN s /\ f[i] # x /\ t[i] = s[f[i]]
    <2> SUFFICES ASSUME NEW i \in 1 .. Len(s) - 1
                 PROVE  f[i] \in DOMAIN s /\ f[i] # x /\ t[i] = s[f[i]]
      OBVIOUS
    <2>1. CASE i < x
      BY <2>1, <1>1, <1>3, <1>7
    <2>2. CASE ~(i < x)
      <3>1. i - (x - 1) \in 1 .. Len(s) - x /\ f[i] = i + 1 /\ x + (i - (x - 1)) = i + 1
        BY <2>2, <1>1
      <3> QED
        BY <2>2, <3>1, <1>1, <1>4, <1>7
    <2> QED
      BY <2>1, <2>2
  <1>9. f \in [DOMAIN t -> DOMAIN s]
    BY <1>6, <1>8
  <1>10. \A i, j \in DOMAIN t : f[i] = f[j] => i = j
    BY <1>1, <1>6
  <1> HIDE DEF f
  <1>11. Part(t, s)
    BY <1>6, <1>8, <1>9, <1>10 DEF Part
  <1>12. \A i \in DOMAIN t : \E j \in DOMAIN s : j # x /\ t[i] = s[j]
    BY <1>6, <1>8
  <1> QED
    BY <1>5, <1>11, <1>12 DEF Without, t, a, b

(* What a receiver or a wire holds once a request is added to it. *)
LEMMA AppendFacts ==
  ASSUME NEW S, NEW s \in Seq(S), NEW m \in S
  PROVE  /\ s \o <<m>> = Append(s, m) /\ Append(s, m) \in Seq(S)
         /\ DOMAIN s = 1 .. Len(s) /\ DOMAIN Append(s, m) = 1 .. Len(s) + 1
         /\ \A i \in DOMAIN s : Append(s, m)[i] = s[i]
         /\ Append(s, m)[Len(s) + 1] = m
         /\ Range(Append(s, m)) = Range(s) \cup {m}
  <1>1. Len(s) \in Nat /\ DOMAIN s = 1 .. Len(s)
    OBVIOUS
  <1>2. s \o <<m>> = Append(s, m) /\ Append(s, m) \in Seq(S)
    OBVIOUS
  <1>3. DOMAIN Append(s, m) = 1 .. Len(s) + 1
    OBVIOUS
  <1>4. \A i \in DOMAIN s : Append(s, m)[i] = s[i]
    OBVIOUS
  <1>5. Append(s, m)[Len(s) + 1] = m
    OBVIOUS
  <1>6. Range(Append(s, m)) = Range(s) \cup {m}
    <2>1. \A i \in 1 .. Len(s) + 1 : i \in 1 .. Len(s) \/ i = Len(s) + 1
      BY <1>1
    <2>2. 1 .. Len(s) \subseteq 1 .. Len(s) + 1 /\ Len(s) + 1 \in 1 .. Len(s) + 1
      BY <1>1
    <2> QED
      BY <2>1, <2>2, <1>1, <1>3, <1>4, <1>5 DEF Range
  <1> QED
    BY <1>1, <1>2, <1>3, <1>4, <1>5, <1>6
(* What is coming to a node waits in its receiver or travels on a wire. *)
LEMMA ComingFacts ==
  ASSUME NEW n \in Nodes
  PROVE  /\ \A m : m \in Coming(n) <=>
               m \in Range(inbox[n]) \/ \E q \in Nodes : m \in Range(wire[<<q, n>>])
         /\ \A m : m \in Coming(n)' <=>
               m \in Range(inbox'[n]) \/ \E q \in Nodes : m \in Range(wire'[<<q, n>>])
  BY DEF Coming

(* A part has no request of its own. *)
LEMMA PartRange == ASSUME NEW s, NEW t, Part(t, s) PROVE Range(t) \subseteq Range(s)
  <1>1. PICK f \in [DOMAIN t -> DOMAIN s] : \A i \in DOMAIN t : t[i] = s[f[i]]
    BY DEF Part
  <1>2. \A i \in DOMAIN t : f[i] \in DOMAIN s
    OBVIOUS
  <1> QED
    BY <1>1, <1>2 DEF Range

-----------------------------------------------------------------------------
(* A node keeps its mail in order when requests to it only disappear, and   *)
(* what is left still tells the truth.                                      *)
LEMMA MailPart ==
  ASSUME NEW n \in Nodes, Mail(n),
         Part(inbox'[n], inbox[n]),
         \A q \in Nodes : Part(wire'[<<q, n>>], wire[<<q, n>>]),
         \A m \in Coming(n)' : Truthful(n, m) => Truthful(n, m)'
  PROVE  Mail(n)'
  <1>1. Range(inbox'[n]) \subseteq Range(inbox[n])
    BY PartRange
  <1>2. \A q \in Nodes : Range(wire'[<<q, n>>]) \subseteq Range(wire[<<q, n>>])
    BY PartRange
  <1>3. Coming(n)' \subseteq Coming(n)
    BY <1>1, <1>2 DEF Coming
  <1>4. \A m \in Coming(n)' : Truthful(n, m)'
    BY <1>3 DEF Mail
  <1>5. \A q \in Nodes : \A m \in Range(wire'[<<q, n>>]) : m.from = q
    BY <1>2 DEF Mail
  <1>6. Single(n)'
    <2>1. PICK f \in [DOMAIN inbox'[n] -> DOMAIN inbox[n]] :
             /\ \A i, j \in DOMAIN inbox'[n] : f[i] = f[j] => i = j
             /\ \A i \in DOMAIN inbox'[n] : inbox'[n][i] = inbox[n][f[i]]
      BY DEF Part
    <2>2. \A i, j \in DOMAIN inbox'[n] :
             i # j => ~Alike(inbox'[n][i], inbox'[n][j])
      <3>1. \A i \in DOMAIN inbox'[n] : f[i] \in DOMAIN inbox[n]
        OBVIOUS
      <3> QED
        BY <2>1, <3>1 DEF Mail, Single
    <2>3. ASSUME NEW q \in Nodes
          PROVE  /\ \A i, j \in DOMAIN wire'[<<q, n>>] :
                       i # j => ~Alike(wire'[<<q, n>>][i], wire'[<<q, n>>][j])
                 /\ \A i \in DOMAIN inbox'[n], j \in DOMAIN wire'[<<q, n>>] :
                       ~Alike(inbox'[n][i], wire'[<<q, n>>][j])
      <3>1. PICK g \in [DOMAIN wire'[<<q, n>>] -> DOMAIN wire[<<q, n>>]] :
               /\ \A i, j \in DOMAIN wire'[<<q, n>>] : g[i] = g[j] => i = j
               /\ \A i \in DOMAIN wire'[<<q, n>>] :
                     wire'[<<q, n>>][i] = wire[<<q, n>>][g[i]]
        BY DEF Part
      <3>2. /\ \A i \in DOMAIN wire'[<<q, n>>] : g[i] \in DOMAIN wire[<<q, n>>]
            /\ \A i \in DOMAIN inbox'[n] : f[i] \in DOMAIN inbox[n]
        OBVIOUS
      <3>3. \A i, j \in DOMAIN wire'[<<q, n>>] :
               i # j => ~Alike(wire'[<<q, n>>][i], wire'[<<q, n>>][j])
        BY <3>1, <3>2 DEF Mail, Single
      <3>4. \A i \in DOMAIN inbox'[n], j \in DOMAIN wire'[<<q, n>>] :
               ~Alike(inbox'[n][i], wire'[<<q, n>>][j])
        BY <2>1, <3>1, <3>2 DEF Mail, Single
      <3> QED
        BY <3>3, <3>4
    <2> QED
      BY <2>2, <2>3 DEF Single
  <1> QED
    BY <1>4, <1>5, <1>6 DEF Mail

(* A node keeps its mail in order when n sends it a truthful request that   *)
(* is the first of its kind, or fails to.                                   *)
LEMMA MailSent ==
  ASSUME TypeOK, NEW n \in Nodes, NEW p \in Nodes, NEW r \in Request, Mail(p),
         inbox'[p] = inbox[p],
         \/ wire'[<<n, p>>] = wire[<<n, p>>]
         \/ wire'[<<n, p>>] = Append(wire[<<n, p>>], r),
         \A q \in Nodes \ {n} : wire'[<<q, p>>] = wire[<<q, p>>],
         r.from = n, Truthful(p, r)',
         \A m \in Coming(p) : Truthful(p, m)' /\ ~Alike(m, r)
  PROVE  Mail(p)'
  <1> DEFINE w == wire[<<n, p>>]
  <1>1. w \in Seq(Request)
    BY DEF TypeOK
  <1>2. /\ DOMAIN w = 1 .. Len(w) /\ DOMAIN Append(w, r) = 1 .. Len(w) + 1
        /\ \A i \in DOMAIN w : Append(w, r)[i] = w[i]
        /\ Append(w, r)[Len(w) + 1] = r
        /\ Range(Append(w, r)) = Range(w) \cup {r}
        /\ Len(w) \in Nat
    BY <1>1, AppendFacts
  <1>3. \A q \in Nodes : Range(wire'[<<q, p>>]) \subseteq
                         Range(wire[<<q, p>>]) \cup (IF q = n THEN {r} ELSE {})
    BY <1>2
  <1>4. Coming(p)' \subseteq Coming(p) \cup {r}
    BY <1>3, ComingFacts
  <1>5. \A m \in Coming(p)' : Truthful(p, m)'
    BY <1>4
  <1>6. \A q \in Nodes : \A m \in Range(wire'[<<q, p>>]) : m.from = q
    BY <1>3 DEF Mail
  <1>7. \A q \in Nodes : \A i \in DOMAIN wire[<<q, p>>] : ~Alike(wire[<<q, p>>][i], r)
    <2>1. \A q \in Nodes : \A i \in DOMAIN wire[<<q, p>>] : wire[<<q, p>>][i] \in Coming(p)
      BY ComingFacts DEF Range
    <2> QED
      BY <2>1
  <1>8. \A i \in DOMAIN inbox[p] : ~Alike(inbox[p][i], r)
    BY DEF Coming, Range
  <1>9. CASE wire'[<<n, p>>] = w
    <2>1. \A q \in Nodes : wire'[<<q, p>>] = wire[<<q, p>>]
      BY <1>9
    <2>2. Single(p)'
      BY <2>1 DEF Mail, Single
    <2> QED
      BY <1>5, <1>6, <2>2 DEF Mail
  <1>10. CASE wire'[<<n, p>>] = Append(w, r)
    <2>1. \A i \in DOMAIN Append(w, r) : i \in DOMAIN w \/ i = Len(w) + 1
      BY <1>2
    <2>2. \A i, j \in DOMAIN Append(w, r) :
             i # j => ~Alike(Append(w, r)[i], Append(w, r)[j])
      BY <1>2, <1>7, <2>1 DEF Mail, Single, Alike
    <2>3. \A i \in DOMAIN inbox[p], j \in DOMAIN Append(w, r) :
             ~Alike(inbox[p][i], Append(w, r)[j])
      BY <1>2, <1>8, <2>1 DEF Mail, Single
    <2>4. Single(p)'
      BY <1>10, <2>2, <2>3 DEF Mail, Single
    <2> QED
      BY <1>5, <1>6, <2>4 DEF Mail
  <1> QED
    BY <1>9, <1>10

(* A request stays truthful while the history only grows, unless its        *)
(* receiver answers it or obeys it.                                         *)
LEMMA TruthKept ==
  ASSUME NEW n \in Nodes, NEW m, Truthful(n, m),
         proposed \subseteq proposed', started \subseteq started',
         <<m.session, n>> \in answered' => <<m.session, n>> \in answered \/ m.kind # "proposal",
         phase'[n] = "executing" /\ run'[n] = m.session =>
            \/ phase[n] = "executing" /\ run[n] = m.session
            \/ m.kind # "start"
  PROVE  Truthful(n, m)'
  <1>1. m.kind = "proposal" =>
          /\ m.session \in proposed' /\ m.from = Proposer[m.session]
          /\ n # m.from /\ <<m.session, n>> \notin answered'
    BY DEF Truthful
  <1>2. m.kind = "start" =>
          /\ <<m.session, m.parties>> \in started' /\ m.from = Proposer[m.session]
          /\ n # m.from /\ n \in m.parties
          /\ ~(phase'[n] = "executing" /\ run'[n] = m.session)
    BY DEF Truthful
  <1>3. m.kind \in {"round", "p2p"} =>
          \E P \in SUBSET Nodes : <<m.session, P>> \in started' /\ m.from \in P /\ n \in P
    BY DEF Truthful
  <1> QED
    BY <1>1, <1>2, <1>3 DEF Truthful

(* Send adds at most the request, and only to wires from n to the addressed. *)
LEMMA SendFacts ==
  ASSUME TypeOK, NEW n \in Nodes, NEW to, NEW r \in Request, wire' = Send(n, to, <<r>>)
  PROVE  /\ wire' \in [Nodes \X Nodes -> Seq(Request)]
         /\ \A q, p \in Nodes : q # n \/ p \notin to => wire'[<<q, p>>] = wire[<<q, p>>]
         /\ \A p \in Nodes : \/ wire'[<<n, p>>] = wire[<<n, p>>]
                             \/ wire'[<<n, p>>] = Append(wire[<<n, p>>], r)
  <1>1. \A l \in Nodes \X Nodes : /\ wire[l] \in Seq(Request)
                                  /\ wire[l] \o <<r>> = Append(wire[l], r)
                                  /\ Append(wire[l], r) \in Seq(Request)
    BY AppendFacts DEF TypeOK
  <1>2. \A l \in Nodes \X Nodes : wire'[l] =
          IF l[1] = n /\ l[2] \in to /\ phase[l[2]] \notin Panics THEN Append(wire[l], r) ELSE wire[l]
    BY <1>1 DEF Send
  <1>3. wire' \in [Nodes \X Nodes -> Seq(Request)]
    BY <1>1 DEF Send
  <1>4. \A q, p \in Nodes : /\ <<q, p>> \in Nodes \X Nodes
                            /\ <<q, p>>[1] = q /\ <<q, p>>[2] = p
    OBVIOUS
  <1> QED
    BY <1>2, <1>3, <1>4

(* Take removes one request from one wire. *)
LEMMA TakeFacts ==
  ASSUME TypeOK, NEW l \in Nodes \X Nodes, NEW x, Take(l, x)
  PROVE  /\ wire' \in [Nodes \X Nodes -> Seq(Request)]
         /\ x \in DOMAIN wire[l] /\ wire[l][x] \in Request
         /\ \A k \in Nodes \X Nodes : Part(wire'[k], wire[k])
         /\ \A k \in Nodes \X Nodes : k # l => wire'[k] = wire[k]
         /\ \A i \in DOMAIN wire'[l] : \E j \in DOMAIN wire[l] :
               j # x /\ wire'[l][i] = wire[l][j]
  <1>1. wire[l] \in Seq(Request) /\ x \in DOMAIN wire[l]
    BY DEF Take, TypeOK
  <1>2. wire[l][x] \in Request
    BY <1>1
  <1> DEFINE t == Without(wire[l], x)
  <1>3. /\ t \in Seq(Request) /\ Part(t, wire[l])
        /\ \A i \in DOMAIN t : \E j \in DOMAIN wire[l] : j # x /\ t[i] = wire[l][j]
    BY <1>1, PartCut
  <1>4. wire' = [wire EXCEPT ![l] = t]
    BY DEF Take, Without
  <1> HIDE DEF t
  <1>5. /\ wire' \in [Nodes \X Nodes -> Seq(Request)]
        /\ wire'[l] = t /\ \A k \in Nodes \X Nodes : k # l => wire'[k] = wire[k]
    BY <1>3, <1>4 DEF TypeOK
  <1>6. \A k \in Nodes \X Nodes : Part(wire'[k], wire[k])
    BY <1>3, <1>5, PartSame
  <1> QED
    BY <1>1, <1>2, <1>3, <1>5, <1>6

(* What happens at one node is no news to another. *)
LEMMA ShapeKept ==
  ASSUME NEW n \in Nodes, NodeShape(n),
         phase'[n] = phase[n], agent'[n] = agent[n], run'[n] = run[n], peers'[n] = peers[n],
         proposed \subseteq proposed', answered \subseteq answered', started \subseteq started',
         \A st \in started' \ started : Proposer[st[1]] # n
  PROVE  NodeShape(n)'
  BY DEF NodeShape

(* A receiver's owner gives way, to a Phase1Channel or to nobody.           *)
LEMMA LeaveInd ==
  ASSUME IndInv, NEW n \in Nodes, NEW w \in {"phase1"} \cup Panics,
         phase' = [phase EXCEPT ![n] = w],
         agent' = [agent EXCEPT ![n] = "none"],
         run' = [run EXCEPT ![n] = "none"],
         peers' = [peers EXCEPT ![n] = {}],
         heard' = [heard EXCEPT ![n] = {}],
         inbox' \in [Nodes -> Seq(Request)],
         wire' \in [Nodes \X Nodes -> Seq(Request)],
         \A p \in Nodes : Part(inbox'[p], inbox[p]),
         \A k \in Nodes \X Nodes : Part(wire'[k], wire[k]),
         answers' \subseteq answers, UNCHANGED <<proposed, history>>
  PROVE  IndInv'
  <1>1. TypeOK'
    BY DEF IndInv, TypeOK, Phases, history
  <1>2. History'
    BY DEF IndInv, History, Justified, history
  <1>3. ASSUME NEW p \in Nodes PROVE NodeShape(p)'
    <2>1. CASE p = n
      BY <2>1 DEF IndInv, TypeOK, NodeShape, Panics
    <2>2. CASE p # n
      BY <2>2, ShapeKept DEF IndInv, TypeOK, history
    <2> QED
      BY <2>1, <2>2
  <1>4. ASSUME NEW p \in Nodes PROVE Mail(p)'
    <2>1. phase'[p] = "executing" => phase[p] = "executing" /\ run'[p] = run[p]
      BY DEF IndInv, TypeOK, Panics
    <2>2. \A m : Truthful(p, m) => Truthful(p, m)'
      BY <2>1, TruthKept DEF history
    <2>3. \A q \in Nodes : Part(wire'[<<q, p>>], wire[<<q, p>>])
      OBVIOUS
    <2> QED
      BY <2>2, <2>3, MailPart DEF IndInv
  <1> QED
    BY <1>1, <1>2, <1>3, <1>4 DEF IndInv

(* A panicked node has no receiver, no agent and no proxy. *)
LEMMA PanicInd ==
  ASSUME IndInv, NEW n \in Nodes, NEW w \in Panics, Panic(n, w) PROVE IndInv'
  <1>1. inbox' \in [Nodes -> Seq(Request)] /\ wire' \in [Nodes \X Nodes -> Seq(Request)]
    BY DEF IndInv, TypeOK, Panic
  <1>2. \A p \in Nodes : Part(inbox'[p], inbox[p])
    <2>1. \A p \in Nodes : inbox[p] \in Seq(Request) /\ inbox'[p] \in {inbox[p], <<>>}
      BY DEF IndInv, TypeOK, Panic
    <2> QED
      BY <2>1, PartSame, PartEmpty
  <1>3. \A k \in Nodes \X Nodes : Part(wire'[k], wire[k])
    <2>1. \A k \in Nodes \X Nodes : wire[k] \in Seq(Request) /\ wire'[k] \in {wire[k], <<>>}
      BY DEF IndInv, TypeOK, Panic
    <2> QED
      BY <2>1, PartSame, PartEmpty
  <1> QED
    BY <1>1, <1>2, <1>3, LeaveInd DEF Panic

(* A computation or a coordination is over, however it ended. *)
LEMMA BackToPhase1Ind ==
  ASSUME IndInv, NEW n \in Nodes, BackToPhase1(n), answers' \subseteq answers,
         UNCHANGED <<inbox, wire, proposed, history>>
  PROVE  IndInv'
  <1>1. /\ inbox' \in [Nodes -> Seq(Request)] /\ wire' \in [Nodes \X Nodes -> Seq(Request)]
        /\ \A p \in Nodes : Part(inbox'[p], inbox[p])
        /\ \A k \in Nodes \X Nodes : Part(wire'[k], wire[k])
    BY PartSame DEF IndInv, TypeOK
  <1> QED
    BY <1>1, LeaveInd DEF BackToPhase1

(* The head of a receiver is taken out; the rest stays. *)
LEMMA ReceiveFacts ==
  ASSUME TypeOK, NEW n \in Nodes, inbox[n] # <<>>, Receive(n)
  PROVE  /\ inbox' \in [Nodes -> Seq(Request)]
         /\ \A p \in Nodes : Part(inbox'[p], inbox[p])
         /\ \A p \in Nodes \ {n} : inbox'[p] = inbox[p]
         /\ Head(inbox[n]) \in Request
         /\ Head(inbox[n]) \in Coming(n)
         /\ \A i \in DOMAIN inbox'[n] : \E j \in DOMAIN inbox[n] :
               j # 1 /\ inbox'[n][i] = inbox[n][j]
         /\ 1 \in DOMAIN inbox[n] /\ Head(inbox[n]) = inbox[n][1]
  <1> DEFINE s == inbox[n]
  <1>1. s \in Seq(Request) /\ s # <<>>
    BY DEF TypeOK
  <1> HIDE DEF s
  <1>2. /\ Tail(s) \in Seq(Request) /\ Head(s) \in Request
        /\ Part(Tail(s), s)
        /\ \A i \in DOMAIN Tail(s) : i + 1 \in DOMAIN s /\ Tail(s)[i] = s[i + 1]
        /\ 1 \in DOMAIN s /\ Head(s) = s[1]
    BY <1>1, PartTail
  <1>3. inbox' = [inbox EXCEPT ![n] = Tail(s)]
    BY DEF Receive, s
  <1>4. /\ inbox' \in [Nodes -> Seq(Request)] /\ inbox'[n] = Tail(s)
        /\ \A p \in Nodes \ {n} : inbox'[p] = inbox[p]
    BY <1>2, <1>3 DEF TypeOK
  <1>5. \A p \in Nodes : Part(inbox'[p], inbox[p])
    BY <1>2, <1>4, PartSame DEF s
  <1>6. \A i \in DOMAIN Tail(s) : \E j \in DOMAIN s : j # 1 /\ Tail(s)[i] = s[j]
    <2>1. DOMAIN Tail(s) \subseteq Nat \ {0}
      BY <1>2
    <2>2. \A i \in Nat \ {0} : i + 1 # 1
      OBVIOUS
    <2> QED
      BY <1>2, <2>1, <2>2
  <1>7. Head(s) \in Coming(n)
    BY <1>2, ComingFacts DEF Range, s
  <1> QED
    BY <1>2, <1>4, <1>5, <1>6, <1>7 DEF s

(* Once the head is out, no other request to n is like it. *)
LEMMA HeadUnlike ==
  ASSUME TypeOK, NEW n \in Nodes, inbox[n] # <<>>, Receive(n), wire' = wire, Mail(n)
  PROVE  \A m \in Coming(n)' : m \in Coming(n) /\ ~Alike(Head(inbox[n]), m)
  <1> DEFINE h == Head(inbox[n])
  <1>1. /\ \A i \in DOMAIN inbox'[n] : \E j \in DOMAIN inbox[n] :
              j # 1 /\ inbox'[n][i] = inbox[n][j]
        /\ 1 \in DOMAIN inbox[n] /\ h = inbox[n][1]
    BY ReceiveFacts
  <1>2. \A m \in Range(inbox'[n]) : m \in Range(inbox[n]) /\ ~Alike(h, m)
    <2> SUFFICES ASSUME NEW i \in DOMAIN inbox'[n]
                 PROVE  inbox'[n][i] \in Range(inbox[n]) /\ ~Alike(h, inbox'[n][i])
      BY DEF Range
    <2>1. PICK j \in DOMAIN inbox[n] : j # 1 /\ inbox'[n][i] = inbox[n][j]
      BY <1>1
    <2> QED
      BY <1>1, <2>1 DEF Range, Mail, Single
  <1>3. \A q \in Nodes : \A m \in Range(wire[<<q, n>>]) : ~Alike(h, m)
    BY <1>1 DEF Range, Mail, Single
  <1> QED
    BY <1>2, <1>3, ComingFacts

-----------------------------------------------------------------------------
(* One lemma per action. *)
LEMMA LoseInd ==
  ASSUME IndInv, NEW l \in Nodes \X Nodes, NEW x, Lose(l, x) PROVE IndInv'
  <1>1. /\ wire' \in [Nodes \X Nodes -> Seq(Request)]
        /\ \A k \in Nodes \X Nodes : Part(wire'[k], wire[k])
    BY TakeFacts DEF IndInv, Lose
  <1>2. TypeOK' /\ History' /\ \A p \in Nodes : NodeShape(p)'
    BY <1>1 DEF IndInv, TypeOK, History, Justified, NodeShape, Lose, history
  <1>3. ASSUME NEW p \in Nodes PROVE Mail(p)'
    <2>1. Part(inbox'[p], inbox[p]) /\ \A q \in Nodes : Part(wire'[<<q, p>>], wire[<<q, p>>])
      BY <1>1, PartSame DEF Lose
    <2>2. \A m : Truthful(p, m) => Truthful(p, m)'
      BY TruthKept DEF Lose, history
    <2> QED
      BY <2>1, <2>2, MailPart DEF IndInv
  <1> QED
    BY <1>2, <1>3 DEF IndInv

(* The request taken off the wire is alone of its kind, so it may join the receiver. *)
LEMMA DeliverInd ==
  ASSUME IndInv, NEW l \in Nodes \X Nodes, NEW x, Deliver(l, x) PROVE IndInv'
  <1>1. /\ wire' \in [Nodes \X Nodes -> Seq(Request)]
        /\ x \in DOMAIN wire[l] /\ wire[l][x] \in Request
        /\ \A k \in Nodes \X Nodes : Part(wire'[k], wire[k])
        /\ \A k \in Nodes \X Nodes : k # l => wire'[k] = wire[k]
        /\ \A i \in DOMAIN wire'[l] : \E j \in DOMAIN wire[l] :
              j # x /\ wire'[l][i] = wire[l][j]
    <2>1. TypeOK /\ Take(l, x)
      BY DEF IndInv, Deliver
    <2>2. /\ wire' \in [Nodes \X Nodes -> Seq(Request)]
          /\ x \in DOMAIN wire[l] /\ wire[l][x] \in Request
      BY <2>1, TakeFacts
    <2>3. /\ \A k \in Nodes \X Nodes : Part(wire'[k], wire[k])
          /\ \A k \in Nodes \X Nodes : k # l => wire'[k] = wire[k]
      BY <2>1, TakeFacts
    <2>4. \A i \in DOMAIN wire'[l] : \E j \in DOMAIN wire[l] :
             j # x /\ wire'[l][i] = wire[l][j]
      BY <2>1, TakeFacts
    <2> QED
      BY <2>2, <2>3, <2>4
  <1> DEFINE n == l[2]
             m == wire[l][x]
             s == inbox[n]
  <1> DEFINE q == l[1]
  <1>2. q \in Nodes /\ l = <<q, n>> /\ n \in Nodes /\ l \in Nodes \X Nodes
    OBVIOUS
  <1>3. s \in Seq(Request)
    BY <1>2 DEF IndInv, TypeOK
  <1>4. inbox' = [inbox EXCEPT ![n] = Append(s, m)]
    BY DEF Deliver
  <1> HIDE DEF n, m, s, q
  <1>5. /\ Append(s, m) \in Seq(Request)
        /\ DOMAIN s = 1 .. Len(s) /\ DOMAIN Append(s, m) = 1 .. Len(s) + 1
        /\ \A i \in DOMAIN s : Append(s, m)[i] = s[i]
        /\ Append(s, m)[Len(s) + 1] = m
        /\ Range(Append(s, m)) = Range(s) \cup {m}
        /\ Len(s) \in Nat
    BY <1>1, <1>3, AppendFacts DEF m
  <1>6. /\ inbox' \in [Nodes -> Seq(Request)] /\ inbox'[n] = Append(s, m)
        /\ \A p \in Nodes \ {n} : inbox'[p] = inbox[p]
    BY <1>2, <1>4, <1>5 DEF IndInv, TypeOK
  <1>7. TypeOK' /\ History' /\ \A p \in Nodes : NodeShape(p)'
    BY <1>1, <1>6 DEF IndInv, TypeOK, History, Justified, NodeShape, Deliver, history
  <1>8. \A p \in Nodes : \A r : Truthful(p, r) => Truthful(p, r)'
    BY TruthKept DEF Deliver, history
  <1>9. ASSUME NEW p \in Nodes, p # n PROVE Mail(p)'
    <2>1. Part(inbox'[p], inbox[p]) /\ \A y \in Nodes : Part(wire'[<<y, p>>], wire[<<y, p>>])
      BY <1>1, <1>6, <1>9, PartSame
    <2> QED
      BY <2>1, <1>8, MailPart DEF IndInv
  <1>10. Mail(n)'
    <2>1. Mail(n)
      BY <1>2 DEF IndInv
    <2>2. \A y \in Nodes : Range(wire'[<<y, n>>]) \subseteq Range(wire[<<y, n>>])
      BY <1>1, <1>2, PartRange
    <2>3. m \in Range(wire[l])
      BY <1>1 DEF Range, m
    <2>4. /\ \A y \in Nodes : Range(wire'[<<y, n>>]) \subseteq Range(wire[<<y, n>>])
          /\ m \in Range(wire[<<q, n>>]) /\ m \in Coming(n)
      BY <2>2, <2>3, <1>2, ComingFacts
    <2>5. \A r \in Coming(n)' : r \in Coming(n) /\ Truthful(n, r)'
      <3>1. \A r \in Coming(n)' : r \in Coming(n)
        BY <2>4, <1>2, <1>5, <1>6, ComingFacts, ZenonT(60) DEF s
      <3> QED
        BY <3>1, <2>1, <1>2, <1>8 DEF Mail
    <2>6. \A y \in Nodes : \A r \in Range(wire'[<<y, n>>]) : r.from = y
      BY <2>1, <2>4 DEF Mail
    (* No request like m is left on any wire: on its own wire because it   *)
    (* was alone there, on another because the proposer is one node.       *)
    <2>7. \A y \in Nodes : \A r \in Range(wire'[<<y, n>>]) : ~Alike(m, r)
      <3> SUFFICES ASSUME NEW y \in Nodes, NEW i \in DOMAIN wire'[<<y, n>>]
                   PROVE  ~Alike(m, wire'[<<y, n>>][i])
        BY DEF Range
      <3>1. CASE y = q
        <4>1. PICK j \in DOMAIN wire[l] : j # x /\ wire'[l][i] = wire[l][j]
          BY <3>1, <1>1, <1>2
        <4>2. \A i1, i2 \in DOMAIN wire[l] : i1 # i2 => ~Alike(wire[l][i1], wire[l][i2])
          BY <2>1, <1>2 DEF Mail, Single
        <4>3. ~Alike(m, wire[l][j])
          BY <4>1, <4>2, <1>1 DEF m
        <4>4. wire'[<<y, n>>][i] = wire[l][j]
          BY <4>1, <3>1, <1>2
        <4> QED
          BY <4>3, <4>4
      <3>2. CASE y # q
        <4>1. wire'[<<y, n>>][i] \in Range(wire[<<y, n>>])
          BY <2>4 DEF Range
        <4>2. m.from = q /\ wire'[<<y, n>>][i].from = y
          BY <4>1, <2>1, <2>4, <1>2 DEF Mail
        <4>3. Truthful(n, m) /\ Truthful(n, wire'[<<y, n>>][i])
          BY <4>1, <2>1, <2>4, <1>2, ComingFacts DEF Mail
        <4> QED
          BY <4>2, <4>3, <3>2 DEF Truthful, Alike
      <3> QED
        BY <3>1, <3>2
    <2>8. \A i \in DOMAIN s : ~Alike(s[i], m)
      BY <2>1, <1>1, <1>2 DEF Mail, Single, m, s
    <2>9. \A i \in DOMAIN Append(s, m) : i \in DOMAIN s \/ i = Len(s) + 1
      BY <1>5
    <2>10. \A i, j \in DOMAIN Append(s, m) :
             i # j => ~Alike(Append(s, m)[i], Append(s, m)[j])
      BY <2>1, <2>8, <2>9, <1>5 DEF Mail, Single, Alike, s
    <2>11. ASSUME NEW y \in Nodes
          PROVE  /\ \A i, j \in DOMAIN wire'[<<y, n>>] :
                       i # j => ~Alike(wire'[<<y, n>>][i], wire'[<<y, n>>][j])
                 /\ \A i \in DOMAIN Append(s, m), j \in DOMAIN wire'[<<y, n>>] :
                       ~Alike(Append(s, m)[i], wire'[<<y, n>>][j])
      <3>1. PICK g \in [DOMAIN wire'[<<y, n>>] -> DOMAIN wire[<<y, n>>]] :
               /\ \A i, j \in DOMAIN wire'[<<y, n>>] : g[i] = g[j] => i = j
               /\ \A i \in DOMAIN wire'[<<y, n>>] :
                     wire'[<<y, n>>][i] = wire[<<y, n>>][g[i]]
        BY <1>1, <1>2 DEF Part
      <3>2. \A i \in DOMAIN wire'[<<y, n>>] : g[i] \in DOMAIN wire[<<y, n>>]
        OBVIOUS
      <3>3. \A i, j \in DOMAIN wire'[<<y, n>>] :
               i # j => ~Alike(wire'[<<y, n>>][i], wire'[<<y, n>>][j])
        BY <3>1, <3>2, <2>1 DEF Mail, Single
      <3>4. \A i \in DOMAIN s, j \in DOMAIN wire'[<<y, n>>] :
               ~Alike(s[i], wire'[<<y, n>>][j])
        BY <3>1, <3>2, <2>1 DEF Mail, Single, s
      <3>5. \A j \in DOMAIN wire'[<<y, n>>] : ~Alike(m, wire'[<<y, n>>][j])
        BY <2>7 DEF Range
      <3> QED
        BY <3>3, <3>4, <3>5, <2>9, <1>5
    <2>12. Single(n)'
      BY <2>10, <2>11, <1>6 DEF Single
    <2> QED
      BY <2>5, <2>6, <2>12 DEF Mail
  <1> QED
    BY <1>7, <1>9, <1>10 DEF IndInv

(* A request of the kinds that coordinate is new to p. *)
LEMMA MessageType ==
  ASSUME NEW kind \in Kinds, NEW n \in Nodes, NEW s \in Sessions, NEW P \in SUBSET Nodes
  PROVE  /\ Message(kind, n, s, P) \in Request
         /\ Message(kind, n, s, P).kind = kind /\ Message(kind, n, s, P).from = n
         /\ Message(kind, n, s, P).session = s /\ Message(kind, n, s, P).parties = P
  BY DEF Message, Request

(* A session is proposed once: its proposals are the first of their kind. *)
LEMMA ProposeInd ==
  ASSUME IndInv, NEW n \in Nodes, NEW s \in Sessions, Propose(n, s) PROVE IndInv'
  <1> DEFINE r == Message("proposal", n, s, {})
  <1>1. /\ r \in Request /\ r.kind = "proposal" /\ r.from = n /\ r.session = s
    BY MessageType DEF Kinds
  <1> HIDE DEF r
  <1>2. /\ wire' \in [Nodes \X Nodes -> Seq(Request)]
        /\ \A q, p \in Nodes : q # n \/ p = n => wire'[<<q, p>>] = wire[<<q, p>>]
        /\ \A p \in Nodes : \/ wire'[<<n, p>>] = wire[<<n, p>>]
                            \/ wire'[<<n, p>>] = Append(wire[<<n, p>>], r)
    <2>1. TypeOK /\ wire' = Send(n, Nodes \ {n}, <<r>>) /\ n \notin Nodes \ {n}
      BY DEF IndInv, Propose, r
    <2>2. wire' \in [Nodes \X Nodes -> Seq(Request)]
      BY <2>1, <1>1, SendFacts
    <2>3. \A q, p \in Nodes : q # n \/ p \notin Nodes \ {n} => wire'[<<q, p>>] = wire[<<q, p>>]
      BY <2>1, <1>1, SendFacts
    <2>4. \A p \in Nodes : \/ wire'[<<n, p>>] = wire[<<n, p>>]
                           \/ wire'[<<n, p>>] = Append(wire[<<n, p>>], r)
      BY <2>1, <1>1, SendFacts
    <2> QED
      BY <2>2, <2>3, <2>4
  <1>3. TypeOK'
    BY <1>2 DEF IndInv, TypeOK, Propose, Phases, history
  <1>4. History'
    BY DEF IndInv, History, Justified, Propose, history
  <1>5. ASSUME NEW p \in Nodes PROVE NodeShape(p)'
    <2>1. CASE p = n
      BY <2>1 DEF IndInv, TypeOK, History, Justified, NodeShape, Propose, history
    <2>2. CASE p # n
      BY <2>2, ShapeKept DEF IndInv, TypeOK, Propose, history
    <2> QED
      BY <2>1, <2>2
  <1>6. ASSUME NEW p \in Nodes PROVE Mail(p)'
    <2>1. \A m \in Coming(p) : Truthful(p, m) /\ Truthful(p, m)'
      <3>1. phase'[p] = "executing" => phase[p] = "executing" /\ run'[p] = run[p]
        BY DEF IndInv, TypeOK, Propose
      <3> QED
        BY <3>1, TruthKept DEF IndInv, Mail, Propose, history
    <2>2. CASE p = n
      <3>1. Part(inbox'[p], inbox[p]) /\ \A q \in Nodes : Part(wire'[<<q, p>>], wire[<<q, p>>])
        BY <2>2, <1>2, PartSame DEF Propose
      <3>2. \A m \in Coming(p)' : Truthful(p, m) => Truthful(p, m)'
        <4>1. \A m \in Coming(p)' : m \in Coming(p)
          BY <3>1, PartRange, ComingFacts
        <4> QED
          BY <4>1, <2>1
      <3> QED
        BY <3>1, <3>2, MailPart DEF IndInv
    <2>3. CASE p # n
      <3>1. Truthful(p, r)'
        BY <2>3, <1>1 DEF IndInv, History, Truthful, Propose, history
      <3>2. \A m \in Coming(p) : ~Alike(m, r)
        BY <2>1, <1>1 DEF Truthful, Alike, Propose
      <3>3. inbox'[p] = inbox[p] /\ \A q \in Nodes \ {n} : wire'[<<q, p>>] = wire[<<q, p>>]
        BY <1>2 DEF Propose
      <3> QED
        BY <2>1, <2>3, <3>1, <3>2, <3>3, <1>1, <1>2, MailSent DEF IndInv
    <2> QED
      BY <2>2, <2>3
  <1> QED
    BY <1>3, <1>4, <1>5, <1>6 DEF IndInv

(* The proposal just answered was the only one of its session. *)
LEMMA Phase1PollInd ==
  ASSUME IndInv, NEW n \in Nodes, Phase1Poll(n) PROVE IndInv'
  <1> DEFINE h == Head(inbox[n])
  <1>1. CASE Panic(n, "unexpected_type")
    BY <1>1, PanicInd DEF Panics
  <1>2. CASE h.kind # "p2p" /\ Receive(n) /\ ~Panic(n, "unexpected_type")
    <2>1. /\ TypeOK /\ inbox[n] # <<>> /\ Receive(n) /\ phase[n] = "phase1"
          /\ phase' = [phase EXCEPT ![n] = "phase2"]
          /\ agent' = [agent EXCEPT ![n] = h.session]
          /\ answered' = IF h.kind = "proposal"
                         THEN answered \cup {<<h.session, n>>} ELSE answered
          /\ answers' = IF h.kind = "proposal" /\ Negotiating(h.from, h.session)
                        THEN answers \cup {<<h.session, n>>} ELSE answers
          /\ UNCHANGED <<wire, run, peers, heard, proposed, started>>
      BY <1>2 DEF IndInv, Phase1Poll
    <2>2. /\ inbox' \in [Nodes -> Seq(Request)]
          /\ \A p \in Nodes : Part(inbox'[p], inbox[p])
          /\ \A p \in Nodes \ {n} : inbox'[p] = inbox[p]
          /\ h \in Request /\ h \in Coming(n)
      BY <2>1, ReceiveFacts
    <2>3. \A m \in Coming(n)' : m \in Coming(n) /\ ~Alike(h, m)
      BY <2>1, HeadUnlike DEF IndInv
    <2> HIDE DEF h
    <2>4. h.session \in Sessions /\ h.kind \in Kinds
      BY <2>2 DEF Request
    <2>5. TypeOK'
      <3>1. answered' \subseteq Sessions \X Nodes /\ answers' \subseteq Sessions \X Nodes
        BY <2>1, <2>4 DEF TypeOK
      <3>2. /\ phase' \in [Nodes -> Phases]
            /\ agent' \in [Nodes -> Sessions \cup {"none"}]
        BY <2>1, <2>4 DEF TypeOK, Phases
      <3> QED
        BY <3>1, <3>2, <2>1, <2>2 DEF TypeOK
    <2>6. h.kind = "proposal" => h.session \in proposed
      BY <2>2 DEF IndInv, Mail, Truthful
    <2>7. History'
      BY <2>1, <2>6 DEF IndInv, History, Justified
    <2>8. ASSUME NEW p \in Nodes PROVE NodeShape(p)'
      <3>1. CASE p = n
        BY <2>1, <3>1 DEF TypeOK, NodeShape
      <3>2. CASE p # n
        BY <2>1, <3>2, ShapeKept DEF IndInv, TypeOK
      <3> QED
        BY <3>1, <3>2
    <2>9. ASSUME NEW p \in Nodes PROVE Mail(p)'
      <3>1. \A m \in Coming(p)' : Truthful(p, m) => Truthful(p, m)'
        <4> SUFFICES ASSUME NEW m \in Coming(p)', Truthful(p, m) PROVE Truthful(p, m)'
          OBVIOUS
        <4>1. phase'[p] = "executing" => phase[p] = "executing" /\ run'[p] = run[p]
          BY <2>1 DEF TypeOK
        <4>2. <<m.session, p>> \in answered' =>
                 <<m.session, p>> \in answered \/ m.kind # "proposal"
          <5> SUFFICES ASSUME h.kind = "proposal", p = n, m.session = h.session
                       PROVE  m.kind # "proposal"
            BY <2>1
          <5> QED
            BY <2>3 DEF Alike
        <4> QED
          BY <2>1, <4>1, <4>2, TruthKept
      <3>2. Part(inbox'[p], inbox[p]) /\ \A q \in Nodes : Part(wire'[<<q, p>>], wire[<<q, p>>])
        BY <2>1, <2>2, PartSame
      <3> QED
        BY <3>1, <3>2, MailPart DEF IndInv
    <2> QED
      BY <2>5, <2>7, <2>8, <2>9 DEF IndInv
  <1> QED
    BY <1>1, <1>2 DEF Phase1Poll

(* The start message just obeyed was the only one of its session. *)
LEMMA Phase2PollInd ==
  ASSUME IndInv, NEW n \in Nodes, Phase2Poll(n) PROVE IndInv'
  <1> DEFINE h == Head(inbox[n])
  <1>1. CASE Panic(n, "unexpected_type") \/ Panic(n, "bad_peer_id")
    BY <1>1, PanicInd DEF Panics
  <1>2. CASE Receive(n) /\ BackToPhase1(n) /\ UNCHANGED <<wire, answers, proposed, history>>
    <2>1. /\ inbox' \in [Nodes -> Seq(Request)]
          /\ \A p \in Nodes : Part(inbox'[p], inbox[p])
      BY <1>2, ReceiveFacts DEF IndInv, Phase2Poll
    <2>2. /\ wire' \in [Nodes \X Nodes -> Seq(Request)]
          /\ \A k \in Nodes \X Nodes : Part(wire'[k], wire[k])
      BY <1>2, PartSame DEF IndInv, TypeOK
    <2> QED
      BY <1>2, <2>1, <2>2, LeaveInd DEF BackToPhase1
  <1>3. CASE /\ h.kind = "start" /\ Receive(n)
             /\ phase' = [phase EXCEPT ![n] = "executing"]
             /\ run' = [run EXCEPT ![n] = h.session]
             /\ peers' = [peers EXCEPT ![n] = h.parties]
             /\ UNCHANGED <<wire, agent, heard, answers, proposed, history>>
    <2>1. TypeOK /\ inbox[n] # <<>> /\ phase[n] = "phase2"
      BY DEF IndInv, Phase2Poll
    <2>2. /\ inbox' \in [Nodes -> Seq(Request)]
          /\ \A p \in Nodes : Part(inbox'[p], inbox[p])
          /\ \A p \in Nodes \ {n} : inbox'[p] = inbox[p]
          /\ h \in Request /\ h \in Coming(n)
      BY <2>1, <1>3, ReceiveFacts
    <2>3. \A m \in Coming(n)' : m \in Coming(n) /\ ~Alike(h, m)
      BY <2>1, <1>3, HeadUnlike DEF IndInv
    <2> HIDE DEF h
    <2>4. /\ h.session \in Sessions /\ h.parties \in SUBSET Nodes
          /\ <<h.session, h.parties>> \in started /\ n \in h.parties
      BY <2>2, <1>3 DEF IndInv, Mail, Truthful, Request
    <2>5. TypeOK'
      BY <2>1, <2>2, <2>4, <1>3 DEF TypeOK, Phases, history
    <2>6. History'
      BY <1>3 DEF IndInv, History, Justified, history
    <2>7. ASSUME NEW p \in Nodes PROVE NodeShape(p)'
      <3>1. CASE p = n
        BY <2>1, <2>4, <1>3, <3>1 DEF TypeOK, NodeShape, history
      <3>2. CASE p # n
        BY <2>1, <1>3, <3>2, ShapeKept DEF IndInv, TypeOK, history
      <3> QED
        BY <3>1, <3>2
    <2>8. ASSUME NEW p \in Nodes PROVE Mail(p)'
      <3>1. \A m \in Coming(p)' : Truthful(p, m) => Truthful(p, m)'
        <4> SUFFICES ASSUME NEW m \in Coming(p)', Truthful(p, m) PROVE Truthful(p, m)'
          OBVIOUS
        <4>1. phase'[p] = "executing" /\ run'[p] = m.session =>
                 \/ phase[p] = "executing" /\ run[p] = m.session
                 \/ m.kind # "start"
          <5>1. CASE p = n
            BY <2>1, <2>3, <1>3, <5>1 DEF TypeOK, Alike
          <5>2. CASE p # n
            BY <2>1, <1>3, <5>2 DEF TypeOK
          <5> QED
            BY <5>1, <5>2
        <4> QED
          BY <1>3, <4>1, TruthKept DEF history
      <3>2. Part(inbox'[p], inbox[p]) /\ \A q \in Nodes : Part(wire'[<<q, p>>], wire[<<q, p>>])
        BY <1>3, <2>2, PartSame
      <3> QED
        BY <3>1, <3>2, MailPart DEF IndInv
    <2> QED
      BY <2>5, <2>6, <2>7, <2>8 DEF IndInv
  <1> QED
    BY <1>1, <1>2, <1>3 DEF Phase2Poll

(* What the execution has heard keeps its type. *)
LEMMA HeardMore ==
  ASSUME TypeOK, NEW n \in Nodes, NEW kind \in {"round", "p2p"}, NEW q \in Nodes,
         heard' = [heard EXCEPT ![n] = @ \cup {<<kind, q>>}]
  PROVE  heard' \in [Nodes -> SUBSET ({"round", "p2p"} \X Nodes)]
  <1> DEFINE H == SUBSET ({"round", "p2p"} \X Nodes)
  <1>1. heard \in [Nodes -> H]
    BY DEF TypeOK
  <1>2. heard[n] \cup {<<kind, q>>} \in H
    BY <1>1
  <1> HIDE DEF H
  <1>3. heard' \in [Nodes -> H]
    BY <1>1, <1>2
  <1> QED
    BY <1>3 DEF H

(* A forwarded message only leaves the receiver. *)
LEMMA ProxyPollInd ==
  ASSUME IndInv, NEW n \in Nodes, ProxyPoll(n) PROVE IndInv'
  <1> DEFINE h == Head(inbox[n])
  <1>1. CASE Panic(n, "unknown_peer") \/ Panic(n, "agent_panic")
    BY <1>1, PanicInd DEF Panics
  <1>2. CASE /\ Receive(n)
             /\ \/ heard' = heard
                \/ /\ h.kind \in {"round", "p2p"}
                   /\ heard' = [heard EXCEPT ![n] = @ \cup {<<h.kind, h.from>>}]
             /\ UNCHANGED <<phase, wire, agent, run, peers, answers, proposed, history>>
    <2>1. TypeOK /\ inbox[n] # <<>>
      BY DEF IndInv, ProxyPoll
    <2>2. /\ inbox' \in [Nodes -> Seq(Request)]
          /\ \A p \in Nodes : Part(inbox'[p], inbox[p])
          /\ h \in Request
      BY <2>1, <1>2, ReceiveFacts
    <2> HIDE DEF h
    <2>3. TypeOK'
      <3>1. h.from \in Nodes
        BY <2>2 DEF Request
      <3>2. heard' \in [Nodes -> SUBSET ({"round", "p2p"} \X Nodes)]
        <4>1. \/ heard' = heard
              \/ /\ h.kind \in {"round", "p2p"}
                 /\ heard' = [heard EXCEPT ![n] = @ \cup {<<h.kind, h.from>>}]
          BY <1>2
        <4>2. CASE heard' = heard
          BY <4>2, <2>1 DEF TypeOK
        <4>3. CASE /\ h.kind \in {"round", "p2p"}
                   /\ heard' = [heard EXCEPT ![n] = @ \cup {<<h.kind, h.from>>}]
          BY <4>3, <3>1, <2>1, HeardMore
        <4> QED
          BY <4>1, <4>2, <4>3
      <3>3. UNCHANGED <<phase, wire, agent, run, peers, answers, proposed, answered, started>>
        BY <1>2 DEF history
      <3> QED
        BY <3>2, <3>3, <2>1, <2>2 DEF TypeOK
    <2>4. History' /\ \A p \in Nodes : NodeShape(p)'
      BY <1>2 DEF IndInv, History, Justified, NodeShape, history
    <2>5. ASSUME NEW p \in Nodes PROVE Mail(p)'
      <3>1. \A m \in Coming(p)' : Truthful(p, m) => Truthful(p, m)'
        BY <1>2, TruthKept DEF history
      <3>2. Part(inbox'[p], inbox[p]) /\ \A q \in Nodes : Part(wire'[<<q, p>>], wire[<<q, p>>])
        BY <1>2, <2>2, PartSame
      <3> QED
        BY <3>1, <3>2, MailPart DEF IndInv
    <2> QED
      BY <2>3, <2>4, <2>5 DEF IndInv
  <1> QED
    BY <1>1, <1>2 DEF ProxyPoll

(* The start message goes to those who answered, and a session is started once. *)
LEMMA NegotiationAnswerInd ==
  ASSUME IndInv, NEW n \in Nodes, NEW p \in Nodes, NegotiationAnswer(n, p) PROVE IndInv'
  <1>0. PICK s, joined, r : /\ s = agent[n] /\ joined = peers[n] \cup {p}
                            /\ r = Message("start", n, s, joined)
    OBVIOUS
  <1>1. /\ TypeOK /\ phase[n] = "negotiation" /\ <<s, p>> \in answers
        /\ peers' = [peers EXCEPT ![n] = joined]
        /\ UNCHANGED <<inbox, agent, heard, proposed, answered>>
    BY <1>0 DEF IndInv, NegotiationAnswer
  <1>2. /\ s \in proposed /\ s \in Sessions /\ Proposer[s] = n /\ n \in joined
        /\ \A x \in joined \ {n} : <<s, x>> \in answered
        /\ \A st \in started : st[1] # s
        /\ joined \in SUBSET Nodes
    <2>1. <<s, p>> \in answered
      BY <1>1 DEF IndInv, History
    <2> QED
      BY <1>1, <1>0, <2>1 DEF IndInv, NodeShape, TypeOK
  <1>3. CASE /\ Cardinality(joined) = Size[s]
             /\ phase' = [phase EXCEPT ![n] = "executing"]
             /\ run' = [run EXCEPT ![n] = s]
             /\ wire' = Send(n, joined \ {n}, <<r>>)
             /\ answers' = OtherAnswers(s)
             /\ started' = started \cup {<<s, joined>>}
    <2>1. /\ r \in Request /\ r.kind = "start" /\ r.from = n /\ r.session = s
          /\ r.parties = joined
      BY <1>2, <1>0, MessageType DEF Kinds
    <2>2. wire' = Send(n, joined \ {n}, <<r>>) /\ n \notin joined \ {n}
      BY <1>3
    <2>3. wire' \in [Nodes \X Nodes -> Seq(Request)]
      BY <1>1, <2>1, <2>2, SendFacts
    <2>4. \A q, y \in Nodes : q # n \/ y \notin joined \ {n} => wire'[<<q, y>>] = wire[<<q, y>>]
      <3>1. PICK to : to = joined \ {n}
        OBVIOUS
      <3>2. wire' = Send(n, to, <<r>>) /\ n \notin to
        BY <2>2, <3>1
      <3>3. \A q, y \in Nodes : q # n \/ y \notin to => wire'[<<q, y>>] = wire[<<q, y>>]
        BY <1>1, <2>1, <3>2, SendFacts
      <3> QED
        BY <3>1, <3>3
    <2>5. \A y \in Nodes : \/ wire'[<<n, y>>] = wire[<<n, y>>]
                           \/ wire'[<<n, y>>] = Append(wire[<<n, y>>], r)
      BY <1>1, <2>1, <2>2, SendFacts, ZenonT(60)
    <2>6. answers' \subseteq answers
      BY <1>3 DEF OtherAnswers
    <2>7. started' = started \cup {<<s, joined>>} /\ Cardinality(joined) = Size[s]
      BY <1>3
    <2>8. TypeOK'
      <3>1. phase' \in [Nodes -> Phases] /\ run' \in [Nodes -> Sessions \cup {"none"}]
        BY <1>1, <1>2, <1>3 DEF TypeOK, Phases
      <3>2. peers' \in [Nodes -> SUBSET Nodes]
        BY <1>1, <1>2 DEF TypeOK
      <3>3. started' \subseteq Sessions \X SUBSET Nodes
        BY <1>1, <1>2, <2>7 DEF TypeOK
      <3> QED
        BY <3>1, <3>2, <3>3, <1>1, <2>3, <2>6 DEF TypeOK
    <2>9. History'
      <3>1. \A st \in started : Justified(st[1], st[2])'
        BY <1>1 DEF IndInv, History, Justified
      <3>2. Justified(s, joined)'
        BY <1>1, <1>2, <2>7 DEF Justified
      <3>3. \A st \in started' : Justified(st[1], st[2])'
        BY <3>1, <3>2, <2>7
      <3>4. \A st1, st2 \in started' : st1[1] = st2[1] => st1 = st2
        BY <1>2, <2>7 DEF IndInv, History
      <3>5. answers' \subseteq answered' /\ \A an \in answered' : an[1] \in proposed'
        BY <1>1, <2>6 DEF IndInv, History
      <3> QED
        BY <3>3, <3>4, <3>5 DEF History
    <2>10. ASSUME NEW x \in Nodes PROVE NodeShape(x)'
      <3>1. CASE x = n
        BY <3>1, <1>1, <1>2, <1>3 DEF TypeOK, NodeShape
      <3>2. CASE x # n
        BY <3>2, <1>1, <1>2, <1>3, ShapeKept DEF IndInv, TypeOK
      <3> QED
        BY <3>1, <3>2
    <2>11. ASSUME NEW x \in Nodes PROVE Mail(x)'
      <3>1. \A m \in Coming(x) : Truthful(x, m) /\ Truthful(x, m)'
        <4> SUFFICES ASSUME NEW m \in Coming(x) PROVE Truthful(x, m) /\ Truthful(x, m)'
          OBVIOUS
        <4>1. Truthful(x, m)
          BY DEF IndInv, Mail
        <4>2. phase'[x] = "executing" /\ run'[x] = m.session =>
                 \/ phase[x] = "executing" /\ run[x] = m.session
                 \/ m.kind # "start"
          <5>1. CASE x = n
            BY <5>1, <4>1, <1>1, <1>2, <1>3 DEF Truthful, TypeOK
          <5>2. CASE x # n
            BY <5>2, <1>1, <1>3 DEF TypeOK
          <5> QED
            BY <5>1, <5>2
        <4> QED
          BY <4>1, <4>2, <1>1, <2>7, TruthKept
      <3>2. CASE x \notin joined \ {n}
        <4>1. inbox'[x] = inbox[x] /\ \A q \in Nodes : wire'[<<q, x>>] = wire[<<q, x>>]
          BY <3>2, <1>1, <2>4
        <4>2. \A m \in Coming(x)' : m \in Coming(x)
          BY <4>1, ComingFacts
        <4>3. Part(inbox'[x], inbox[x]) /\ \A q \in Nodes : Part(wire'[<<q, x>>], wire[<<q, x>>])
          BY <4>1, PartSame
        <4> QED
          BY <3>1, <4>2, <4>3, MailPart DEF IndInv
      <3>3. CASE x \in joined \ {n}
        <4>1. Truthful(x, r)'
          <5>1. ~(phase[x] = "executing" /\ run[x] = s)
            BY <1>2 DEF IndInv, NodeShape
          <5>2. phase'[x] = phase[x] /\ run'[x] = run[x]
            BY <3>3, <1>1, <1>3 DEF TypeOK
          <5> QED
            BY <5>1, <5>2, <3>3, <1>2, <2>1, <2>7 DEF Truthful
        <4>2. \A m \in Coming(x) : ~Alike(m, r)
          BY <3>1, <1>2, <2>1 DEF Truthful, Alike
        <4>3. inbox'[x] = inbox[x] /\ \A q \in Nodes \ {n} : wire'[<<q, x>>] = wire[<<q, x>>]
          BY <1>1, <2>4
        <4> QED
          BY <3>1, <3>3, <4>1, <4>2, <4>3, <1>1, <2>1, <2>5, MailSent DEF IndInv
      <3> QED
        BY <3>2, <3>3
    <2> QED
      BY <2>8, <2>9, <2>10, <2>11 DEF IndInv
  <1>4. CASE /\ Cardinality(joined) # Size[s]
             /\ answers' = answers \ {<<s, p>>}
             /\ UNCHANGED <<phase, run, wire, started>>
    <2>1. TypeOK'
      BY <1>1, <1>2, <1>4 DEF TypeOK
    <2>2. History'
      BY <1>1, <1>4 DEF IndInv, History, Justified
    <2>3. ASSUME NEW x \in Nodes PROVE NodeShape(x)'
      <3>1. CASE x = n
        BY <3>1, <1>1, <1>2, <1>4, <1>0 DEF TypeOK, NodeShape
      <3>2. CASE x # n
        BY <3>2, <1>1, <1>4, ShapeKept DEF IndInv, TypeOK
      <3> QED
        BY <3>1, <3>2
    <2>4. ASSUME NEW x \in Nodes PROVE Mail(x)'
      <3>1. \A m : Truthful(x, m) => Truthful(x, m)'
        BY <1>1, <1>4, TruthKept
      <3>2. Part(inbox'[x], inbox[x]) /\ \A q \in Nodes : Part(wire'[<<q, x>>], wire[<<q, x>>])
        BY <1>1, <1>4, PartSame
      <3> QED
        BY <3>1, <3>2, MailPart DEF IndInv
    <2> QED
      BY <2>1, <2>2, <2>3, <2>4 DEF IndInv
  <1> QED
    BY <1>3, <1>4, <1>0 DEF NegotiationAnswer

(* A computation message goes from a party to the other parties. *)
LEMMA ExecSendInd ==
  ASSUME IndInv, NEW n \in Nodes, NEW kind \in {"round", "p2p"}, ExecSend(n, kind)
  PROVE  IndInv'
  <1>0. PICK r : r = Message(kind, n, run[n], {})
    OBVIOUS
  <1>1. /\ TypeOK /\ phase[n] = "executing"
        /\ heard' = [heard EXCEPT ![n] = @ \cup {<<kind, n>>}]
        /\ wire' = Send(n, peers[n] \ {n}, <<r>>) /\ n \notin peers[n] \ {n}
        /\ UNCHANGED <<phase, inbox, agent, run, peers, answers, proposed, answered, started>>
    BY <1>0 DEF IndInv, ExecSend, history
  <1>2. /\ run[n] \in Sessions /\ <<run[n], peers[n]>> \in started /\ n \in peers[n]
        /\ peers[n] \in SUBSET Nodes
    BY <1>1 DEF IndInv, NodeShape, TypeOK
  <1>3. r \in Request /\ r.kind = kind /\ r.from = n /\ r.session = run[n]
    BY <1>2, <1>0, MessageType DEF Kinds
  <1>4. wire' \in [Nodes \X Nodes -> Seq(Request)]
    BY <1>1, <1>3, SendFacts
  <1>5. \A q, y \in Nodes : q # n \/ y \notin peers[n] \ {n} => wire'[<<q, y>>] = wire[<<q, y>>]
    BY <1>1, <1>3, SendFacts, ZenonT(60)
  <1>6. \A y \in Nodes : \/ wire'[<<n, y>>] = wire[<<n, y>>]
                         \/ wire'[<<n, y>>] = Append(wire[<<n, y>>], r)
    BY <1>1, <1>3, SendFacts, ZenonT(60)
  <1>7. TypeOK'
    <2>1. heard' \in [Nodes -> SUBSET ({"round", "p2p"} \X Nodes)]
      BY <1>1, HeardMore
    <2> QED
      BY <1>1, <1>4, <2>1 DEF TypeOK
  <1>8. History' /\ \A x \in Nodes : NodeShape(x)'
    BY <1>1 DEF IndInv, History, Justified, NodeShape
  <1>9. ASSUME NEW x \in Nodes PROVE Mail(x)'
    <2>1. \A m \in Coming(x) : Truthful(x, m) /\ Truthful(x, m)'
      BY <1>1, TruthKept DEF IndInv, Mail
    <2>2. CASE x \notin peers[n] \ {n}
      <3>1. inbox'[x] = inbox[x] /\ \A q \in Nodes : wire'[<<q, x>>] = wire[<<q, x>>]
        BY <2>2, <1>1, <1>5
      <3>2. \A m \in Coming(x)' : m \in Coming(x)
        BY <3>1, ComingFacts
      <3>3. Part(inbox'[x], inbox[x]) /\ \A q \in Nodes : Part(wire'[<<q, x>>], wire[<<q, x>>])
        BY <3>1, PartSame
      <3> QED
        BY <2>1, <3>2, <3>3, MailPart DEF IndInv
    <2>3. CASE x \in peers[n] \ {n}
      <3>1. Truthful(x, r)'
        BY <2>3, <1>1, <1>2, <1>3 DEF Truthful
      <3>2. \A m \in Coming(x) : ~Alike(m, r)
        BY <1>3 DEF Alike
      <3>3. inbox'[x] = inbox[x] /\ \A q \in Nodes \ {n} : wire'[<<q, x>>] = wire[<<q, x>>]
        BY <1>1, <1>5
      <3> QED
        BY <2>1, <2>3, <3>1, <3>2, <3>3, <1>1, <1>3, <1>6, MailSent DEF IndInv
    <2> QED
      BY <2>2, <2>3
  <1> QED
    BY <1>7, <1>8, <1>9 DEF IndInv

-----------------------------------------------------------------------------
(* Nothing is under way at first. *)
LEMMA InitInd == Init => IndInv
  <1> SUFFICES ASSUME Init PROVE IndInv
    OBVIOUS
  <1>1. TypeOK
    BY DEF Init, TypeOK, Phases
  <1>2. History
    BY DEF Init, History
  <1>3. \A n \in Nodes : NodeShape(n)
    BY DEF Init, NodeShape
  <1>4. ASSUME NEW n \in Nodes PROVE Mail(n)
    <2>1. inbox[n] = <<>> /\ \A q \in Nodes : wire[<<q, n>>] = <<>>
      BY DEF Init
    <2>2. DOMAIN <<>> = {} /\ Range(<<>>) = {}
      BY DEF Range
    <2>3. \A m : m \notin Coming(n)
      BY <2>1, <2>2, ComingFacts
    <2> QED
      BY <2>1, <2>2, <2>3 DEF Mail, Single
  <1> QED
    BY <1>1, <1>2, <1>3, <1>4 DEF IndInv

(* The invariant is inductive. *)
LEMMA NextInd == IndInv /\ [Next]_vars => IndInv'
  <1> SUFFICES ASSUME IndInv, [Next]_vars PROVE IndInv'
    OBVIOUS
  <1>1. ASSUME NEW l \in Nodes \X Nodes, NEW x, Deliver(l, x) \/ Lose(l, x) PROVE IndInv'
    BY <1>1, DeliverInd, LoseInd
  <1>2. ASSUME NEW n \in Nodes, NEW s \in Sessions, Propose(n, s) PROVE IndInv'
    BY <1>2, ProposeInd
  <1>3. ASSUME NEW n \in Nodes, Phase1Poll(n) \/ Phase2Poll(n) \/ ProxyPoll(n) PROVE IndInv'
    BY <1>3, Phase1PollInd, Phase2PollInd, ProxyPollInd
  <1>4. ASSUME NEW n \in Nodes, Phase2Timeout(n) PROVE IndInv'
    BY <1>4, BackToPhase1Ind DEF Phase2Timeout
  <1>5. ASSUME NEW n \in Nodes, NEW p \in Nodes, NegotiationAnswer(n, p) PROVE IndInv'
    BY <1>5, NegotiationAnswerInd
  <1>6. ASSUME NEW n \in Nodes, NegotiationTimeout(n) PROVE IndInv'
    BY <1>6, BackToPhase1Ind DEF NegotiationTimeout, OtherAnswers
  <1>7. ASSUME NEW n \in Nodes, NEW kind \in {"round", "p2p"}, ExecSend(n, kind) PROVE IndInv'
    BY <1>7, ExecSendInd
  <1>8. ASSUME NEW n \in Nodes, ExecFinish(n) \/ ExecAbandon(n) PROVE IndInv'
    BY <1>8, BackToPhase1Ind DEF ExecFinish, ExecAbandon
  <1>9. CASE UNCHANGED vars
    <2>1. inbox' = inbox /\ wire' = wire
      BY <1>9 DEF vars
    <2>2. TypeOK' /\ History' /\ \A n \in Nodes : NodeShape(n)'
      BY <1>9 DEF vars, history, IndInv, TypeOK, History, Justified, NodeShape
    <2>3. ASSUME NEW n \in Nodes PROVE Mail(n)'
      BY <1>9, <2>1, PartSame, TruthKept, MailPart DEF vars, IndInv
    <2> QED
      BY <2>2, <2>3 DEF IndInv
  <1> QED
    BY <1>1, <1>2, <1>3, <1>4, <1>5, <1>6, <1>7, <1>8, <1>9 DEF Next

(* Hence it holds throughout. *)
LEMMA SpecInd == Spec => []IndInv
  BY InitInd, NextInd, PTL DEF Spec

(* Every variable keeps its type, for any rooms, sessions and sizes. *)
THEOREM TypeCorrect == Spec => []TypeOK
  <1>1. IndInv => TypeOK
    BY DEF IndInv
  <1> QED
    BY <1>1, SpecInd, PTL

(* Every execution obeys a start message its proposer issued for as many    *)
(* parties as the client asked for, all of which had accepted the proposal, *)
(* and a session is started once: whatever the network loses, delays or     *)
(* reorders, and although a joiner forgets what it answered                 *)
(* (coordination.rs:130-186, negotiation.rs:70-192).                        *)
THEOREM StartsAreJustified == Spec => []StartJustified
  <1>1. IndInv => StartJustified
    <2> SUFFICES ASSUME IndInv PROVE StartJustified
      OBVIOUS
    <2>1. ASSUME NEW n \in Nodes, phase[n] = "executing"
          PROVE  /\ <<run[n], peers[n]>> \in started /\ n \in peers[n]
                 /\ Justified(run[n], peers[n])
      BY <2>1 DEF IndInv, NodeShape, History
    <2> QED
      BY <2>1 DEF StartJustified, Justified, IndInv, History
  <1> QED
    BY <1>1, SpecInd, PTL

(* A computation is never brought down by its own messages: what is still   *)
(* on its way to a party of it is a round from another party, so only a     *)
(* foreign session can make its proxy or its agent panic                    *)
(* (network_proxy.rs:59, round_based.rs:23).                                *)
THEOREM OwnSessionIsSafe == Spec => []OwnSessionSafe
  <1>1. IndInv => OwnSessionSafe
    <2> SUFFICES ASSUME IndInv, NEW n \in Nodes, phase[n] = "executing",
                        NEW m \in Coming(n), m.session = run[n]
                 PROVE  m.from \in peers[n] /\ m.kind \in {"round", "p2p"}
      BY DEF OwnSessionSafe
    <2>1. Truthful(n, m)
      BY DEF IndInv, Mail
    <2>2. /\ <<run[n], peers[n]>> \in started /\ n \in peers[n]
          /\ Justified(run[n], peers[n])
      BY DEF IndInv, NodeShape, History
    <2>3. m.kind \in Kinds
      <3>1. \A s \in Seq(Request) : \A y \in Range(s) : y \in Request
        BY DEF Range
      <3>2. m \in Request
        BY <3>1, ComingFacts DEF IndInv, TypeOK
      <3> QED
        BY <3>2 DEF Request
    (* The party has accepted the proposal, and obeys the start message.     *)
    <2>4. m.kind # "proposal" /\ m.kind # "start"
      BY <2>1, <2>2 DEF Truthful, Justified
    <2>5. m.from \in peers[n]
      <3>1. PICK P \in SUBSET Nodes : <<m.session, P>> \in started /\ m.from \in P
        BY <2>1, <2>3, <2>4 DEF Truthful, Kinds
      <3>2. P = peers[n]
        BY <3>1, <2>2 DEF IndInv, History
      <3> QED
        BY <3>1, <3>2
    <2> QED
      BY <2>3, <2>4, <2>5 DEF Kinds
  <1> QED
    BY <1>1, SpecInd, PTL
=============================================================================
