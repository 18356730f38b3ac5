-------------------------- MODULE EncodingProofs ---------------------------
(***************************************************************************)
(* Proofs about Encoding, for every number, length and size, wherever a    *)
(* stream ends.                                                            *)
(*                                                                         *)
(* Varint and Value are defined by recursion, so the proof begins with why *)
(* they are functions at all: what holds of a number if it holds of all    *)
(* smaller ones holds of all (Induction, for sets of numbers), and         *)
(* functions that obey a recursive definition up to m agree there, so one  *)
(* that obeys it everywhere exists (Recursion).  Then a number is read     *)
(* back from the bytes it is written as (VarintValue), several numbers one *)
(* after another are told apart by their last bytes, and a beginning of    *)
(* them has fewer (Reads).  So a stream is read as a whole or not at all.  *)
(*                                                                         *)
(* For start messages the invariant says what is in the writer's buffer:   *)
(* as long as nothing was passed on, all that was written (Buffering).     *)
(***************************************************************************)
EXTENDS Encoding, SequenceTheorems, FiniteSetTheorems, WellFoundedInduction, TLAPS

-----------------------------------------------------------------------------
(* Induction.                                                               *)

(* A set of natural numbers that is not empty has a least element. *)
LEMMA Least ==
  ASSUME NEW T, T \subseteq Nat, T # {}
  PROVE  \E x \in T : \A y \in T : x <= y
  <1> DEFINE L == {ss \in Nat \X Nat : ss[1] < ss[2]}
  <1>1. IsWellFoundedOn(L, Nat)
    BY NatLessThanWellFounded DEF OpToRel
  <1>2. PICK x \in T : \A y \in T : <<y, x>> \notin L
    BY <1>1, WFMin
  <1>3. \A y \in T : y \in Nat /\ x \in Nat /\ <<y, x>> \in Nat \X Nat
    OBVIOUS
  <1>4. \A y \in T : ~(y < x)
    BY <1>2, <1>3
  <1> QED
    BY <1>3, <1>4

(* So what holds of a number whenever it holds of all below it holds of all. *)
LEMMA Induction ==
  ASSUME NEW T, T \subseteq Nat, \A x \in Nat : (\A y \in Nat : y < x => y \in T) => x \in T
  PROVE  T = Nat
  <1> SUFFICES ASSUME Nat \ T # {} PROVE FALSE
    OBVIOUS
  <1>1. PICK x \in Nat \ T : \A y \in Nat \ T : x <= y
    BY Least
  <1>2. \A y \in Nat : y < x => y \in T
    BY <1>1
  <1> QED
    BY <1>1, <1>2

(* g obeys a recursive definition at elements smaller than m: it is base at  *)
(* those of stop, and elsewhere what step makes of its value further down.   *)
Obeys(g, S, size, stop, base, down, step, m) ==
    \A x \in S : size[x] < m =>
        g[x] = IF x \in stop THEN base[x] ELSE step[<<x, g[down[x]]>>]

(* The recursion has values in V and goes down to smaller elements. *)
Recurs(S, V, size, stop, base, down, step) ==
    /\ size \in [S -> Nat] /\ base \in [S -> V]
    /\ down \in [S -> S] /\ step \in [S \X V -> V]
    /\ \A x \in S : x \notin stop => size[down[x]] < size[x]

(* A definition by recursion along a size defines a function. *)
LEMMA Recursion ==
  ASSUME NEW S, NEW V, NEW size, NEW stop, NEW base, NEW down, NEW step,
         Recurs(S, V, size, stop, base, down, step)
  PROVE  \E f \in [S -> V] : \A x \in S :
            f[x] = IF x \in stop THEN base[x] ELSE step[<<x, f[down[x]]>>]
  <1> DEFINE Ok(g, m) == Obeys(g, S, size, stop, base, down, step, m)
             T == {m \in Nat : \E g \in [S -> V] : Ok(g, m)}
  <1>0. /\ size \in [S -> Nat] /\ base \in [S -> V]
        /\ down \in [S -> S] /\ step \in [S \X V -> V]
        /\ \A x \in S : x \notin stop => size[down[x]] < size[x]
    BY DEF Recurs
  <1> USE <1>0
  (* There is a solution up to any size, ... *)
  <1>1. ASSUME NEW m \in Nat, \A k \in Nat : k < m => k \in T
        PROVE  m \in T
    <2>1. CASE m = 0
      <3>1. Ok(base, m)
        BY <2>1 DEF Obeys
      <3> QED
        BY <3>1
    <2>2. CASE m # 0
      <3>1. m - 1 \in Nat /\ m - 1 < m
        BY <2>2
      <3>2. PICK g \in [S -> V] : Ok(g, m - 1)
        BY <3>1, <1>1
      <3> DEFINE h == [x \in S |-> IF x \in stop THEN base[x] ELSE step[<<x, g[down[x]]>>]]
      <3>3. h \in [S -> V]
        OBVIOUS
      <3>4. \A x \in S : size[x] < m - 1 => h[x] = g[x]
        BY <3>2 DEF Obeys
      <3>5. \A x \in S : size[x] < m /\ x \notin stop => size[down[x]] < m - 1 /\ down[x] \in S
        <4> TAKE x \in S
        <4>1. size[x] \in Nat /\ down[x] \in S /\ size[down[x]] \in Nat
          OBVIOUS
        <4> QED
          BY <4>1, <3>1
      <3>6. \A x \in S : size[x] < m =>
              h[x] = IF x \in stop THEN base[x] ELSE step[<<x, h[down[x]]>>]
        BY <3>4, <3>5
      <3>7. Ok(h, m)
        BY <3>6 DEF Obeys
      <3> QED
        BY <3>3, <3>7
    <2> QED
      BY <2>1, <2>2
  <1>2. T = Nat
    <2> HIDE DEF T
    <2>1. T \subseteq Nat
      BY DEF T
    <2> QED
      BY <1>1, <2>1, Induction
  (* ... two of them agree as far as both are solutions, ... *)
  <1>3. \A m, k \in Nat, z \in S : \A g, h :
           Ok(g, m) /\ Ok(h, k) /\ size[z] < m /\ size[z] < k => g[z] = h[z]
    <2> TAKE m, k \in Nat, z \in S
    <2> TAKE g, h
    <2> HAVE Ok(g, m) /\ Ok(h, k) /\ size[z] < m /\ size[z] < k
    <2> DEFINE B == {x \in S : size[x] < m /\ size[x] < k /\ g[x] # h[x]}
               A == {size[x] : x \in B}
    <2> SUFFICES ASSUME B # {} PROVE FALSE
      OBVIOUS
    <2>1. A \subseteq Nat /\ A # {}
      OBVIOUS
    <2>2. PICK a \in A : \A b \in A : a <= b
      <3> HIDE DEF A
      <3> QED
        BY <2>1, Least
    <2>3. PICK x \in B : size[x] = a /\ \A y \in B : size[x] <= size[y]
      BY <2>2
    <2>4. x \in S /\ size[x] < m /\ size[x] < k /\ g[x] # h[x]
      BY <2>3
    <2>5. x \notin stop
      BY <2>4 DEF Obeys
    <2>6. size[down[x]] < size[x] /\ down[x] \in S /\ size[down[x]] \in Nat /\ size[x] \in Nat
      BY <2>4, <2>5
    <2>7. down[x] \notin B
      BY <2>3, <2>6
    <2>8. g[down[x]] = h[down[x]]
      BY <2>4, <2>6, <2>7
    <2> QED
      BY <2>4, <2>5, <2>8 DEF Obeys
  (* ... so each value is that of any solution that reaches it. *)
  <1>4. PICK s \in [Nat -> [S -> V]] : \A m \in Nat : Ok(s[m], m)
    <2> DEFINE s == [m \in Nat |-> CHOOSE g \in [S -> V] : Ok(g, m)]
    <2>1. \A m \in Nat : s[m] \in [S -> V] /\ Ok(s[m], m)
      BY <1>2
    <2> QED
      BY <2>1
  <1> DEFINE f == [x \in S |-> s[size[x] + 1][x]]
  <1>5. f \in [S -> V]
    OBVIOUS
  <1>6. ASSUME NEW x \in S
        PROVE  f[x] = IF x \in stop THEN base[x] ELSE step[<<x, f[down[x]]>>]
    <2> DEFINE a == size[x] + 1
    <2>1. a \in Nat /\ size[x] < a /\ Ok(s[a], a) /\ s[a] \in [S -> V] /\ f[x] = s[a][x]
      BY <1>4
    <2>2. f[x] = IF x \in stop THEN base[x] ELSE step[<<x, s[a][down[x]]>>]
      BY <2>1 DEF Obeys
    <2>3. CASE x \in stop
      BY <2>2, <2>3
    <2>4. CASE x \notin stop
      <3> DEFINE b == size[down[x]] + 1
      <3>1. /\ down[x] \in S /\ size[down[x]] < a /\ b \in Nat /\ size[down[x]] < b
            /\ Ok(s[b], b) /\ s[b] \in [S -> V] /\ f[down[x]] = s[b][down[x]]
        BY <2>4, <1>4
      <3> HIDE DEF f, a, b
      <3>2. s[a][down[x]] = s[b][down[x]]
        <4>1. PICK g, h, z : g = s[a] /\ h = s[b] /\ z = down[x]
          OBVIOUS
        <4>2. /\ a \in Nat /\ b \in Nat /\ Ok(g, a) /\ Ok(h, b) /\ z \in S /\ size[z] < a /\ size[z] < b
          BY <2>1, <3>1, <4>1
        <4>3. g[z] = h[z]
          BY <4>2, <1>3
        <4> QED
          BY <4>1, <4>3
      <3> QED
        BY <2>2, <2>4, <3>1, <3>2
    <2> QED
      BY <2>3, <2>4
  <1> QED
    BY <1>5, <1>6

-----------------------------------------------------------------------------
(* Numbers as bytes.                                                        *)

(* Varint and Value obey the equations that define them. *)
LEMMA VarintDef ==
  \A x \in Nat : Varint[x] =
    IF x < 128 THEN <<x>> ELSE <<128 + (x % 128)>> \o Varint[x \div 128]
  <1> DEFINE size == [x \in Nat |-> x]
             stop == {x \in Nat : x < 128}
             base == [x \in Nat |-> <<x>>]
             down == [x \in Nat |-> x \div 128]
             step == [p \in Nat \X Seq(Nat) |-> <<128 + (p[1] % 128)>> \o p[2]]
  <1>1. size \in [Nat -> Nat] /\ base \in [Nat -> Seq(Nat)]
    OBVIOUS
  <1>2. \A x \in Nat : x \div 128 \in Nat /\ x % 128 \in Nat
    OBVIOUS
  <1>3. down \in [Nat -> Nat]
    BY <1>2
  <1>4. step \in [Nat \X Seq(Nat) -> Seq(Nat)]
    <2>1. \A c \in Nat, w \in Seq(Nat) : <<c>> \o w \in Seq(Nat)
      BY ConcatProperties
    <2> QED
      BY <2>1, <1>2
  <1>5. \A x \in Nat : x \notin stop => size[down[x]] < size[x]
    BY <1>2
  <1>6. PICK f \in [Nat -> Seq(Nat)] : \A x \in Nat :
           f[x] = IF x \in stop THEN base[x] ELSE step[<<x, f[down[x]]>>]
    <2> HIDE DEF size, stop, base, down, step
    <2>1. PICK S, V : S = Nat /\ V = Seq(Nat)
      OBVIOUS
    <2>2. Recurs(S, V, size, stop, base, down, step)
      BY <2>1, <1>1, <1>3, <1>4, <1>5 DEF Recurs
    <2>3. \E f \in [S -> V] : \A x \in S :
            f[x] = IF x \in stop THEN base[x] ELSE step[<<x, f[down[x]]>>]
      BY <2>2, Recursion
    <2> QED
      BY <2>1, <2>3
  <1>7. \A x \in Nat : f[x] = IF x < 128 THEN <<x>> ELSE <<128 + (x % 128)>> \o f[x \div 128]
    BY <1>6, <1>2, ZenonT(60)
  <1>8. f = [x \in Nat |-> IF x < 128 THEN <<x>> ELSE <<128 + (x % 128)>> \o f[x \div 128]]
    BY <1>6, <1>7
  <1>9. Varint = [x \in Nat |-> IF x < 128 THEN <<x>> ELSE <<128 + (x % 128)>> \o Varint[x \div 128]]
    BY <1>8, ZenonT(60) DEF Varint
  <1> QED
    BY <1>9

LEMMA ValueDef ==
  \A b \in Seq(Nat) : Value[b] =
    IF b = <<>> THEN 0 ELSE (Head(b) % 128) + 128 * Value[Tail(b)]
  <1> DEFINE S == Seq(Nat)
             size == [b \in S |-> Len(b)]
             stop == {<<>>}
             base == [b \in S |-> 0]
             down == [b \in S |-> IF b = <<>> THEN <<>> ELSE Tail(b)]
             step == [p \in S \X Nat |-> IF p[1] = <<>> THEN 0 ELSE (Head(p[1]) % 128) + 128 * p[2]]
  <1>1. size \in [S -> Nat] /\ base \in [S -> Nat]
    OBVIOUS
  <1>2. \A b \in S : b # <<>> => Head(b) \in Nat /\ Tail(b) \in S /\ Len(Tail(b)) < Len(b)
    OBVIOUS
  <1>3. down \in [S -> S]
    BY <1>2
  <1>4. step \in [S \X Nat -> Nat]
    BY <1>2
  <1>5. \A b \in S : b \notin stop => size[down[b]] < size[b]
    BY <1>2
  <1>6. PICK f \in [S -> Nat] : \A b \in S :
           f[b] = IF b \in stop THEN base[b] ELSE step[<<b, f[down[b]]>>]
    <2> HIDE DEF S, size, stop, base, down, step
    <2>1. Recurs(S, Nat, size, stop, base, down, step)
      BY <1>1, <1>3, <1>4, <1>5 DEF Recurs
    <2> QED
      BY <2>1, Recursion
  <1>7. \A b \in S : f[b] = IF b = <<>> THEN 0 ELSE (Head(b) % 128) + 128 * f[Tail(b)]
    BY <1>6, <1>2, ZenonT(60)
  <1>8. f = [b \in S |-> IF b = <<>> THEN 0 ELSE (Head(b) % 128) + 128 * f[Tail(b)]]
    BY <1>6, <1>7
  <1>9. Value = [b \in S |-> IF b = <<>> THEN 0 ELSE (Head(b) % 128) + 128 * Value[Tail(b)]]
    BY <1>8 DEF Value
  <1> QED
    BY <1>9

(* The bytes of one number: its last byte is below 128, and no other. *)
Coded(b) ==
    /\ b \in Seq(Nat) /\ b # <<>>
    /\ b[Len(b)] < 128
    /\ \A i \in 1 .. Len(b) - 1 : b[i] >= 128

(* What a number is written as is the bytes of one number, and is read back *)
(* as that number.                                                          *)
LEMMA VarintValue ==
  ASSUME NEW n0 \in Nat
  PROVE  Coded(Varint[n0]) /\ Value[Varint[n0]] = n0
  <1> DEFINE T == {x \in Nat : Coded(Varint[x]) /\ Value[Varint[x]] = x}
  <1>1. ASSUME NEW x \in Nat, \A y \in Nat : y < x => y \in T
        PROVE  x \in T
    <2>1. CASE x < 128
      <3>1. PICK v : v = <<x>>
        OBVIOUS
      <3>2. v \in Seq(Nat) /\ v # <<>> /\ Len(v) = 1 /\ v[1] = x /\ Head(v) = x /\ Tail(v) = <<>>
        BY <3>1
      <3>3. Coded(v)
        BY <2>1, <3>2 DEF Coded
      <3>4. Value[<<>>] = 0
        <4>1. <<>> \in Seq(Nat)
          OBVIOUS
        <4> QED
          BY <4>1, ValueDef
      <3>5. Value[v] = (x % 128) + 128 * 0
        BY <3>2, <3>4, ValueDef, ZenonT(60)
      <3>6. Value[v] = x
        BY <2>1, <3>5
      <3> QED
        BY <2>1, <3>1, <3>3, <3>6, VarintDef, ZenonT(60)
    <2>2. CASE x >= 128
      <3>1. PICK y, c, w, v : y = x \div 128 /\ c = 128 + (x % 128) /\ w = Varint[y] /\ v = <<c>> \o w
        OBVIOUS
      <3>2. y \in Nat /\ y < x /\ c \in Nat /\ c >= 128 /\ c % 128 = x % 128 /\ x = (c % 128) + 128 * y
        BY <2>2, <3>1
      <3>3. Coded(w) /\ Value[w] = y
        BY <3>1, <3>2, <1>1
      <3>4. w \in Seq(Nat) /\ Len(w) \in Nat \ {0} /\ <<c>> \in Seq(Nat) /\ Len(<<c>>) = 1 /\ <<c>>[1] = c
        BY <3>2, <3>3 DEF Coded
      <3>5. /\ v \in Seq(Nat) /\ Len(v) = 1 + Len(w)
            /\ \A i \in 1 .. 1 + Len(w) : v[i] = IF i <= 1 THEN c ELSE w[i - 1]
        <4>1. PICK u : u = <<c>>
          OBVIOUS
        <4>2. u \in Seq(Nat) /\ Len(u) = 1 /\ u[1] = c /\ v = u \o w
          BY <4>1, <3>1, <3>4
        <4>3. /\ u \o w \in Seq(Nat) /\ Len(u \o w) = Len(u) + Len(w)
              /\ \A i \in 1 .. Len(u) + Len(w) : (u \o w)[i] = IF i <= Len(u) THEN u[i] ELSE w[i - Len(u)]
          BY <4>2, <3>4, ConcatProperties, ZenonT(60)
        <4> QED
          BY <4>2, <4>3, <3>4
      <3>6. Coded(v)
        <4>1. v # <<>> /\ v[Len(v)] = w[Len(w)] /\ w[Len(w)] < 128
          BY <3>3, <3>4, <3>5 DEF Coded
        <4>2. ASSUME NEW i \in 1 .. Len(v) - 1 PROVE v[i] >= 128
          <5>1. CASE i = 1
            BY <5>1, <3>2, <3>4, <3>5
          <5>2. CASE i # 1
            <6>1. i - 1 \in 1 .. Len(w) - 1 /\ v[i] = w[i - 1]
              BY <5>2, <3>4, <3>5
            <6> QED
              BY <6>1, <3>3 DEF Coded
          <5> QED
            BY <5>1, <5>2
        <4> QED
          BY <3>5, <4>1, <4>2 DEF Coded
      <3>7. v # <<>> /\ Head(v) = c /\ Tail(v) = w
        <4>1. v # <<>> /\ Head(v) = v[1] /\ v[1] = c
          BY <3>4, <3>5
        <4>2. /\ Tail(v) \in Seq(Nat) /\ Len(Tail(v)) = Len(w)
              /\ \A i \in 1 .. Len(w) : Tail(v)[i] = w[i]
          BY <3>4, <3>5, <4>1, HeadTailProperties
        <4>3. Tail(v) = w
          BY <3>4, <4>2, SeqEqual
        <4> QED
          BY <4>1, <4>3
      <3>8. Value[v] = (c % 128) + 128 * y
        BY <3>3, <3>5, <3>7, ValueDef
      <3>9. Varint[x] = v
        <4>1. Varint[x] = IF x < 128 THEN <<x>> ELSE <<128 + (x % 128)>> \o Varint[x \div 128]
          BY VarintDef
        <4>2. ~(x < 128)
          BY <2>2
        <4> QED
          BY <3>1, <4>1, <4>2
      <3> QED
        BY <3>2, <3>6, <3>8, <3>9
    <2> QED
      BY <2>1, <2>2
  <1>2. T = Nat
    <2> HIDE DEF T
    <2>1. T \subseteq Nat
      BY DEF T
    <2> QED
      BY <1>1, <2>1, Induction
  <1> QED
    BY <1>2

-----------------------------------------------------------------------------
(* Streams of numbers.                                                      *)

(* The header h holds k numbers, and e says where each ends. *)
Framed(h, k, e) ==
    /\ h \in Seq(Nat) /\ k \in Nat
    /\ e \in [0 .. k -> Nat] /\ e[0] = 0 /\ e[k] = Len(h)
    /\ \A i, j \in 0 .. k : i < j => e[i] < e[j]
    /\ LastBytes(h) = {e[j] : j \in 1 .. k}

Upto(e, j) == {e[i] : i \in 1 .. j}

(* As many ends are at or before the j-th one. *)
LEMMA EndsCount ==
  ASSUME NEW k \in Nat, NEW e, NEW j \in 0 .. k,
         \A i \in 1 .. k : e[i] \in Nat,
         \A i, m \in 1 .. k : i < m => e[i] < e[m]
  PROVE  IsFiniteSet(Upto(e, j)) /\ Cardinality(Upto(e, j)) = j
  <1> DEFINE D == {e[i] : i \in 1 .. j}
             f == [i \in 1 .. j |-> e[i]]
  <1>0. D = Upto(e, j)
    BY DEF Upto
  <1>1. \A i, m \in 1 .. j : e[i] = e[m] => i = m
    BY SMT
  <1>2. f \in Bijection(1 .. j, D)
    BY <1>1 DEF Bijection, Injection, Surjection, IsInjective
  <1>3. IsFiniteSet(1 .. j) /\ Cardinality(1 .. j) = j
    BY FS_Interval
  <1> QED
    BY <1>0, <1>2, <1>3, FS_Bijection DEF ExistsBijection

(* End finds them. *)
LEMMA FramedEnds ==
  ASSUME NEW h, NEW k, NEW e, Framed(h, k, e)
  PROVE  Numbers(h) = k /\ IsFiniteSet(LastBytes(h)) /\ \A j \in 0 .. k : End(h, j) = e[j]
  <1>1. /\ k \in Nat /\ e \in [0 .. k -> Nat] /\ e[0] = 0
        /\ \A i, j \in 0 .. k : i < j => e[i] < e[j]
        /\ LastBytes(h) = {e[j] : j \in 1 .. k}
    BY DEF Framed
  <1>2. /\ \A i \in 1 .. k : e[i] \in Nat
        /\ \A i, m \in 1 .. k : i < m => e[i] < e[m]
    BY <1>1
  <1>3. \A j \in 0 .. k : IsFiniteSet(Upto(e, j)) /\ Cardinality(Upto(e, j)) = j
    BY <1>1, <1>2, EndsCount
  <1>4. Numbers(h) = k /\ IsFiniteSet(LastBytes(h))
    <2>1. k \in 0 .. k /\ LastBytes(h) = Upto(e, k)
      BY <1>1 DEF Upto
    <2> QED
      BY <2>1, <1>3 DEF Numbers
  <1>5. ASSUME NEW j \in 1 .. k PROVE {x \in LastBytes(h) : x <= e[j]} = Upto(e, j)
    <2>1. ASSUME NEW i \in 1 .. k PROVE e[i] <= e[j] <=> i <= j
      BY <1>1, <1>2
    <2>2. 1 .. j \subseteq 1 .. k /\ \A i \in 1 .. k : i <= j <=> i \in 1 .. j
      BY <1>1
    <2> QED
      BY <2>1, <2>2, <1>1 DEF Upto
  <1>6. ASSUME NEW j \in 1 .. k PROVE End(h, j) = e[j]
    <2> DEFINE P(i) == Cardinality({x \in LastBytes(h) : x <= i}) = j
    <2>1. ASSUME NEW i \in 1 .. k PROVE Cardinality({x \in LastBytes(h) : x <= e[i]}) = i
      <3>1. i \in 0 .. k
        OBVIOUS
      <3>2. Cardinality(Upto(e, i)) = i
        BY <3>1, <1>3
      <3>3. {x \in LastBytes(h) : x <= e[i]} = Upto(e, i)
        BY <1>5
      <3> QED
        BY <3>2, <3>3
    <2>2. e[j] \in LastBytes(h) /\ P(e[j])
      BY <1>1, <2>1
    <2>3. \A x \in LastBytes(h) : P(x) => x = e[j]
      BY <1>1, <2>1
    <2>4. End(h, j) = CHOOSE i \in LastBytes(h) : P(i)
      <3>1. j # 0
        OBVIOUS
      <3> QED
        BY <3>1 DEF End
    <2> QED
      BY <2>2, <2>3, <2>4
  <1>7. End(h, 0) = e[0]
    BY <1>1 DEF End
  <1> QED
    BY <1>1, <1>4, <1>6, <1>7

(* The header h is read as the numbers in q. *)
Reads(h, q) ==
    \E e : /\ Framed(h, Len(q), e)
           /\ \A j \in 1 .. Len(q) : Number(h, j) = q[j]

(* An empty header has no numbers, ... *)
LEMMA ReadsNothing == Reads(<<>>, <<>>)
  <1>1. PICK e : e = [j \in 0 .. 0 |-> 0]
    OBVIOUS
  <1>2. LastBytes(<<>>) = {}
    BY DEF LastBytes
  <1>3. Framed(<<>>, 0, e)
    BY <1>1, <1>2 DEF Framed
  <1> QED
    BY <1>3 DEF Reads

(* ... one more number in it is read after the others, ... *)
LEMMA ReadsOneMore ==
  ASSUME NEW h, NEW q \in Seq(Nat), Reads(h, q), NEW x \in Nat
  PROVE  Reads(h \o Varint[x], Append(q, x))
  <1>1. PICK k, v, s, e : /\ k = Len(q) /\ v = Varint[x] /\ s = h \o v
                          /\ Framed(h, k, e) /\ \A j \in 1 .. k : Number(h, j) = q[j]
    BY DEF Reads
  <1>2. Coded(v) /\ Value[v] = x
    BY <1>1, VarintValue
  <1>3. PICK a, b : a = Len(h) /\ b = Len(v)
    OBVIOUS
  <1>4. /\ h \in Seq(Nat) /\ v \in Seq(Nat) /\ v # <<>> /\ a \in Nat /\ b \in Nat \ {0} /\ k \in Nat
        /\ DOMAIN h = 1 .. a /\ DOMAIN v = 1 .. b
    BY <1>1, <1>2, <1>3 DEF Framed, Coded
  <1>5. /\ s \in Seq(Nat) /\ Len(s) = a + b /\ DOMAIN s = 1 .. a + b
        /\ \A i \in 1 .. a + b : s[i] = IF i <= a THEN h[i] ELSE v[i - a]
    <2>1. /\ s \in Seq(Nat) /\ Len(s) = a + b
          /\ \A i \in 1 .. a + b : s[i] = IF i <= a THEN h[i] ELSE v[i - a]
      BY <1>1, <1>3, <1>4, ConcatProperties
    <2> QED
      BY <2>1
  <1>6. LastBytes(s) = LastBytes(h) \cup {a + b}
    <2>1. ASSUME NEW i \in 1 .. a + b PROVE s[i] < 128 <=> i \in LastBytes(h) \/ i = a + b
      <3>1. CASE i <= a
        <4>1. i \in DOMAIN h /\ s[i] = h[i] /\ i # a + b
          BY <3>1, <1>4, <1>5
        <4> QED
          BY <4>1 DEF LastBytes
      <3>2. CASE i > a
        <4>1. s[i] = v[i - a] /\ i \notin DOMAIN h /\ i - a \in 1 .. b
          BY <3>2, <1>4, <1>5
        <4>2. CASE i = a + b
          <5>1. i - a = b
            BY <4>2, <1>4
          <5> QED
            BY <4>1, <4>2, <5>1, <1>2, <1>3 DEF Coded
        <4>3. CASE i # a + b
          <5>1. i - a \in 1 .. b - 1 /\ v[i - a] \in Nat
            BY <4>1, <4>3, <1>4
          <5>2. ~(s[i] < 128)
            BY <4>1, <5>1, <1>2, <1>3, SMTT(60) DEF Coded
          <5> QED
            BY <4>1, <4>3, <5>2 DEF LastBytes
        <4> QED
          BY <4>2, <4>3
      <3> QED
        BY <3>1, <3>2, <1>4
    <2>2. LastBytes(h) \subseteq 1 .. a + b /\ a + b \in 1 .. a + b
      BY <1>4 DEF LastBytes
    <2>3. LastBytes(s) = {i \in 1 .. a + b : s[i] < 128}
      BY <1>5 DEF LastBytes
    <2> QED
      BY <2>1, <2>2, <2>3
  <1>7. PICK d : d = [j \in 0 .. k + 1 |-> IF j <= k THEN e[j] ELSE a + b]
    OBVIOUS
  <1>8. /\ e \in [0 .. k -> Nat] /\ e[0] = 0 /\ e[k] = a
        /\ \A i, j \in 0 .. k : i < j => e[i] < e[j]
        /\ LastBytes(h) = {e[j] : j \in 1 .. k}
    BY <1>1, <1>3 DEF Framed
  <1>9. \A j \in 0 .. k : e[j] <= a
    BY <1>4, <1>8, SMTT(60)
  <1>10. Framed(s, k + 1, d)
    <2>1. d \in [0 .. k + 1 -> Nat] /\ d[0] = 0 /\ d[k + 1] = a + b /\ \A j \in 0 .. k : d[j] = e[j]
      BY <1>4, <1>7, <1>8
    <2>2. ASSUME NEW i \in 0 .. k + 1, NEW j \in 0 .. k + 1, i < j PROVE d[i] < d[j]
      <3>1. i \in 0 .. k /\ e[i] \in Nat /\ d[i] = e[i]
        BY <1>4, <1>8, <2>1, <2>2
      <3>2. CASE j = k + 1
        BY <3>1, <3>2, <2>1, <1>9, <1>4
      <3>3. CASE j # k + 1
        BY <3>1, <3>3, <2>1, <2>2, <1>4, <1>8
      <3> QED
        BY <3>2, <3>3
    <2>3. LastBytes(s) = {d[j] : j \in 1 .. k + 1}
      <3>1. 1 .. k + 1 = (1 .. k) \cup {k + 1}
        BY <1>4
      <3>2. \A j \in 1 .. k : d[j] = e[j]
        BY <1>4, <2>1
      <3> QED
        BY <1>6, <1>8, <2>1, <3>1, <3>2, SMTT(60)
    <2> QED
      BY <1>4, <1>5, <2>1, <2>2, <2>3 DEF Framed
  <1>11. \A j \in 0 .. k : End(h, j) = e[j] /\ End(s, j) = e[j]
    <2>1. \A j \in 0 .. k : End(h, j) = e[j]
      BY <1>1, FramedEnds
    <2>2. \A j \in 0 .. k + 1 : End(s, j) = d[j]
      BY <1>10, FramedEnds
    <2>3. \A j \in 0 .. k : j \in 0 .. k + 1 /\ d[j] = e[j]
      BY <1>4, <1>7
    <2> QED
      BY <2>1, <2>2, <2>3
  <1>12. End(s, k) = a /\ End(s, k + 1) = a + b
    <2>1. k \in 0 .. k /\ k + 1 \in 0 .. k + 1 /\ d[k + 1] = a + b
      BY <1>4, <1>7
    <2>2. End(s, k + 1) = d[k + 1]
      BY <2>1, <1>10, FramedEnds
    <2> QED
      BY <2>1, <2>2, <1>8, <1>11
  <1>13. ASSUME NEW j \in 1 .. k PROVE Number(s, j) = Number(h, j)
    <2>1. j - 1 \in 0 .. k /\ j \in 0 .. k /\ j - 1 < j
      BY <1>4
    <2>2. e[j - 1] < e[j] /\ e[j] <= a /\ e[j - 1] \in Nat /\ e[j] \in Nat
      BY <2>1, <1>8, <1>9
    <2>3. e[j - 1] + 1 \in 1 .. a /\ e[j] \in 1 .. a
      BY <2>2, <1>4, SMTT(60)
    <2>4. SubSeq(s, e[j - 1] + 1, e[j]) = SubSeq(h, e[j - 1] + 1, e[j])
      BY <2>3, <1>1, <1>3, <1>4, SubSeqOfConcat1
    <2> QED
      BY <2>1, <2>4, <1>11 DEF Number
  <1>14. Number(s, k + 1) = x
    <2>1. a + 1 \in a + 1 .. a + b /\ a + b \in a + 1 .. a + b /\ (a + 1) - a = 1 /\ (a + b) - a = b
      BY <1>4
    <2>2. SubSeq(s, a + 1, a + b) = SubSeq(v, 1, b)
      <3>1. SubSeq(s, a + 1, a + b) = SubSeq(v, (a + 1) - a, (a + b) - a)
        BY <2>1, <1>1, <1>3, <1>4, SubSeqOfConcat2
      <3> QED
        BY <2>1, <3>1
    <2>3. SubSeq(v, 1, b) = v
      BY <1>3, <1>4, SubSeqFull
    <2>4. (k + 1) - 1 = k
      BY <1>4
    <2> QED
      BY <2>2, <2>3, <2>4, <1>2, <1>12 DEF Number
  <1>15. PICK p : p = Append(q, x)
    OBVIOUS
  <1>16. Len(p) = k + 1 /\ p[k + 1] = x /\ \A j \in 1 .. k : p[j] = q[j]
    BY <1>1, <1>15, AppendProperties
  <1>17. \A j \in 1 .. k + 1 : Number(s, j) = p[j]
    <2>1. \A j \in 1 .. k + 1 : j \in 1 .. k \/ j = k + 1
      BY <1>4
    <2> QED
      BY <2>1, <1>1, <1>13, <1>14, <1>16
  <1>18. Reads(s, p)
    BY <1>10, <1>16, <1>17 DEF Reads
  <1> QED
    BY <1>1, <1>15, <1>18

(* ... and a beginning of it has fewer. *)
LEMMA ReadsCut ==
  ASSUME NEW h, NEW q \in Seq(Nat), q # <<>>, Reads(h, q)
  PROVE  /\ h \in Seq(Nat) /\ Numbers(h) = Len(q)
         /\ \A j \in 1 .. Len(q) : Number(h, j) = q[j]
         /\ \A c \in 0 .. Len(h) - 1 : Numbers(SubSeq(h, 1, c)) < Len(q)
  <1>1. PICK k, e : k = Len(q) /\ Framed(h, k, e) /\ \A j \in 1 .. k : Number(h, j) = q[j]
    BY DEF Reads
  <1>2. /\ h \in Seq(Nat) /\ k \in Nat \ {0} /\ e[k] = Len(h)
        /\ LastBytes(h) = {e[j] : j \in 1 .. k}
    BY <1>1 DEF Framed
  <1>3. Numbers(h) = k /\ IsFiniteSet(LastBytes(h))
    BY <1>1, FramedEnds
  <1>4. ASSUME NEW c \in 0 .. Len(h) - 1 PROVE Numbers(SubSeq(h, 1, c)) < k
    <2>1. PICK s, a : s = SubSeq(h, 1, c) /\ a = Len(h)
      OBVIOUS
    <2>2. a \in Nat /\ c \in Nat /\ c < a /\ DOMAIN h = 1 .. a
      BY <1>2, <1>4, <2>1
    <2>3. DOMAIN s = 1 .. c /\ \A i \in 1 .. c : s[i] = h[i]
      <3>1. \A i \in 1 .. c : h[i] \in Nat
        BY <1>2, <2>2
      <3>2. /\ s \in Seq(Nat) /\ Len(s) = IF 1 <= c THEN c - 1 + 1 ELSE 0
            /\ \A i \in 1 .. c - 1 + 1 : s[i] = h[1 + i - 1]
        BY <3>1, <2>1, <2>2, SubSeqProperties
      <3> QED
        BY <3>2, <2>2
    <2>4. LastBytes(s) \subseteq LastBytes(h) \ {a}
      BY <2>2, <2>3 DEF LastBytes
    <2>5. a \in LastBytes(h)
      BY <1>2, <2>1
    <2>6. /\ IsFiniteSet(LastBytes(h) \ {a})
          /\ Cardinality(LastBytes(h) \ {a}) = Cardinality(LastBytes(h)) - 1
      BY <2>5, <1>3, FS_RemoveElement
    <2>7. Cardinality(LastBytes(s)) <= Cardinality(LastBytes(h) \ {a})
      BY <2>4, <2>6, FS_Subset
    <2>8. Cardinality(LastBytes(s)) \in Nat
      BY <2>4, <2>6, FS_Subset, FS_CardinalityType
    <2> QED
      BY <1>2, <1>3, <2>1, <2>6, <2>7, <2>8 DEF Numbers
  <1> QED
    BY <1>1, <1>2, <1>3, <1>4

-----------------------------------------------------------------------------
(* The codec.                                                               *)

Messages == [message_type : Nat, is_broadcast : Nat, session_id : Nat, protocol_id : Nat, length : Nat]

(* The five numbers of a request are read back, and with fewer bytes fewer. *)
LEMMA RequestHeader ==
  ASSUME NEW m \in Messages, NEW h, h = WriteRequest(m).header
  PROVE  /\ h \in Seq(Nat) /\ Len(h) >= 1
         /\ Numbers(h) = 5 /\ Message(h) = m
         /\ \A c \in 0 .. Len(h) - 1 : Numbers(SubSeq(h, 1, c)) < 5
  <1>1. PICK a, b, c, d, e : m = [message_type |-> a, is_broadcast |-> b, session_id |-> c,
                                  protocol_id |-> d, length |-> e]
    BY DEF Messages
  <1>2. a \in Nat /\ b \in Nat /\ c \in Nat /\ d \in Nat /\ e \in Nat
    BY <1>1 DEF Messages
  <1>3. PICK h0, h1, h2, h3, h4 : /\ h0 = <<>> \o Varint[a] /\ h1 = h0 \o Varint[b]
                                  /\ h2 = h1 \o Varint[c] /\ h3 = h2 \o Varint[d] /\ h4 = h3 \o Varint[e]
    OBVIOUS
  <1>4. PICK q0, q1, q2, q3, q4 : /\ q0 = Append(<<>>, a) /\ q1 = Append(q0, b) /\ q2 = Append(q1, c)
                                  /\ q3 = Append(q2, d) /\ q4 = Append(q3, e)
    OBVIOUS
  <1>5. q0 \in Seq(Nat) /\ q1 \in Seq(Nat) /\ q2 \in Seq(Nat) /\ q3 \in Seq(Nat) /\ q4 \in Seq(Nat)
    BY <1>2, <1>4
  <1>6. q4 # <<>> /\ Len(q4) = 5 /\ q4[1] = a /\ q4[2] = b /\ q4[3] = c /\ q4[4] = d /\ q4[5] = e
    BY <1>2, <1>4
  <1>7. Reads(h0, q0)
    <2>1. <<>> \in Seq(Nat)
      OBVIOUS
    <2> QED
      BY <2>1, <1>2, <1>3, <1>4, ReadsNothing, ReadsOneMore
  <1>8. Reads(h1, q1)
    BY <1>2, <1>3, <1>4, <1>5, <1>7, ReadsOneMore
  <1>9. Reads(h2, q2)
    BY <1>2, <1>3, <1>4, <1>5, <1>8, ReadsOneMore
  <1>10. Reads(h3, q3)
    BY <1>2, <1>3, <1>4, <1>5, <1>9, ReadsOneMore
  <1>11. Reads(h4, q4)
    BY <1>2, <1>3, <1>4, <1>5, <1>10, ReadsOneMore
  <1>12. h = h4
    <2>1. Varint[a] \in Seq(Nat)
      BY <1>2, VarintValue DEF Coded
    <2>2. h0 = Varint[a]
      BY <2>1, <1>3, ConcatEmptySeq
    <2>3. h = Varint[a] \o Varint[b] \o Varint[c] \o Varint[d] \o Varint[e]
      BY <1>1 DEF WriteRequest
    <2> QED
      BY <2>2, <2>3, <1>3
  <1>13. /\ h \in Seq(Nat) /\ Numbers(h) = 5
         /\ \A j \in 1 .. 5 : Number(h, j) = q4[j]
         /\ \A x \in 0 .. Len(h) - 1 : Numbers(SubSeq(h, 1, x)) < 5
    BY <1>5, <1>6, <1>11, <1>12, ReadsCut, ZenonT(60)
  <1>14. Message(h) = m
    BY <1>1, <1>6, <1>13 DEF Message
  <1>15. h # <<>>
    <2>1. LastBytes(<<>>) = {}
      BY DEF LastBytes
    <2>2. Numbers(<<>>) = 0
      BY <2>1, FS_EmptySet DEF Numbers
    <2> QED
      BY <2>2, <1>13
  <1> QED
    BY <1>13, <1>14, <1>15

(* The length before an answer. *)
LEMMA ResponseHeader ==
  ASSUME NEW a \in Nat, NEW h, h = WriteResponse(a).header
  PROVE  /\ h \in Seq(Nat) /\ Len(h) >= 1
         /\ Numbers(h) = 1 /\ Number(h, 1) = a
         /\ \A c \in 0 .. Len(h) - 1 : Numbers(SubSeq(h, 1, c)) < 1
  <1>1. h = Varint[a] /\ Coded(h) /\ h \in Seq(Nat) /\ h # <<>>
    BY VarintValue DEF WriteResponse, Coded
  <1>2. PICK q : q = Append(<<>>, a)
    OBVIOUS
  <1>3. q \in Seq(Nat) /\ q # <<>> /\ Len(q) = 1 /\ q[1] = a
    BY <1>2
  <1>4. Reads(h, q)
    <2>1. <<>> \in Seq(Nat) /\ <<>> \o h = h
      BY <1>1, ConcatEmptySeq
    <2> QED
      BY <2>1, <1>1, <1>2, ReadsNothing, ReadsOneMore
  <1> QED
    BY <1>1, <1>3, <1>4, ReadsCut

(* What a stream that ends after k bytes has of its header and payload. *)
LEMMA CutIs ==
  ASSUME NEW h \in Seq(Nat), NEW l \in Nat, NEW k \in 0 .. Len(h) + l,
         NEW s, s = Cut([header |-> h, payload |-> l], k)
  PROVE  /\ k < Len(h) => s.header = SubSeq(h, 1, k) /\ s.payload = 0
         /\ k >= Len(h) => s.header = h /\ s.payload = k - Len(h)
  <1>1. k <= Len(h) => s = [header |-> SubSeq(h, 1, k), payload |-> 0]
    BY DEF Cut
  <1>2. k > Len(h) => s = [header |-> h, payload |-> k - Len(h)]
    BY DEF Cut
  <1>3. SubSeq(h, 1, Len(h)) = h
    BY SubSeqFull
  <1> QED
    BY <1>1, <1>2, <1>3

(* read_request makes of a stream what write_request wrote or nothing. *)
LEMMA RequestRead ==
  ASSUME NEW m \in Messages, NEW k \in Nat, k <= Size(WriteRequest(m))
  PROVE  ReadRequest(Cut(WriteRequest(m), k)) =
           IF k = Size(WriteRequest(m)) /\ m.length <= MaxRequest THEN <<m>> ELSE <<>>
  <1>1. PICK h, l, s, a : /\ h = WriteRequest(m).header /\ l = m.length /\ a = Len(h)
                          /\ s = Cut(WriteRequest(m), k)
    OBVIOUS
  <1>2. /\ h \in Seq(Nat) /\ a \in Nat /\ Numbers(h) = 5 /\ Message(h) = m
        /\ \A c \in 0 .. a - 1 : Numbers(SubSeq(h, 1, c)) < 5
    BY <1>1, RequestHeader
  <1>3. WriteRequest(m) = [header |-> h, payload |-> l] /\ l \in Nat
    BY <1>1 DEF WriteRequest, Messages
  <1>4. Size(WriteRequest(m)) = a + l /\ k \in 0 .. a + l
    BY <1>1, <1>2, <1>3 DEF Size
  <1>5. /\ k < a => s.header = SubSeq(h, 1, k) /\ s.payload = 0
        /\ k >= a => s.header = h /\ s.payload = k - a
    BY <1>1, <1>2, <1>3, <1>4, CutIs, SMTT(60)
  <1>6. Number(h, 5) = l
    BY <1>1, <1>2 DEF Message
  <1>7. CASE k < a
    <2>1. Numbers(s.header) < 5
      <3>1. k \in 0 .. a - 1
        BY <1>2, <1>7
      <3>2. Numbers(SubSeq(h, 1, k)) < 5
        BY <3>1, <1>2
      <3> QED
        BY <3>2, <1>5, <1>7
    <2>2. ReadRequest(s) = <<>>
      BY <2>1 DEF ReadRequest
    <2> QED
      BY <2>2, <1>1, <1>2, <1>3, <1>4, <1>7
  <1>8. CASE k >= a
    <2>1. s.header = h /\ s.payload = k - a
      BY <1>5, <1>8
    <2>2. ReadRequest(s) = IF l > MaxRequest \/ k - a < l THEN <<>> ELSE <<m>>
      BY <2>1, <1>2, <1>6 DEF ReadRequest
    <2>3. l > MaxRequest \/ k - a < l <=> ~(k = a + l /\ l <= MaxRequest)
      BY <1>2, <1>3, <1>4, <1>8, SizesAssumption
    <2> QED
      BY <2>2, <2>3, <1>1, <1>4
  <1> QED
    BY <1>2, <1>7, <1>8

(* read_response tells a whole answer, nothing and all else apart. *)
LEMMA ResponseRead ==
  ASSUME NEW b \in Nat, NEW k \in Nat, k <= Size(WriteResponse(b)),
         NEW t, t = ReadResponse(Cut(WriteResponse(b), k))
  PROVE  /\ t = "ok" <=> k = Size(WriteResponse(b)) /\ b <= MaxResponse
         /\ t = "refused" <=> k < Len(WriteResponse(b).header)
  <1>1. PICK h, s, a : h = WriteResponse(b).header /\ a = Len(h) /\ s = Cut(WriteResponse(b), k)
    OBVIOUS
  <1>2. /\ h \in Seq(Nat) /\ a \in Nat /\ Numbers(h) = 1 /\ Number(h, 1) = b
        /\ \A c \in 0 .. a - 1 : Numbers(SubSeq(h, 1, c)) < 1
    BY <1>1, ResponseHeader
  <1>3. WriteResponse(b) = [header |-> h, payload |-> b]
    BY <1>1 DEF WriteResponse
  <1>4. Size(WriteResponse(b)) = a + b /\ k \in 0 .. a + b
    BY <1>1, <1>2, <1>3 DEF Size
  <1>5. /\ k < a => s.header = SubSeq(h, 1, k) /\ s.payload = 0
        /\ k >= a => s.header = h /\ s.payload = k - a
    BY <1>1, <1>2, <1>3, <1>4, CutIs, SMTT(60)
  <1>6. CASE k < a
    <2>1. Numbers(s.header) < 1
      <3>1. k \in 0 .. a - 1
        BY <1>2, <1>6
      <3>2. Numbers(SubSeq(h, 1, k)) < 1
        BY <3>1, <1>2
      <3> QED
        BY <3>2, <1>5, <1>6
    <2>2. t = "refused"
      BY <2>1, <1>1 DEF ReadResponse
    <2>3. k # a + b
      BY <1>2, <1>6
    <2> QED
      BY <2>2, <2>3, <1>1, <1>4, <1>6
  <1>7. CASE k >= a
    <2>1. s.header = h /\ s.payload = k - a
      BY <1>5, <1>7
    <2>2. t = IF b > MaxResponse \/ k - a < b THEN "network" ELSE "ok"
      BY <2>1, <1>1, <1>2 DEF ReadResponse
    <2>3. b > MaxResponse \/ k - a < b <=> ~(k = a + b /\ b <= MaxResponse)
      BY <1>2, <1>4, <1>7, SizesAssumption
    <2>4. ~(k < a)
      BY <1>2, <1>7
    <2> QED
      BY <2>2, <2>3, <2>4, <1>1, <1>4
  <1> QED
    BY <1>2, <1>6, <1>7

-----------------------------------------------------------------------------
(* The message on its way.                                                  *)

(* Bytes of the first p - 1 parts. *)
Written(p) ==
    (IF p > 1 THEN VarintLength(n * EntryLength) ELSE 0) + (IF p > 2 THEN n * EntryLength ELSE 0)
    + (IF p > 3 THEN VarintLength(body) ELSE 0) + (IF p > 4 THEN body ELSE 0)

TypeOK ==
    /\ start \in BOOLEAN /\ n \in Nat /\ body \in Nat
    /\ part \in 1 .. 6 /\ buffered \in Nat /\ flushed \in Nat
    /\ answer \in AnswerLengths \cup {0} /\ arrived \in Nat

(* Nothing is lost before the buffer would be too full, and no more is in   *)
(* the buffer than it holds.                                                *)
Buffering ==
    start => /\ buffered <= Buffer
             /\ buffered + flushed = Written(part)
             /\ Total <= Buffer => flushed = 0

(* What was sent, and what was made of it. *)
Sending ==
    /\ ~start => part \in {5, 6}
    /\ part < 6 => request = <<>>
    /\ part = 6 =>
          \E m \in Messages :
             /\ sent = <<m>>
             /\ response = "none" =>
                  /\ arrived <= Size(WriteRequest(m))
                  /\ request = ReadRequest(Cut(WriteRequest(m), arrived))

(* What was made of the start message, and of the answer. *)
Receiving ==
    /\ decoded # "none" =>
          /\ start /\ part = 6
          /\ decoded = "whole" <=> flushed = 0 /\ \A k \in 1 .. n : ReadWhole(k)
    /\ response # "none" =>
          /\ part = 6
          /\ arrived <= Size(WriteResponse(answer))
          /\ response = ReadResponse(Cut(WriteResponse(answer), arrived))

IndInv == TypeOK /\ Buffering /\ Sending /\ Receiving

(* The sizes of the parts. *)
LEMMA PartSizes ==
  ASSUME n \in Nat, body \in Nat
  PROVE  /\ EntryLength \in Nat /\ EntryLength >= 2 /\ n * EntryLength \in Nat
         /\ \A x \in Nat : VarintLength(x) \in Nat \ {0}
         /\ Total \in Nat /\ Written(5) = Total /\ Written(6) = Total /\ Written(1) = 0
         /\ \A p \in 1 .. 4 : /\ PartLengths[p] \in Nat /\ Written(p) \in Nat
                              /\ Written(p + 1) = Written(p) + PartLengths[p]
                              /\ Written(p + 1) <= Total /\ PartLengths[p] + 1 <= Total
  <1>1. EntryLength \in Nat /\ EntryLength >= 2
    BY SizesAssumption DEF EntryLength
  <1>2. n * EntryLength \in Nat
    BY <1>1
  <1>3. \A x \in Nat : VarintLength(x) \in Nat \ {0}
    <2> TAKE x \in Nat
    <2>1. Varint[x] \in Seq(Nat) /\ Varint[x] # <<>>
      BY VarintValue DEF Coded
    <2> QED
      BY <2>1 DEF VarintLength
  <1>4. PICK a, b, c : a = VarintLength(n * EntryLength) /\ b = n * EntryLength /\ c = VarintLength(body)
    OBVIOUS
  <1>5. a \in Nat \ {0} /\ b \in Nat /\ c \in Nat \ {0}
    BY <1>2, <1>3, <1>4
  <1>6. PartLengths = <<a, b, c, body>> /\ Total = a + b + c + body
    BY <1>4 DEF PartLengths, Total
  <1>7. \A p : Written(p) = (IF p > 1 THEN a ELSE 0) + (IF p > 2 THEN b ELSE 0)
                            + (IF p > 3 THEN c ELSE 0) + (IF p > 4 THEN body ELSE 0)
    BY <1>4 DEF Written
  <1>8. /\ Written(1) = 0 /\ Written(2) = a /\ Written(3) = a + b /\ Written(4) = a + b + c
        /\ Written(5) = a + b + c + body /\ Written(6) = a + b + c + body
    BY <1>5, <1>7
  <1>9. Total \in Nat /\ Written(5) = Total /\ Written(6) = Total /\ Written(1) = 0
    BY <1>5, <1>6, <1>8
  <1>10. ASSUME NEW p \in 1 .. 4
         PROVE  /\ PartLengths[p] \in Nat /\ Written(p) \in Nat
                /\ Written(p + 1) = Written(p) + PartLengths[p]
                /\ Written(p + 1) <= Total /\ PartLengths[p] + 1 <= Total
    <2>1. p = 1 \/ p = 2 \/ p = 3 \/ p = 4
      OBVIOUS
    <2> QED
      BY <2>1, <1>5, <1>6, <1>8
  <1> QED
    BY <1>1, <1>2, <1>3, <1>9, <1>10

(* Within one filling of the buffer no peer is cut. *)
LEMMA WholeWithin ==
  ASSUME n \in Nat, body \in Nat, Total <= Buffer, NEW k \in 1 .. n
  PROVE  ReadWhole(k)
  <1>1. PICK e, b : e = EntryLength /\ b = n * e
    OBVIOUS
  <1>2. e \in Nat /\ e >= 2 /\ b \in Nat /\ Buffer \in Nat \ {0} /\ k \in Nat /\ k >= 1
    BY <1>1, PartSizes, SizesAssumption
  <1>3. b < Buffer
    <2>1. 2 \in 1 .. 4 /\ PartLengths[2] = b /\ Total \in Nat
      BY <1>1, PartSizes DEF PartLengths
    <2>2. PartLengths[2] + 1 <= Total
      BY <2>1, PartSizes
    <2> QED
      BY <2>1, <2>2, <1>2
  <1>4. k * e <= b
    <2>1. (n - k) * e >= 0
      BY <1>2
    <2>2. (n - k) * e = n * e - k * e
      BY <1>2
    <2>3. n * e \in Int /\ k * e \in Int
      BY <1>2
    <2> QED
      BY <2>1, <2>2, <2>3, <1>1
  <1>5. PICK x, y : x = (k - 1) * e /\ y = k * e
    OBVIOUS
  <1>6. x \in Int /\ y \in Int /\ x = y - e /\ x >= 0 /\ y <= b
    BY <1>2, <1>4, <1>5
  <1>7. x \in Nat /\ y - 2 \in Nat /\ x < Buffer /\ y - 2 < Buffer
    BY <1>2, <1>3, <1>6
  <1>8. x \div Buffer = 0 /\ (y - 2) \div Buffer = 0
    BY <1>2, <1>7
  <1> QED
    BY <1>1, <1>5, <1>8 DEF ReadWhole

-----------------------------------------------------------------------------
(* The steps.                                                               *)

LEMMA InitInd == Init => IndInv
  <1> SUFFICES ASSUME Init PROVE IndInv
    OBVIOUS
  <1>1. n \in Nat /\ body \in Nat /\ start \in BOOLEAN
    <2>1. \/ start = TRUE /\ n \in PartyCounts /\ body \in BodyLengths
          \/ start = FALSE /\ n = 0 /\ body \in OtherLengths
      BY DEF Init
    <2>2. n \in Nat /\ body \in Nat
      <3>1. (n \in PartyCounts \/ n = 0) /\ (body \in BodyLengths \/ body \in OtherLengths)
        BY <2>1
      <3>2. PartyCounts \subseteq Nat /\ BodyLengths \subseteq Nat /\ OtherLengths \subseteq Nat
        BY SizesAssumption
      <3>3. 0 \in Nat
        OBVIOUS
      <3>4. n \in Nat
        BY <3>1, <3>2, <3>3
      <3>5. body \in Nat
        BY <3>1, <3>2
      <3> QED
        BY <3>4, <3>5
    <2>3. start \in BOOLEAN
      BY <2>1
    <2> QED
      BY <2>2, <2>3
  <1>2. TypeOK
    BY <1>1 DEF Init, TypeOK
  <1>3. Buffering
    BY <1>1, PartSizes, SizesAssumption DEF Init, Buffering
  <1>4. Sending /\ Receiving
    BY DEF Init, Sending, Receiving
  <1> QED
    BY <1>2, <1>3, <1>4 DEF IndInv

(* A part stays in the buffer while there is room for all of them. *)
LEMMA WritePartInd == ASSUME IndInv, WritePart PROVE IndInv'
  <1>1. /\ TypeOK /\ Buffering /\ Sending /\ Receiving
        /\ n \in Nat /\ body \in Nat /\ part \in 1 .. 6 /\ part <= 4
        /\ buffered \in Nat /\ flushed \in Nat /\ Buffer \in Nat
        /\ part' = part + 1
        /\ UNCHANGED <<start, n, body, sent, request, decoded, answer, response, arrived>>
    BY SizesAssumption DEF IndInv, TypeOK, WritePart
  <1>2. start /\ part \in 1 .. 4 /\ request = <<>>
    BY <1>1 DEF Sending, TypeOK
  <1>3. PICK l, w, t : l = PartLengths[part] /\ w = Written(part) /\ t = Total
    OBVIOUS
  <1>4. /\ l \in Nat /\ w \in Nat /\ t \in Nat /\ Written(part + 1) = w + l
        /\ w + l <= t /\ l + 1 <= t
    BY <1>1, <1>2, <1>3, PartSizes
  <1>5. PICK kept : kept = IF l > Buffer - buffered THEN 0 ELSE buffered
    OBVIOUS
  <1>6. /\ buffered' = IF l >= Buffer THEN kept ELSE kept + l
        /\ flushed' = flushed + (buffered - kept) + (IF l >= Buffer THEN l ELSE 0)
    BY <1>3, <1>5 DEF WritePart
  <1>7. buffered <= Buffer /\ buffered + flushed = w /\ (t <= Buffer => flushed = 0)
    BY <1>1, <1>2, <1>3 DEF Buffering
  <1>8. /\ buffered' \in Nat /\ flushed' \in Nat /\ buffered' <= Buffer
        /\ buffered' + flushed' = w + l
    BY <1>1, <1>4, <1>5, <1>6, <1>7
  <1>9. t <= Buffer => flushed' = 0
    <2> SUFFICES ASSUME t <= Buffer PROVE flushed' = 0
      OBVIOUS
    <2>1. flushed = 0 /\ buffered + l <= Buffer /\ l < Buffer
      BY <1>1, <1>4, <1>7
    <2>2. kept = buffered
      BY <2>1, <1>1, <1>4, <1>5
    <2> QED
      BY <2>1, <2>2, <1>1, <1>4, <1>6
  <1>10. Total' = t /\ Written(part)' = w + l
    <2>1. Total' = Total
      BY <1>1 DEF Total
    <2>2. Written(part)' = Written(part + 1)
      BY <1>1 DEF Written
    <2> QED
      BY <2>1, <2>2, <1>3, <1>4
  <1>12. TypeOK' /\ Buffering'
    BY <1>1, <1>2, <1>8, <1>9, <1>10 DEF TypeOK, Buffering
  <1>13. Sending' /\ Receiving'
    <2>1. part # 6 /\ decoded = "none"
      BY <1>1 DEF Receiving
    <2>2. response = "none"
      BY <1>1 DEF Receiving
    <2>3. ~start' => part' \in {5, 6}
      BY <1>1, <1>2
    <2>4. part' # 6
      BY <1>1
    <2> QED
      BY <2>1, <2>2, <2>3, <2>4, <1>1, <1>2 DEF Sending, Receiving
  <1> QED
    BY <1>12, <1>13 DEF IndInv

(* A stream ends within what was sent. *)
LEMMA EndsWithin ==
  ASSUME NEW s, Len(s.header) \in Nat, Len(s.header) >= 1, s.payload \in Nat, NEW k \in Ends(s)
  PROVE  k \in Nat /\ k <= Size(s)
  <1>1. PICK a, z : a = Len(s.header) /\ z = Size(s)
    OBVIOUS
  <1>2. a \in Nat /\ z \in Nat /\ a >= 1 /\ z >= a
    BY <1>1 DEF Size
  <1>3. k \in 0 .. a \/ k = z \div 2 \/ k = z - 1 \/ k = z
    BY <1>1 DEF Ends
  <1>4. z \div 2 \in Nat /\ z \div 2 <= z
    BY <1>2
  <1> QED
    BY <1>1, <1>2, <1>3, <1>4

(* The request is made of numbers, and the stream that arrives is one. *)
LEMMA TransferInd == ASSUME IndInv, Transfer PROVE IndInv'
  <1>1. /\ TypeOK /\ Buffering /\ Sending /\ Receiving
        /\ part = 5 /\ part' = 6
        /\ UNCHANGED <<start, n, body, buffered, flushed, decoded, answer, response>>
    BY DEF IndInv, Transfer
  <1>2. PICK type \in 0 .. 1, wide \in 0 .. 1, session \in Numerals, protocol \in Numerals :
           sent' = <<[message_type |-> type, is_broadcast |-> wide,
                      session_id |-> session, protocol_id |-> protocol,
                      length |-> IF start THEN buffered ELSE body]>>
    BY DEF Transfer
  <1>3. PICK m : m = [message_type |-> type, is_broadcast |-> wide,
                      session_id |-> session, protocol_id |-> protocol,
                      length |-> IF start THEN buffered ELSE body]
    OBVIOUS
  <1>4. m \in Messages /\ sent' = <<m>> /\ sent'[1] = m
    <2>1. (IF start THEN buffered ELSE body) \in Nat
      BY <1>1 DEF TypeOK
    <2>2. type \in Nat /\ wide \in Nat /\ session \in Nat /\ protocol \in Nat
      BY SizesAssumption
    <2>3. sent' = <<m>>
      BY <1>2, <1>3
    <2> QED
      BY <2>1, <2>2, <2>3, <1>3 DEF Messages
  <1>5. PICK k \in Ends(WriteRequest(m)) :
           request' = ReadRequest(Cut(WriteRequest(m), k)) /\ arrived' = k
    <2>1. \E k \in Ends(WriteRequest(sent'[1])) :
             request' = ReadRequest(Cut(WriteRequest(sent'[1]), k)) /\ arrived' = k
      BY DEF Transfer
    <2> QED
      BY <2>1, <1>4
  <1>6. k \in Nat /\ k <= Size(WriteRequest(m))
    <2>1. PICK s : s = WriteRequest(m)
      OBVIOUS
    <2>2. s.header \in Seq(Nat) /\ Len(s.header) >= 1
      BY <2>1, <1>4, RequestHeader
    <2>3. s.payload \in Nat
      <3>1. s.payload = m.length
        BY <2>1 DEF WriteRequest
      <3> QED
        BY <3>1, <1>4 DEF Messages
    <2>4. Len(s.header) \in Nat /\ k \in Ends(s)
      BY <2>1, <2>2, <1>5
    <2> QED
      BY <2>1, <2>2, <2>3, <2>4, EndsWithin
  <1>7. TypeOK'
    BY <1>1, <1>5, <1>6 DEF TypeOK
  <1>8. Buffering'
    <2>1. Total' = Total
      BY <1>1 DEF Total
    <2>2. Written(part)' = Written(6) /\ Written(part) = Written(5)
      BY <1>1 DEF Written
    <2>3. Written(6) = Written(5)
      BY <1>1, PartSizes DEF TypeOK
    <2> QED
      BY <2>1, <2>2, <2>3, <1>1 DEF Buffering
  <1>9. Sending'
    <2>1. part' \in {5, 6} /\ ~(part' < 6)
      BY <1>1
    <2> QED
      BY <2>1, <1>4, <1>5, <1>6 DEF Sending
  <1>10. Receiving'
    <2>1. decoded = "none"
      BY <1>1 DEF Receiving
    <2>2. response = "none"
      BY <1>1 DEF Receiving
    <2> QED
      BY <2>1, <2>2, <1>1 DEF Receiving
  <1> QED
    BY <1>7, <1>8, <1>9, <1>10 DEF IndInv

(* Reading says whether the peers are whole. *)
LEMMA ReadInd == ASSUME IndInv, Read PROVE IndInv'
  <1>1. /\ TypeOK /\ Buffering /\ Sending /\ Receiving
        /\ start /\ request # <<>>
        /\ decoded' = IF flushed > 0 THEN "garbage"
                      ELSE IF \A k \in 1 .. n : ReadWhole(k) THEN "whole" ELSE "cut"
        /\ UNCHANGED <<start, n, body, part, buffered, flushed, sent, request, answer, response, arrived>>
    BY DEF IndInv, Read
  <1>2. part = 6 /\ flushed \in Nat
    BY <1>1 DEF Sending, TypeOK
  <1>3. TypeOK'
    BY <1>1 DEF TypeOK
  <1>4. Buffering'
    BY <1>1 DEF Buffering, Total, Written
  <1>5. Sending'
    BY <1>1 DEF Sending
  <1>6. decoded' = "whole" <=> flushed = 0 /\ \A k \in 1 .. n : ReadWhole(k)
    BY <1>1, <1>2
  <1>7. Receiving'
    BY <1>1, <1>2, <1>6 DEF Receiving
  <1> QED
    BY <1>3, <1>4, <1>5, <1>7 DEF IndInv

(* An answer is a length, and the stream that arrives is one. *)
LEMMA RespondInd == ASSUME IndInv, Respond PROVE IndInv'
  <1>1. /\ TypeOK /\ Buffering /\ Sending /\ Receiving
        /\ ~start /\ request # <<>> /\ response = "none" /\ answer' \in AnswerLengths
        /\ UNCHANGED <<start, n, body, part, buffered, flushed, sent, request, decoded>>
    BY DEF IndInv, Respond
  <1>2. PICK k \in Ends(WriteResponse(answer')) :
           response' = ReadResponse(Cut(WriteResponse(answer'), k)) /\ arrived' = k
    BY DEF Respond
  <1>3. k \in Nat /\ k <= Size(WriteResponse(answer'))
    <2>1. PICK b, s : b = answer' /\ s = WriteResponse(b)
      OBVIOUS
    <2>2. b \in Nat
      BY <2>1, <1>1, SizesAssumption
    <2>3. s.header \in Seq(Nat) /\ Len(s.header) >= 1
      BY <2>1, <2>2, ResponseHeader
    <2>4. s.payload \in Nat /\ Len(s.header) \in Nat /\ k \in Ends(s)
      BY <2>1, <2>2, <2>3, <1>2 DEF WriteResponse
    <2> QED
      BY <2>1, <2>3, <2>4, EndsWithin
  <1>4. TypeOK'
    BY <1>1, <1>2, <1>3 DEF TypeOK
  <1>5. Buffering'
    BY <1>1 DEF Buffering
  <1>6. response' # "none"
    BY <1>2 DEF ReadResponse
  <1>7. Sending'
    BY <1>1, <1>6 DEF Sending
  <1>8. Receiving'
    <2>1. part' = 6
      BY <1>1 DEF Sending, TypeOK
    <2> QED
      BY <2>1, <1>1, <1>2, <1>3 DEF Receiving
  <1> QED
    BY <1>4, <1>5, <1>7, <1>8 DEF IndInv

(* IndInv is an invariant. *)
LEMMA Inductive == Spec => []IndInv
  <1>1. IndInv /\ [Next]_vars => IndInv'
    <2> SUFFICES ASSUME IndInv, [Next]_vars PROVE IndInv'
      OBVIOUS
    <2>1. CASE WritePart
      BY <2>1, WritePartInd
    <2>2. CASE Transfer
      BY <2>2, TransferInd
    <2>3. CASE Read
      BY <2>3, ReadInd
    <2>4. CASE Respond
      BY <2>4, RespondInd
    <2>5. CASE UNCHANGED vars
      <3>1. TypeOK' /\ Buffering' /\ Sending' /\ Receiving'
        BY <2>5 DEF vars, IndInv, TypeOK, Buffering, Total, Written, Sending, Receiving, ReadWhole
      <3> QED
        BY <3>1 DEF IndInv
    <2> QED
      BY <2>1, <2>2, <2>3, <2>4, <2>5 DEF Next, Rest
  <1> QED
    BY InitInd, <1>1, PTL DEF Spec

-----------------------------------------------------------------------------
(* The theorems.                                                            *)

(* A start message survives exactly when it fits the writer's buffer, for    *)
(* any number of parties and any arguments: BufWriter::buffer() still has    *)
(* all of to_bytes (negotiation.rs:238-264), and no peer id lies across two  *)
(* fillings of from_bytes' reader (peerset.rs:48-60).                        *)
THEOREM SurvivesExactlyIfItFits == Spec => []SurvivesIffFits
  <1>1. IndInv => SurvivesIffFits
    <2> SUFFICES ASSUME IndInv, decoded # "none"
                 PROVE  decoded = "whole" <=> Total <= Buffer
      BY DEF SurvivesIffFits
    <2>1. /\ start /\ part = 6 /\ n \in Nat /\ body \in Nat /\ buffered \in Nat /\ flushed \in Nat
          /\ decoded = "whole" <=> flushed = 0 /\ \A k \in 1 .. n : ReadWhole(k)
      BY DEF IndInv, TypeOK, Receiving
    <2>2. /\ buffered <= Buffer /\ buffered + flushed = Total
          /\ Total <= Buffer => flushed = 0
      <3>1. Written(part) = Total
        BY <2>1, PartSizes
      <3> QED
        BY <2>1, <3>1 DEF IndInv, Buffering
    <2>3. flushed = 0 => Total <= Buffer
      BY <2>1, <2>2
    <2>4. Total <= Buffer => \A k \in 1 .. n : ReadWhole(k)
      BY <2>1, WholeWithin
    <2> QED
      BY <2>1, <2>2, <2>3, <2>4
  <1> QED
    BY <1>1, Inductive, PTL

(* A request is read as it was written, or not at all, wherever its stream  *)
(* ends and whatever its numbers are (read_request, write_request,          *)
(* messages.rs:39-103, 135-194).                                            *)
THEOREM RequestsAreIntact == Spec => []RequestIntact
  <1>1. IndInv => RequestIntact
    <2> SUFFICES ASSUME IndInv, part = 6, response = "none"
                 PROVE  request = IF /\ arrived = Size(WriteRequest(sent[1]))
                                     /\ sent[1].length <= MaxRequest THEN sent ELSE <<>>
      BY DEF RequestIntact
    <2>1. PICK m \in Messages : /\ sent = <<m>> /\ arrived <= Size(WriteRequest(m))
                                /\ request = ReadRequest(Cut(WriteRequest(m), arrived))
      BY DEF IndInv, Sending
    <2>2. arrived \in Nat /\ sent[1] = m
      BY <2>1 DEF IndInv, TypeOK
    <2>3. request = IF arrived = Size(WriteRequest(m)) /\ m.length <= MaxRequest THEN <<m>> ELSE <<>>
      BY <2>1, <2>2, RequestRead
    <2> QED
      BY <2>1, <2>2, <2>3
  <1> QED
    BY <1>1, Inductive, PTL

(* A caller takes only a whole answer for one, and only nothing for a       *)
(* refusal (read_response, messages.rs:112-133).  That an answer is shorter *)
(* than 128 bytes is needed: of a length of two bytes the first alone is    *)
(* an UnexpectedEof too.                                                    *)
THEOREM ResponsesAreIntact == Spec => []ResponseIntact
  <1>1. IndInv => ResponseIntact
    <2> SUFFICES ASSUME IndInv, response # "none"
                 PROVE  /\ response = "ok" <=> arrived = Size(WriteResponse(answer)) /\ answer <= MaxResponse
                        /\ response = "refused" <=> arrived = 0
      BY DEF ResponseIntact
    <2>1. /\ arrived <= Size(WriteResponse(answer)) /\ arrived \in Nat
          /\ response = ReadResponse(Cut(WriteResponse(answer), arrived))
      BY DEF IndInv, TypeOK, Receiving
    <2>2. answer \in Nat /\ answer < 128
      BY SizesAssumption, AnswersAssumption DEF IndInv, TypeOK
    <2>3. /\ response = "ok" <=> arrived = Size(WriteResponse(answer)) /\ answer <= MaxResponse
          /\ response = "refused" <=> arrived < Len(WriteResponse(answer).header)
      BY <2>1, <2>2, ResponseRead
    <2>4. Len(WriteResponse(answer).header) = 1
      <3>1. Varint[answer] = <<answer>>
        BY <2>2, VarintDef
      <3> QED
        BY <3>1 DEF WriteResponse
    <2> QED
      BY <2>1, <2>3, <2>4
  <1> QED
    BY <1>1, Inductive, PTL
=============================================================================
