-------------------------- MODULE RoundBasedProofs --------------------------
(***************************************************************************)
(* What follows from RoundBased for whatever implements it.  That everyone *)
(* is at least where the party that advances is, at each of its advances,  *)
(* says nothing of the time between them; Apart does.                      *)
(***************************************************************************)
EXTENDS RoundBased, TLAPS

(* Parties are in rounds, and none ahead of another by two. *)
Rounded == pos \in [Parties -> Nat] /\ Apart

(* In a round-based computation nobody is more than a round ahead. *)
THEOREM WithinARound == Spec => []Apart
  <1>1. Init => Rounded
    BY DEF Init, Rounded, Apart
  <1>2. Rounded /\ [Next]_pos => Rounded'
    <2> SUFFICES ASSUME Rounded, NEW i \in Parties, Advance(i) PROVE Rounded'
      BY DEF Next, Rounded, Apart
    <2>1. /\ pos' \in [Parties -> Nat] /\ pos'[i] = pos[i] + 1
          /\ \A j \in Parties : pos[j] \in Nat /\ pos[j] >= pos[i]
          /\ \A j \in Parties \ {i} : pos'[j] = pos[j]
      BY DEF Advance, Rounded
    <2>2. ASSUME NEW j \in Parties, NEW k \in Parties PROVE pos'[j] <= pos'[k] + 1
      <3>1. pos[j] <= pos[k] + 1 /\ pos[j] \in Nat /\ pos[k] \in Nat /\ pos[i] \in Nat
        BY <2>1 DEF Rounded, Apart
      <3>2. CASE j = i
        BY <2>1, <3>1, <3>2
      <3>3. CASE j # i
        BY <2>1, <3>1, <3>3
      <3> QED
        BY <3>2, <3>3
    <2> QED
      BY <2>1, <2>2 DEF Rounded, Apart
  <1> QED
    BY <1>1, <1>2, PTL DEF Spec, Rounded
=============================================================================
