---------------------------- MODULE RoundBased ----------------------------
(***************************************************************************)
(* What a round-based computation promises, however its messages travel:   *)
(* a party enters round k + 1 only when every party has entered round k.   *)
(* Round 0 is before its first message, round R + 1 is the result.         *)
(***************************************************************************)
EXTENDS Naturals

CONSTANTS
    N,          \* number of parties, indexed 1..N as in the peerset
    R           \* rounds of messages

VARIABLE pos    \* the round each party is in

Parties == 1 .. N

Init == pos = [i \in Parties |-> 0]

Advance(i) ==
    /\ pos[i] <= R
    /\ \A j \in Parties : pos[j] >= pos[i]
    /\ pos' = [pos EXCEPT ![i] = @ + 1]

Next == \E i \in Parties : Advance(i)

Spec == Init /\ [][Next]_pos

(* Nobody is more than a round ahead of another, and so nobody has a result *)
(* before all have entered the last round.                                  *)
Apart == \A i, j \in Parties : pos[i] <= pos[j] + 1

=============================================================================
