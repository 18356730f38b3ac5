-------------------------- MODULE MCEchoBroadcast --------------------------
(* Small instances of EchoBroadcast for TLC. *)
EXTENDS EchoBroadcast

(* Every party sends everybody the same. *)
SamePayload == [s \in Parties |-> [k \in Rounds |-> [j \in Parties |-> "a"]]]

(* Party N tells party 1 something else in round 1. *)
SplitPayload ==
    [s \in Parties |-> [k \in Rounds |-> [j \in Parties |->
        IF s = N /\ k = 1 /\ j = 1 THEN "b" ELSE "a"]]]
=============================================================================
