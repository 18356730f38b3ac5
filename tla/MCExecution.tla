---------------------------- MODULE MCExecution ----------------------------
(* An instance of Execution for TLC. *)
EXTENDS Execution

(* Signing, with fewer rounds of its offline stage: broadcasts around a     *)
(* round of direct messages, as in key generation, then the partial         *)
(* signatures, which belong to another state machine.                       *)
SignKind == <<"broadcast", "direct", "broadcast", "broadcast">>
SignStage == [k \in Rounds |-> IF k = R THEN 2 ELSE 1]

=============================================================================
