-------------------------- MODULE RequestResponse --------------------------
(***************************************************************************)
(* What the network layer promises a caller: each request is made once and *)
(* resolved at most once, by a positive result only if its target answered *)
(* it.  An answer may come after the caller was told that there is none,   *)
(* and a caller that has stopped listening is told nothing.                *)
(***************************************************************************)
CONSTANT Requests

VARIABLES
    phase,     \* a request not made yet, pending, or done
    answered,  \* requests their targets answered
    told       \* what the caller was told

vars == <<phase, answered, told>>

Init ==
    /\ phase = [q \in Requests |-> "idle"]
    /\ answered = {}
    /\ told = [q \in Requests |-> <<>>]

(* A call is one message to several targets at once. *)
Call(S) ==
    /\ \A q \in S : phase[q] = "idle"
    /\ phase' = [q \in Requests |-> IF q \in S THEN "pending" ELSE phase[q]]
    /\ UNCHANGED <<answered, told>>

Answer(q) ==
    /\ phase[q] # "idle"
    /\ answered' = answered \cup {q}
    /\ UNCHANGED <<phase, told>>

Resolve(q, result) ==
    /\ phase[q] = "pending"
    /\ result = "ok" => q \in answered
    /\ phase' = [phase EXCEPT ![q] = "done"]
    /\ told' \in {told, [told EXCEPT ![q] = <<result>>]}
    /\ UNCHANGED answered

Next ==
    \/ \E S \in SUBSET Requests : Call(S)
    \/ \E q \in Requests :
          \/ Answer(q)
          \/ \E result \in {"ok", "refused", "network"} : Resolve(q, result)

Spec == Init /\ [][Next]_vars

=============================================================================
