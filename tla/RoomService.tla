---------------------------- MODULE RoomService ----------------------------
(***************************************************************************)
(* What a node promises its RPC clients: every call waits until it is      *)
(* answered, and only a call whose computation ran gets a result.  A room  *)
(* runs one computation at a time, and a call at most one computation.     *)
(***************************************************************************)
EXTENDS Naturals

CONSTANTS
    Rooms,
    Requests    \* identities of RPC calls; an answered one may be used again

VARIABLES
    reply,      \* per request: "none", "waiting", or its answer
    running     \* per room: "none", a request, or "remote": a computation
                \* that another node's client asked for

Refusals == {"busy", "unknown", "canceled"}
Outcomes == {"ok", "failed", "canceled"}
Computing(q) == \E r \in Rooms : running[r] = q

Init ==
    /\ reply = [q \in Requests |-> "none"]
    /\ running = [r \in Rooms |-> "none"]

(* A node that is gone refuses at once. *)
Ask(q) ==
    /\ reply[q] # "waiting"
    /\ \E a \in {"waiting", "canceled"} : reply' = [reply EXCEPT ![q] = a]
    /\ UNCHANGED running

Refuse(q) ==
    /\ reply[q] = "waiting" /\ ~Computing(q)
    /\ \E a \in Refusals : reply' = [reply EXCEPT ![q] = a]
    /\ UNCHANGED running

Start(r, who) ==
    /\ running[r] = "none"
    /\ who \in Requests => reply[who] = "waiting" /\ ~Computing(who)
    /\ running' = [running EXCEPT ![r] = who]
    /\ UNCHANGED reply

Finish(r) ==
    /\ running[r] # "none"
    /\ running' = [running EXCEPT ![r] = "none"]
    /\ IF running[r] \in Requests
       THEN \E a \in Outcomes : reply' = [reply EXCEPT ![running[r]] = a]
       ELSE UNCHANGED reply

(* The daemon's task panics. *)
Crash ==
    /\ running' = [r \in Rooms |-> "none"]
    /\ reply' = [q \in Requests |-> IF reply[q] = "waiting" THEN "canceled" ELSE reply[q]]

Next ==
    \/ \E q \in Requests : Ask(q) \/ Refuse(q)
    \/ \E r \in Rooms : Finish(r) \/ \E who \in Requests \cup {"remote"} : Start(r, who)
    \/ Crash

Spec == Init /\ [][Next]_<<reply, running>>

=============================================================================
