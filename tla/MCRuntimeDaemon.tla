-------------------------- MODULE MCRuntimeDaemon --------------------------
(* Small instances of RuntimeDaemon for TLC. *)
EXTENDS RuntimeDaemon, TLC

CONSTANTS r1, r2, q1, q2, p1, p2

(* Two parties, and the degenerate n = 0. *)
SizeTwoZero == (q1 :> 2 @@ q2 :> 0)
(* Two parties and three. *)
SizeTwoThree == (q1 :> 2 @@ q2 :> 3)

=============================================================================
