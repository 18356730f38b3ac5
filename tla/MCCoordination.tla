--------------------------- MODULE MCCoordination ---------------------------
(* Small instances of Coordination for TLC. *)
EXTENDS Coordination, TLC

CONSTANTS a, b, c, s1, s2

(* Clients of two nodes ask for a computation each. *)
TwoProposers == (s1 :> a @@ s2 :> b)
LoneProposer == (s1 :> a)
PairSizes == (s1 :> 2 @@ s2 :> 2)
LonePair == (s1 :> 2)
LoneTriple == (s1 :> 3)
=============================================================================
