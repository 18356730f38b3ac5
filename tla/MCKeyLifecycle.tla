--------------------------- MODULE MCKeyLifecycle ---------------------------
(* Instances of KeyLifecycle for TLC. *)
EXTENDS KeyLifecycle

(* Key generations by all and by the outer two, and signing by these. *)
Regenerate ==
    {[protocol |-> "keygen", parties |-> {1, 2, 3}],
     [protocol |-> "keygen", parties |-> {1, 3}],
     [protocol |-> "sign", parties |-> {1, 3}]}

=============================================================================
