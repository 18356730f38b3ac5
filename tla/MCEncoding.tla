---------------------------- MODULE MCEncoding ----------------------------
(* An instance of Encoding for TLC, with the sizes of the code. *)
EXTENDS Encoding

Counts == (1 .. 4) \cup (100 .. 110) \cup (205 .. 215)
Bodies == (0 .. 40) \cup (126 .. 130) \cup (4000 .. 4100) \cup (8100 .. 8200) \cup (16380 .. 16390)

=============================================================================
