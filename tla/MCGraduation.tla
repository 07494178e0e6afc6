---------------------------- MODULE MCGraduation ----------------------------
(* Instances of Graduation, whose sessions trade tokens of their own.      *)
EXTENDS Graduation, TLC

CONSTANTS s1, s2, s3

MCOwnToken == [s \in {s1, s2, s3} \cap Caller |-> s]

Symmetry == Permutations(Caller)
=============================================================================
