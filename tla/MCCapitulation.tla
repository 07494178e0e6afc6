--------------------------- MODULE MCCapitulation ---------------------------
(* An instance of Capitulation: two prices in the depth of a dump, one that *)
(* reclaims it, and one to fall from.                                       *)
EXTENDS Capitulation

MCPrice == {50, 55, 80, 100}
MCGap == {1, 2}
=============================================================================
