---------------------------- MODULE MCCommandPost ----------------------------
(* Two squads and two places for CommandPost.                              *)
EXTENDS CommandPost, TLC

CONSTANTS q1, q2, p1, p2

Symmetry == Permutations({q1, q2}) \cup Permutations({p1, p2})
=============================================================================
