----------------------------- MODULE MCCompanies ------------------------------
(* Five squads for Companies: three companies, and after a loss two and a  *)
(* leftover, which has two squads and the anchor of one of the new ones.   *)
EXTENDS Companies

MCSquad == 1..5

(* Alpha is the single southern squad, Charlie the two northern ones.      *)
MCStartLine == {<<4, 5, 2, 3, 1>>}
=============================================================================
