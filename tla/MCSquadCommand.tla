--------------------------- MODULE MCSquadCommand ---------------------------
(* Small deployments for SquadCommand.                                     *)
EXTENDS SquadCommand

CONSTANTS q1, q2, q3

(* Two squads of two and one squad of one: side A holds q1 and q2, side B  *)
(* holds q3.                                                               *)
MCSoldier == 1..5
MCSquad == {q1, q2, q3}
MCSoldierSide == [s \in MCSoldier |-> IF s = 5 THEN "B" ELSE "A"]
MCStartSquad == [s \in MCSoldier |-> IF s \in 1..2 THEN q1
                                     ELSE IF s \in 3..4 THEN q2 ELSE q3]
=============================================================================
