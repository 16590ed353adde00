---------------------------- MODULE MCBattlePhase ----------------------------
(* A flag and a few soldiers for BattlePhase.                              *)
EXTENDS BattlePhase, TLC

CONSTANT f1

(* A flag between the zones of the two sides.                              *)
MCFreeFlags == [f \in Flag |-> {}]
MCNoZone    == [s \in Side |-> {}]

(* With EndMorale = 2, B is broken while it still has a soldier.           *)
MCStrength == [s \in Side |-> IF s = "A" THEN 1 ELSE 2]
=============================================================================
