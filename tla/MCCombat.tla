------------------------------- MODULE MCCombat -------------------------------
(* Small magazines for Combat.                                             *)
EXTENDS Combat

MCBursts == {1, 2}
=============================================================================
