------------------------------- MODULE Roster -------------------------------
(***************************************************************************)
(* What the command of the squads promises to the soldiers, whatever the   *)
(* messages of a tick do: a soldier fights for one side, dies once, and    *)
(* changes squad only together with every living comrade of that squad,    *)
(* for a squad of the same side that somebody living belongs to.  Only the *)
(* load of a save undoes that, and it undoes all of it since the save.     *)
(*                                                                         *)
(* SquadCommand, the message by message model of the runner, is shown to   *)
(* implement this specification.                                           *)
(***************************************************************************)
CONSTANTS
    Soldier,        \* the soldiers of the battle
    Squad,          \* the squad identifiers
    SoldierSide,    \* the side each soldier fights for
    StartSquad      \* the squad each soldier is deployed with

VARIABLES
    living,         \* the soldiers still alive
    squadOf,        \* the squad each soldier belongs to
    kept            \* the roster of the save that may be loaded

rosterVars == <<living, squadOf, kept>>

Now == [living |-> living, squadOf |-> squadOf]

-----------------------------------------------------------------------------

Init ==
    /\ living = Soldier
    /\ squadOf = StartSquad
    /\ kept = Now

(* A soldier dies, and keeps the squad of that moment.                     *)
Die(s) ==
    /\ s \in living
    /\ living' = living \ {s}
    /\ UNCHANGED <<squadOf, kept>>

(* The living of squad q join squad t, all at once.                        *)
Join(q, t) ==
    /\ \E s \in living : squadOf[s] = t
    /\ \A s \in living, c \in Soldier :
         squadOf[s] = q /\ squadOf[c] = t => SoldierSide[s] = SoldierSide[c]
    /\ squadOf' = [s \in Soldier |-> IF s \in living /\ squadOf[s] = q
                                       THEN t ELSE squadOf[s]]
    /\ UNCHANGED <<living, kept>>

(* The whole roster is saved, ...                                          *)
Keep ==
    /\ kept' = Now
    /\ UNCHANGED <<living, squadOf>>

(* ... and comes back whole.                                               *)
Restore ==
    /\ living' = kept.living
    /\ squadOf' = kept.squadOf
    /\ UNCHANGED kept

Next ==
    \/ \E s \in Soldier : Die(s)
    \/ \E q, t \in Squad : Join(q, t)
    \/ Keep \/ Restore

Spec == Init /\ [][Next]_rosterVars

=============================================================================
