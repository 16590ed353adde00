\* Expected violation: an engaged squad is merged away, then looked up.
CONSTANTS
    q1 = q1
    q2 = q2
    q3 = q3
    Soldier <- MCSoldier
    Squad <- MCSquad
    SoldierSide <- MCSoldierSide
    StartSquad <- MCStartSquad
    MaxEvents = 2
SPECIFICATION Spec
INVARIANT NoInconsistentSquadIndex
