\* Membership, command and succession: up to three events.
CONSTANTS
    q1 = q1
    q2 = q2
    q3 = q3
    Soldier <- MCSoldier
    Squad <- MCSquad
    SoldierSide <- MCSoldierSide
    StartSquad <- MCStartSquad
    MaxEvents = 3
SPECIFICATION FairSpec
INVARIANTS
    MembershipAgrees
    LeaderIsMember
    OneSidePerSquad
    DeathLookupIsFound
    CommandInv
PROPERTIES
    ImplementsRoster
    EveryoneIsLed
