\* An order of a player, with nothing else in the battle.
CONSTANTS
    LastSoldier = 2
    LedByOne = {1, 2}
    Soldier <- MCSoldier
    StartLeader <- MCStartLeader
    MaxPoints = 1
    Limit <- MCLimit
    MaxEvents = 2
    MaxOrders = 1
    MaxDecisions = 0
    MaxNews = 0
    MaxHits = 0
SPECIFICATION FairSpec
PROPERTY PlayerOrdersAreExecuted
