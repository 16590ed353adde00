\* Two squads, one of two soldiers: an order, news and a hit, and the merge that follows.
CONSTANTS
    LastSoldier = 3
    LedByOne = {1, 2}
    Soldier <- MCSoldier
    StartLeader <- MCStartLeader
    MaxPoints = 2
    Limit <- MCLimit
    MaxEvents = 3
    MaxOrders = 1
    MaxDecisions = 0
    MaxNews = 1
    MaxHits = 1
SPECIFICATION Spec
INVARIANTS
    TypeOK
    OnlyMergesPanic
    WalksItsOrder
