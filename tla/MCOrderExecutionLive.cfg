\* One squad of two soldiers: two events of an order, a decision, news and a hit.
CONSTANTS
    LastSoldier = 2
    LedByOne = {1, 2}
    Soldier <- MCSoldier
    StartLeader <- MCStartLeader
    MaxPoints = 2
    Limit <- MCLimit
    MaxEvents = 2
    MaxOrders = 1
    MaxDecisions = 1
    MaxNews = 1
    MaxHits = 1
SPECIFICATION FairSpec
PROPERTIES
    EveryWalkEnds
    OrdersAreTaken
