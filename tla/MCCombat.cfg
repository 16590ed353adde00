\* A soldier with a rifle or a machine gun, a spare magazine, a grenade.
CONSTANTS
    Rounds = 2
    Spares = 1
    Grenades = 1
    Bursts <- MCBursts
    MaxSupplies = 1
SPECIFICATION FairSpec
INVARIANTS
    TypeOK
    RoundsAccounted
    UnloadedShotsFollowReloading
    GrenadesAccounted
PROPERTIES
    EngagedFires
    ThrowsEnd
