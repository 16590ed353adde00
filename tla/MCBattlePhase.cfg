\* One flag, that nobody holds at first; flags are looked at every other frame.
CONSTANTS
    f1 = f1
    Flag = {f1}
    StartFlags <- MCFreeFlags
    Zone <- MCNoZone
    Strength <- MCStrength
    EndMorale = 2
    FlagsFreq = 2
    MoraleFreq = 1
    VictoryFreq = 1
    Cycle = 2
    MaxLoads = 1
SPECIFICATION FairSpec
INVARIANTS
    TypeOK
    MoraleVictoryIsTrue
    PhaseInv
PROPERTIES
    OnceOver
    BrokenSideLoses
    HeldFlagsWin
