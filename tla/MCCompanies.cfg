\* Five squads: three companies, or two with a leftover.
CONSTANTS
    Squad <- MCSquad
    StartLine <- MCStartLine
    MaxChanges = 2
SPECIFICATION FairSpec
INVARIANTS
    TypeOK
    InOneCompany
    OnlyMembersHadTurns
PROPERTIES
    NotTwiceRunning
    EveryoneScouts
