\* Keys that make double finals and vowels, and one that cannot be final.
CONSTANTS
    Consonants = {0, 4, 9}
    Vowels = {0, 8}
    Keys <- MCKeys
    Signs <- MCSigns
    Names <- MCNames
    MaxStrokes = 5
SPECIFICATION Spec
INVARIANTS
    TypeOK
    NamesStandApart
PROPERTIES
    KeystrokesAreKept
    BackspaceTakesTheLast
