\* Small files without snapshots, large ones with and without.
SPECIFICATION FairSpec
CHECK_DEADLOCK FALSE
CONSTANTS
    Keys = {1, 2, 3}
    NumLevels = 3
    MaxMemCompactLevel = 2
    Level0Trigger = 2
    MaxBytes <- OneByte
    ExpandedLimit = 4
    MaxOverlap = 1
    Loads <- UsualLoads
INVARIANTS
    LevelsAreDisjoint
    NewerAbove
PROPERTIES
    KeepsStore
    LevelsFitInTheEnd
