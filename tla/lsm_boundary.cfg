\* Small files while a snapshot is held.
SPECIFICATION Spec
CHECK_DEADLOCK FALSE
CONSTANTS
    Keys = {1, 2}
    NumLevels = 3
    MaxMemCompactLevel = 2
    Level0Trigger = 2
    MaxBytes <- OneByte
    ExpandedLimit = 4
    MaxOverlap = 1
    Loads <- SmallFilesHeld
INVARIANTS
    NewerAbove
