SPECIFICATION Spec
CONSTANTS
    Frequencies = {0, 2}
    MaxDays = 8
    Horizon = 40
    MaxFaults = 1
    StoredText = "HH:MM:SS"
    NoRow = NoRow
    NoTime = NoTime
    Follow = Follow
INVARIANTS
    TypeOK
    NextIsLeast
PROPERTIES
    NextStable
CHECK_DEADLOCK FALSE
