SPECIFICATION Spec
CONSTANTS
    Puts = {p1, p2}
    Starts = {s1, s2}
    Fires = {f1, f2}
    Windows = {"a_post", "us_post"}
    USWindows = {"us_post"}
    DefaultOn = {"a_post", "us_post"}
    NoRow = NoRow
    NoEntry = NoEntry
    StoredText = "HH:MM:SS"
    MaxFaults = 1
SYMMETRY Symmetry
INVARIANTS
    TypeOK
    EntriesTracked
    CallbackAlive
    OffStaysOff
CHECK_DEADLOCK FALSE
