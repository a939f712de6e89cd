SPECIFICATION Spec
CONSTANTS
    Puts = {p1}
    Starts = {s1}
    Fires = {}
    Windows = {"a_post", "us_post"}
    USWindows = {"us_post"}
    DefaultOn = {"a_post", "us_post"}
    NoRow = NoRow
    NoEntry = NoEntry
    StoredText = "HH:MM:SS"
    MaxFaults = 0
INVARIANTS
    SavedWindowsScheduled
CHECK_DEADLOCK FALSE
