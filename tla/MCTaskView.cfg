SPECIFICATION Spec
CONSTANTS
    Tasks = {t1, t2}
    Holdings = {h1}
    NoHolding = NoHolding
    Concurrency = 1
    MaxCrashes = 2
    MaxFaults = 0
PROPERTIES
    KeepsPromise
CHECK_DEADLOCK FALSE
