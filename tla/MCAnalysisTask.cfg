SPECIFICATION Spec
CONSTANTS
    Tasks = {t1, t2}
    Holdings = {h1}
    NoHolding = NoHolding
    Concurrency = 1
    MaxCrashes = 1
    MaxFaults = 1
SYMMETRY Symmetry
INVARIANTS
    TypeOK
    SlotsExact
    StoreAgrees
PROPERTIES
    NoResurrection
    OrphansSettled
CHECK_DEADLOCK FALSE
