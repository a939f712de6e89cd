SPECIFICATION FairSpec
CONSTANTS
    Tasks = {t1}
    Holdings = {h1, h2}
    NoHolding = NoHolding
    Concurrency = 1
    MaxCrashes = 1
    MaxFaults = 2
INVARIANTS
    WorkingIsLive
    PipelineShape
    OutcomeMatchesSteps
    CompletedMeansReported
PROPERTIES
    TaskEnds
CHECK_DEADLOCK FALSE
