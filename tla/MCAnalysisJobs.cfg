SPECIFICATION TwoRequests
CONSTANTS
    Calls = {1, 2}
    Assets = {a1}
    Locales = {"zh", "en"}
    NoJob = NoJob
    MaxRetries = 1
    MaxRequests = 2
    MaxCrashes = 1
INVARIANTS
    TypeOK
    OnePipelinePerAsset
    LinearHistory
PROPERTIES
    AssetUnblocks
CHECK_DEADLOCK FALSE
