SPECIFICATION Spec
CONSTANTS
    Calls = {c1}
    Assets = {a1}
    Locales = {zh}
    NoJob = NoJob
    MaxRetries = 0
    MaxRequests = 1
    MaxCrashes = 0
PROPERTIES
    CompletedStaysCompleted
CHECK_DEADLOCK FALSE
