SPECIFICATION Spec
CONSTANTS
    Analyses = {a1}
    Requests = {r1}
    NoCard = NoCard
INVARIANTS
    PlanPersisted
CHECK_DEADLOCK FALSE
