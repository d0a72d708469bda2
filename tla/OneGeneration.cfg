\* Two requests in one process, with Redis up or lost.
SPECIFICATION PlannerSpec
CONSTANTS
    Api = {a1}
    Call = {c1, c2}
    Cap = 2
    MaxCost = 1
    MaxChat = 2
    NoApi = NoApi
INVARIANTS
    OneGenerationAtATime
CHECK_DEADLOCK FALSE
