SPECIFICATION SpendSpec
CONSTANTS
    ai = ai
    http = http
    store = store
    v1 = v1
    v2 = v2
    NoValue = NoValue
    Values = {v1, v2}
    EnforcePii = TRUE
    TokenizeInputs = TRUE
    Tools = {ai, http, store}
    Declared = {ai, http}
    Class <- MCClass
    Plan <- PlanNotify
    Revisions <- RevisionsNotify
    MaxReplan = 1
    MaxTokens = 3
    StepCaps = {1, 3}
    MaxTime = 2
    PerMinute = 1
    PerHour = 3
    Minute = 1
    Hour = 9
    MaxCallCost = 1
    MaxToolCost = 1
    MaxSegments = 2
    MaxClock = 2
CHECK_DEADLOCK FALSE
INVARIANT SpendBounded
