SPECIFICATION Spec
CONSTANTS
    ai = ai
    http = http
    store = store
    v1 = v1
    v2 = v2
    NoValue = NoValue
    Values = {v1, v2}
    EnforcePii = TRUE
    TokenizeInputs = TRUE
    Tools = {ai, http, store}
    Declared = {ai, http}
    Class <- MCClass
    Plan <- PlanTwoModels
    Revisions = {}
    MaxReplan = 1
    MaxTokens = 9
    StepCaps = {9}
    MaxTime = 2
    PerMinute = 9
    PerHour = 9
    Minute = 1
    Hour = 9
    MaxCallCost = 0
    MaxToolCost = 0
    MaxSegments = 2
    MaxClock = 0
CHECK_DEADLOCK FALSE
INVARIANTS TokensKeepMeaning
