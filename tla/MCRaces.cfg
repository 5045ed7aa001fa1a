SPECIFICATION FairSpec
CONSTANTS
    r1 = r1
    r2 = r2
    w1 = w1
    w2 = w2
    NoRun = NoRun
    Runs = {r1}
    Workers = {w1, w2}
    Plan <- PlanGate
    Eager = TRUE
    Graceful = TRUE
    MaxOps = 2
    MaxStops = 1
CHECK_DEADLOCK FALSE
INVARIANTS OneExecutionPerRun PassedInOrder ResultNotRepeated CompletedIsDone QueuedIsOwned
PROPERTIES QueuedIsPickedUp LateSuspensionEnds
