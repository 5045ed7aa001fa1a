SPECIFICATION FairSpec
CONSTANTS
    Threads = {thread}
    Handlers = {handler}
    Sweepers = {sweeper}
    NoWriter = NoWriter
    Capacity = 1
    SnapshotLimit = 2
    MaxBatch = 2
    MaxEvents = 3
INVARIANTS TypeOK NothingMissed DropIsMarked
PROPERTIES ClaimSeqMonotonic MarkedDropIsTold
CHECK_DEADLOCK FALSE
