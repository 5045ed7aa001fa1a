SPECIFICATION Spec
CONSTANTS
    Threads = {thread}
    Handlers = {handler}
    Sweepers = {sweeper}
    NoWriter = NoWriter
    Capacity = 1
    SnapshotLimit = 2
    MaxBatch = 1
    MaxEvents = 2
INVARIANT SeqUnique
CHECK_DEADLOCK FALSE
