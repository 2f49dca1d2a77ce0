CONSTANTS
    Jobs = {j1, j2}
    Cancellers = {}
    Configured = 1
    MaxUnsaved = 0
    MaxRestarts = 1
SPECIFICATION FairSpec
PROPERTIES JobsSettle RefinesBoundedQueue
CHECK_DEADLOCK FALSE
