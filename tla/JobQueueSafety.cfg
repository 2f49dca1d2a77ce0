CONSTANTS
    Jobs = {j1, j2}
    Cancellers = {c1}
    Configured = 0
    MaxUnsaved = 1
    MaxRestarts = 1
SPECIFICATION Spec
SYMMETRY JobSymmetry
INVARIANTS TypeOK ConcurrencyBound NoLostWakeup OneOwner DoneMeansTerminal NoOrphanedRows
PROPERTIES CancelledPendingNeverStarts OutcomeSticks
CHECK_DEADLOCK FALSE
