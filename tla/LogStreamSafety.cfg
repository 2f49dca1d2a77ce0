CONSTANTS
    Viewers = {v1, v2}
    Ring = 2
    ChanCap = 2
    MaxLines = 4
SPECIFICATION Spec
INVARIANTS TypeOK OpenIffSubscribed OnlyDropsMissing
PROPERTIES ViewersEnd
CHECK_DEADLOCK FALSE
