CONSTANTS
    Ids = {i1, i2, i3}
    Managed = {p1, p2}
    Outside = {o1}
SPECIFICATION Spec
SYMMETRY Symmetry
INVARIANTS TypeOK ReadyIsUsable
PROPERTIES OutsideUntouched DeletedForGood
CHECK_DEADLOCK FALSE
