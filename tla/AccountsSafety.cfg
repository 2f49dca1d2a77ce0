CONSTANTS
    Ids = {u1, u2}
    Names = {n1, n2}
    Tokens = {t1}
    Calls = {c1, c2}
    TTL = 4
SPECIFICATION Spec
SYMMETRY Symmetry
INVARIANTS TypeOK SlidingExpiry
PROPERTIES NoneReturns
