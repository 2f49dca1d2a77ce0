CONSTANTS
    m1 = m1
    m2 = m2
    Ids = {i1, i2}
    TlsIds = {i1}
    Addrs = {a1}
    Machines = {m1, m2}
    Vms = {v1}
    Jobs = {j1}
    home <- MCHome
    Below <- MCBelow
    Reqs = {r1}
SPECIFICATION Spec
INVARIANTS TypeOK CachesFromAccepted
PROPERTIES DeliveredToOwner SweepsConverge
