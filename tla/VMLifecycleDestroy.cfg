CONSTANTS
    Vms = {v1}
    Boots = {b1}
    Agents = {a1}
    Requests = {"boot", "delete"}
    MaxConcurrentVMs = 1
    GuestServices = FALSE
SPECIFICATION Spec
INVARIANTS DestroyStops
