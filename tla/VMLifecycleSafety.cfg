CONSTANTS
    Vms = {v1}
    Boots = {b1}
    Agents = {a1, a2}
    Requests = {"boot", "stop", "delete", "reprovision"}
    MaxConcurrentVMs = 1
    GuestServices = TRUE
SPECIFICATION Spec
SYMMETRY Symmetry
INVARIANTS TypeOK TransientsOwned RunningIsWatched
