CONSTANTS
    Vms = {v1}
    Boots = {b1, b2}
    Agents = {a1}
    Requests = {"boot", "stop"}
    MaxConcurrentVMs = 1
    GuestServices = FALSE
SPECIFICATION FairSpec
PROPERTIES CrashNoticed TransientsResolve
