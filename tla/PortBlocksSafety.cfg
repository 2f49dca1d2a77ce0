CONSTANTS
    Vms = {v1, v2, v3, v4}
    Deleters = {d1, d2}
    Configs <- MCConfigs
    TopPort = 24
SPECIFICATION Spec
SYMMETRY VmSymmetry
INVARIANTS TypeOK BlocksAreExclusive NoBlockLeaks NoSharedPorts
