\* One bridge under changing limits, one day = 3 seconds.
CONSTANTS
    NoAddress = zero
    Address = {bridge}
    DURATION = 3
    MaxUint = 7
    FreezingEnabled = FALSE
    Amounts = {0, 2}
    Limits = {2, 5}
    Allowances = {}
    Bridges = {bridge}
    Lockboxes = {}
    FreezingRoles = {}
    Freezable = {}
SPECIFICATION Spec
INVARIANTS WindowBound
PROPERTIES UsedQuotaCarriedOver
