\* The contract as the bridge and a holder, under changing limits, freezing, one day = 3 seconds, rates off by one.
CONSTANTS
    NoName = none
    Account = {xt, user}
    Self = xt
    DURATION = 3
    MaxAmount = 9
    RateError = 1
    Signatures = {{xt}}
    Quantities = {1}
    Pulled = {}
    Supplies = {1}
    Limits = {2, 4}
    Bridges = {xt}
    Lockboxes = {}
    Freezers = {xt}
SPECIFICATION Spec
INVARIANTS WindowBound SmallLimitsReadable
PROPERTIES SpentStaysSpent
