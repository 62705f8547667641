\* Freezing, allowances and the lockbox; the limits never bind for long.
CONSTANTS
    NoAddress = zero
    Address = {adapter, holder}
    DURATION = 1
    MaxUint = 3
    FreezingEnabled = TRUE
    Amounts = {1}
    Limits = {2}
    Allowances = {1, 3}
    Bridges = {adapter}
    Lockboxes = {holder}
    FreezingRoles = {adapter}
    Freezable = {adapter, holder, zero}
SPECIFICATION Spec
INVARIANTS SupplyIsSumOfBalances
PROPERTIES FrozenFundsOnlySeized
