\* Three accounts; the users of the lockbox and the nodes are two of them.
CONSTANTS
    tokenA = tokenA
    tokenB = tokenB
    tokenC = tokenC
    xtokenA = xtokenA
    xtokenB = xtokenB
    NoName = none
    Unset = unset
    Account = {xt, user, freezer}
    Self = xt
    DURATION = 1
    MaxAmount = 3
    RateError = 0
    Signatures = {{xt}, {user}, {user, freezer}}
    Quantities = {1, 2}
    Pulled = {1}
    Supplies = {2}
    Limits = {1}
    Bridges = {xt}
    Lockboxes = {freezer}
    Freezers = {freezer}
    Issuers = {xt, freezer}
    Users = {user, freezer}
    PairBridges = {user}
    XTokens = {xtokenA, xtokenB}
    PairAssets <- MCPairAssets
    MaxSupply <- MCMaxSupply
    FreezeTargets = {user}
    MaxBridged = 1
    Initially <- MCInitially
    Pairs <- MCPairs
    Node = {user, freezer}
    FeeToken = {tokenA, tokenB, tokenC}
    PayersSign = TRUE
    Symbol = {1, 2, 3}
    Assets <- MCAssets
    Fees = {2}
    MaxHeld = 2
    Values = {1, 2}
SPECIFICATION MCSpec
INVARIANTS SupplyIsSumOfBalances WithinSupply ConversionsAgree EventsReadBack
INVARIANTS PairsBacked Redeemable TotalIsSum AllowancesCovered
PROPERTIES FrozenTokensStay OnlyOwnersSpend NodesTakeTheirOwn
