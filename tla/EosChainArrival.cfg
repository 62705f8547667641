\* Two events that together exceed the day's limit, presented again and again.
CONSTANTS
    here = here
    there = there
    key = key
    emitter = emitter
    topic = topic
    noKey = noKey
    noOne = noOne
    payload = payload
    remoteUser = remoteUser
    alice = alice
    bob = bob
    relayer = relayer
    tokenAccount = tokenAccount
    xtokenAccount = xtokenAccount
    lockbox = lockbox
    adapter = adapter
    fees = fees
    other = other
    NoName = NoName
    NoMemo = NoMemo
    NoData = NoData
    Unset = Unset
    Zero32 = zero
    EmptyKey = noKey
    ForeignKey = noOne
    ChainId = {here, there}
    Low64 <- MCLow64
    Key = {key}
    Bytes32 = {zero, emitter, topic}
    GRACE_PERIOD = 1
    InitialPam <- MCPam
    SwapMemo <- MCSwapMemo
    Unit = 2
    FEE_BASIS_POINTS = 1
    FEE_BASIS_POINTS_DIVISOR = 2
    MinFee = 1
    MaxAmount = 9
    DURATION = 2
    RateError = 0
    Users = {alice, bob}
    Contracts = {}
    Home = FALSE
    Deployed = TRUE
    MaxDepth = 4
    Holding = 2
    MaxSupply = 6
    BridgeLimit = 2
    Quantities = {2}
    Receivers = {adapter, bob}
    Memos <- MCMemos
    Payloads = {}
    FreezeTargets = {}
    Imitated = {alice, lockbox}
    Metadata <- FourSigned
    Operations <- FourOperations
    PairWord <- AwayWord
SPECIFICATION FairSpec
INVARIANTS Backed
PROPERTIES SettlementsArrive
