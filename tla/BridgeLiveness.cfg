\* One unit of the ERC20 is two of the xERC20; limits that one transfer uses up for two
\* seconds; the signer is replaced and recipients are called.
CONSTANTS
    home = home
    remote = remote
    homeAdapter = homeAdapter
    remoteAdapter = remoteAdapter
    otherContract = otherContract
    user = user
    token = token
    otherToken = otherToken
    swap = swap
    settled = settled
    x1 = x1
    x2 = x2
    payload = payload
    k1 = k1
    k2 = k2
    k9 = k9
    Chain = {home, remote}
    Home = home
    Destination = {home, remote}
    EmitterOf <- MCEmitterOf
    Emitter = {homeAdapter, remoteAdapter, otherContract}
    NoEmitter = noEmitter
    Peers <- BothWays
    Asset = {token, otherToken}
    Erc20 = token
    Topic = {swap, settled}
    SwapTopic = swap
    NoTopic = noTopic
    Tx = {x1, x2}
    SwapTxs = {x1}
    Key = {k1, k2, k9}
    NoKey = k0
    TeeKeys = {k1, k2}
    FirstKey = k1
    GracePeriod = 1
    NoAddress = zero
    Address = {adapter, lockbox, fees, user}
    AdapterAddress = adapter
    LockboxAddress = lockbox
    Users = {user}
    Recipients = {user, lockbox}
    Amounts = {2}
    Data = {payload}
    NoData = noData
    Payloads = {payload}
    Relayed <- NoOperations
    ForeignLogs = {}
    Fabricated = {}
    MaxNonce = 2
    DURATION = 2
    MaxUint = 12
    FreezingEnabled = FALSE
    FeeBasisPoints = 1
    FeeDivisor = 2
    ConversionRatio = 2
    InitialLimit = 1
    InitialBalance = 2
    TwinBalance = 0
    Limits = {}
    MinFees = {}
    FeesManagers = {fees}
    Signers = {k2}
    Reconfigured = {}
    NewPams = {}
SPECIFICATION FairSpec
INVARIANTS Backed
PROPERTIES EveryTransferArrives
