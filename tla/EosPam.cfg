\* Two keys and colliding chain ids; the grace period is 2 ticks.
CONSTANTS
    home = home  remote = remote  far = far
    alice = alice  ghost = ghost
    key1 = key1  key2 = key2
    word1 = word1  word2 = word2
    Account = {alice}
    ChainId = {home, remote, far}
    Low64 <- CollidingIds
    Key = {key1, key2}
    EmptyKey = empty
    ForeignKey = foreign
    Zero32 = zero
    Bytes32 = {zero, word1, word2}
    Unset = unset
    GRACE_PERIOD = 2
    Origins = {remote, far}
    Metadata <- Presented
    Operations <- PresentedOperations
SPECIFICATION Spec
INVARIANTS AuthorizedOriginRegistered OneOperationPerPreimage
PROPERTIES KeyChangeWaits
