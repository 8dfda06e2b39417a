SPECIFICATION MCSpec
CONSTANTS
    FIFO_MAX = 2
    WORDS = 2
    BLOCK_IDS = 1
    Blocks <- MCBlocks
    ZeroBlock = zero
    CIPHER_MAX_BLOCKS = 3
    NUM_BLOCKS_HALF = 2
    Seeds <- MCSeeds
    NoSeed = none
    ApiOps <- MCApiOps
    DebugUpdates <- MCDebugUpdates
INVARIANTS
    CsprngTypeOK
    KeystreamOfThisSeed
    HardBlockLimit
    OneBlockLostAtMost
PROPERTIES
    FifoSpec
    WordsKeepComing
