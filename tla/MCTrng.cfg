SPECIFICATION MCSpec
CONSTANTS
    FIFO_MAX = 1
    WORDS = 1
    BLOCK_IDS = 1
    Blocks <- MCBlocks
    ZeroBlock = zero
    CIPHER_MAX_BLOCKS = 3
    NUM_BLOCKS_HALF = 2
    Seeds <- MCSeeds
    NoSeed = "no seed"
    ApiOps <- MCApiOps
    DebugUpdates <- MCDebugUpdates
    MIXER_WORDS = 2
    TIMEOUT_CTR_SIZE = 4
    MixerApiOps <- MCMixerApiOps
    Enabled <- MCEnabled
    Live = 2
    TrngApiOps <- MCTrngApiOps
    CarefulDiscards = TRUE
INVARIANTS
    TrngTypeOK
    SeedsAreFresh
    RequestIsHeard
    CollectorWorksForMixer
    CounterOfThisSeed
PROPERTY
    RandomKeepsComing
