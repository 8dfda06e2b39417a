SPECIFICATION MCSpec
CONSTANTS
    FIFO_MAX = 1
    WORDS = 1
    BLOCK_IDS = 1
    Blocks <- MCBlocks
    ZeroBlock = zero
    CIPHER_MAX_BLOCKS = 3
    NUM_BLOCKS_HALF = 2
    Seeds <- MCSeeds
    NoSeed = "no seed"
    ApiOps <- MCApiOps
    DebugUpdates <- OtherDebugUpdates
    MIXER_WORDS = 2
    TIMEOUT_CTR_SIZE = 4
    MixerApiOps <- OtherMixerApiOps
    Enabled <- MCEnabled
    Live = 2
    TrngApiOps <- OtherTrngApiOps
    CarefulDiscards = FALSE
INVARIANT
    TwoSeedBlocks
