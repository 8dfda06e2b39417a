SPECIFICATION ReaderSpec
CONSTANTS
    FIFO_MAX = 2
    WORDS = 2
    BLOCK_IDS = 16
    Blocks <- MCBlocks
    ZeroBlock = zero
    CIPHER_MAX_BLOCKS = 4
    NUM_BLOCKS_HALF = 2
    Seeds <- MCSeeds
    NoSeed = none
    ApiOps <- MCApiOps
    DebugUpdates <- MCDebugUpdates
INVARIANT
    WordsInSequence
