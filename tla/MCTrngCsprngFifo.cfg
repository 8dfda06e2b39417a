SPECIFICATION FifoSpec
CONSTANTS
    FIFO_MAX = 4
    WORDS = 3
    b1 = b1
    b2 = b2
    ZeroBlock = zero
    Blocks <- MCBlocks
INVARIANTS
    FifoTypeOK
    CounterNeverWraps
PROPERTY
    StreamsInOrder
