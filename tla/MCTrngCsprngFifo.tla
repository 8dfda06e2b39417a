------------------------- MODULE MCTrngCsprngFifo --------------------------
(* The FIFO on its own, driven by every pattern of blocks, discards and    *)
(* acknowledgements that GeneratorProtocol admits.                         *)
EXTENDS TrngCsprngFifo

CONSTANTS b1, b2

MCBlocks == {b1, b2}
=============================================================================
