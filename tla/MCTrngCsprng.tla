---------------------------- MODULE MCTrngCsprng ----------------------------
(* The random generator with its cipher and FIFO, for small budgets.       *)
EXTENDS TrngCsprng

MCSeeds == {"seed"}
MCDebugUpdates == {FALSE}
MCBlocks == 0 .. BLOCK_IDS - 1

\* The software of the full run: it reads words whenever it likes, switches
\* the generator off and on, forces reseeding and rewrites the block limit.
MCApiOps ==
    [op : {"other", "rnd_data"}]
    \cup {[op |-> "ctrl", enable |-> b, seed |-> b] : b \in BOOLEAN}
    \cup {[op |-> "num_blocks_low", value |-> v] : v \in {0, 1}}
    \cup {[op |-> "num_blocks_high", value |-> 0]}

MCSpec == CsprngInit(2, 1, 1) /\ [][CsprngNext]_csprngVars /\ CsprngFairness
=============================================================================
