------------------------- MODULE MCTrngCsprngReader -------------------------
(* The generator and one reader of words: nobody discards, disables or     *)
(* reconfigures anything, the debug strobe is quiet, and the reader reads  *)
(* the data register only when rnd_syn says that a word is there.          *)
EXTENDS TrngCsprng

VARIABLES last, before  \* the last word the reader got and the one before it

MCSeeds == {"seed"}
MCBlocks == 0 .. BLOCK_IDS - 1
MCApiOps == [op : {"other", "rnd_data"}]
MCDebugUpdates == {FALSE}

Unread == <<>>

ReaderInit == /\ CsprngInit(2, 1, 1)
              /\ last = Unread
              /\ before = Unread

ReaderNext ==
    \E seed_syn \in BOOLEAN, seed_data \in Seeds, api \in ApiOps :
        /\ api.op = "rnd_data" => rnd_syn_reg
        /\ CsprngClock(seed_syn, seed_data, FALSE, api, FALSE)
        /\ IF api.op = "rnd_data"
             THEN /\ last' = rnd_data_reg
                  /\ before' = last
             ELSE UNCHANGED <<last, before>>

ReaderSpec == ReaderInit /\ [][ReaderNext]_<<csprngVars, last, before>>

\* Block b comes after block a: the numbers are compared on a ring that is
\* much longer than the distance of any two blocks in the generator.
LaterBlock(b, a) == (b + BLOCK_IDS - a) % BLOCK_IDS \in 1 .. BLOCK_IDS \div 2

\* "the 512 bit keystream blocks from ChaCha are divided into 16 32-bit words
\* and provided in sequence": two words read one after the other are
\* neighbours in a block, or the last of a block and the first of a later one.
WordsInSequence ==
    before # Unread =>
        \/ last[1] = before[1] /\ last[2] = before[2] + 1
        \/ /\ before[2] = WORDS - 1
           /\ last[2] = 0
           /\ LaterBlock(last[1], before[1])
=============================================================================
