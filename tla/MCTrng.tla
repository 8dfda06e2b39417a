------------------------------- MODULE MCTrng -------------------------------
(* The whole generator with a FIFO of one block and two sources of which    *)
(* any may be slow or dead.                                                 *)
EXTENDS Trng

MCSeeds == {"none", "fresh", "used", "stale"}
MCBlocks == 0 .. BLOCK_IDS - 1
MCEnabled == {1, 2}

MCApiOps ==
    [op : {"other", "rnd_data"}]
    \cup {[op |-> "ctrl", enable |-> b, seed |-> b] : b \in BOOLEAN}
MCMixerApiOps == [op : {"mixer_ctrl"}, enable : BOOLEAN]
MCTrngApiOps == {[op |-> "discard"]}
MCDebugUpdates == {FALSE}

\* The accesses that the run above leaves out, and the debug strobe.
OtherMixerApiOps == [op : {"mixer_timeout"}, value : {0, 2}]
OtherTrngApiOps == {[op |-> "discard"]} \cup [op : {"debug_mux"}, part : {"MIXER"}]
OtherDebugUpdates == BOOLEAN

MCSpec == TrngInit(2, 1, 0, 1) /\ [][TrngNext]_trngVars /\ TrngFairness
=============================================================================
