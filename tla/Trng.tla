------------------------------- MODULE Trng --------------------------------
(***************************************************************************)
(* The random number generator as a whole, src/core/rng/trng/src/rtl/      *)
(* trng.v: the mixer and the generator on one clock, joined by the seed    *)
(* handshake (more_seed, seed_syn, seed_ack), with the discard register    *)
(* and the debug selector of the top level.  The entropy sources are left  *)
(* open: a source that is enabled may raise syn in any cycle.              *)
(***************************************************************************)
EXTENDS TrngCsprng, TrngMixer

CONSTANTS
    Enabled,    \* entropy sources that are enabled
    Live,       \* one of them that does not die
    TrngApiOps, \* accesses to the top level's registers
    CarefulDiscards     \* discards come only where they do no harm

\* trng.v ties source 0 off.
ASSUME EnabledAssumption == Enabled \subseteq {1, 2} /\ Live \in Enabled
ASSUME CarefulAssumption == CarefulDiscards \in BOOLEAN

\* The seed that the mixer hands over is abstracted to its digest.
ASSUME DigestAssumption == {"none", "fresh", "stale", "used"} \subseteq Seeds

DebugParts == {"ENTROPY1", "ENTROPY2", "MIXER", "CSPRNG", "other"}

ASSUME TrngApiOpsAssumption ==
    TrngApiOps \subseteq {[op |-> "discard"]} \cup [op : {"debug_mux"}, part : DebugParts]

VARIABLES discard_reg, debug_mux_reg

trngVars == <<csprngVars, mixerVars, discard_reg, debug_mux_reg>>

TrngInit(num_rounds, num_blocks_low, num_blocks_high, timeout) ==
    /\ CsprngInit(num_rounds, num_blocks_low, num_blocks_high)
    /\ MixerInit(timeout)
    /\ discard_reg = FALSE
    /\ debug_mux_reg = "CSPRNG"

\* The discard bit is a strobe: it lasts one cycle.
TrngApi(api) ==
    /\ discard_reg' = (api.op = "discard")
    /\ debug_mux_reg' = IF api.op = "debug_mux" THEN api.part ELSE debug_mux_reg

\* The seed is latched by the generator at this edge.
SeedTaken == Runs("CTRL_SEED0", discard_reg) \/ Runs("CTRL_SEED1", discard_reg)

\* One access per cycle reaches one of the parts (core_mux).
TrngClock(syn, api, debug_update) ==
    /\ CsprngClock(seed_syn_reg, digest, discard_reg, api,
                   debug_update /\ debug_mux_reg = "CSPRNG")
    /\ MixerClock(more_seed_reg, seed_ack_reg, discard_reg, Enabled, syn, api,
                  seed_syn_reg /\ SeedTaken)
    /\ TrngApi(api)

\* A block of 32 words takes the sources more than 32 * 32 cycles to fill; the
\* cipher and the hash core need less than 200.  They are never overtaken: the
\* last word of a block does not come before they are done.
Delivers(syn) ==
    word_ctr_reg = MIXER_WORDS - 1 =>
        syn = {} \/ (hash_ready /\ chacha_ctrl_reg \in {"CTRL_IDLE", "CTRL_DONE"})

\* A discard takes effect in the cycle after it is written.  It does no harm
\* unless it meets the mixer while it offers a seed, which then stays on offer,
\* or while words are being collected, which then go on into the next block.
HarmlessDiscard ==
    discard_reg =>
        \/ mixer_ctrl_reg \in {"CTRL_IDLE", "CTRL_MIX", "CTRL_SYN", "CTRL_NEXT"}
        \/ mixer_ctrl_reg = "CTRL_COLLECT" /\ entropy_collect_ctrl_reg = Idle

\* The mixer looks at one source per cycle, so it makes no difference which of
\* the others raise syn too.
SynLines == {{}, Enabled}

TrngNext ==
    \E syn \in SynLines, debug_update \in DebugUpdates,
       api \in ApiOps \cup MixerApiOps \cup TrngApiOps :
        /\ Delivers(syn)
        /\ TrngClock(syn, api, debug_update)
        /\ CarefulDiscards => HarmlessDiscard'

TrngSilentClock ==
    \E syn \in SynLines :
        /\ Delivers(syn)
        /\ TrngClock(syn, [op |-> "other"], FALSE)

\* The clock ticks, the cipher and the hash core finish their rounds, and the
\* live source, which holds a word until it is taken, delivers if the mixer
\* turns to it again and again.  The other source may be dead.
TrngFairness ==
    /\ WF_trngVars(TrngSilentClock)
    /\ WF_trngVars(TrngSilentClock /\ LastRound)
    /\ WF_trngVars(TrngSilentClock /\ sha512_ctrl_reg' = "CTRL_DONE")
    /\ SF_trngVars(TrngSilentClock /\ entropy_collect_ctrl_reg' = Ack(Live))

-----------------------------------------------------------------------------
(* Properties.                                                             *)

\* Every register stays within its range.
TrngTypeOK ==
    /\ CsprngTypeOK
    /\ MixerTypeOK
    /\ discard_reg \in BOOLEAN
    /\ debug_mux_reg \in DebugParts

\* Both seed blocks of the generator, wherever a reseeding, a disabling or a
\* waiting digest interrupted the seed handshake, are hashes of full blocks
\* collected since the last discard that no seed was taken from before.
SeedsAreFresh == {cipher_key_reg, cipher_block_reg} \subseteq {"fresh", NoSeed}

\* "This requires getting two seed blocks of 512 bits from the mixer": the
\* seed block that becomes the key was not handed out before.  (Not so after a
\* discard, see the run trng_discard.)
TwoSeedBlocks == csprng_ctrl_reg = "CTRL_INIT0" => cipher_key_reg # "used"

\* A seed request is never lost: while the generator waits for a seed, the
\* mixer collects, hashes or offers one, or the request has just been raised.
RequestIsHeard ==
    csprng_ctrl_reg \in {"CTRL_SEED0", "CTRL_SEED1"} =>
        more_seed_reg \/ mixer_ctrl_reg \in {"CTRL_COLLECT", "CTRL_MIX", "CTRL_SYN", "CTRL_ACK"}

\* The collector never works on its own account: words are collected only for
\* a block that the mixer waits for.
CollectorWorksForMixer ==
    entropy_collect_ctrl_reg # Idle => mixer_ctrl_reg = "CTRL_COLLECT"

\* The cipher counts its blocks from the counter that came with the seed: the
\* init strobe never meets a cipher that is still busy with an older block.
CounterOfThisSeed == fifo_cipher_data_valid(FALSE) => ctr_current

\* Random words keep coming as long as one source lives and the generator is
\* left alone: a dead source is given up after the timeout, round after round.
\* (Disabling the mixer may leave it waiting for a block nobody collects.)
RandomKeepsComing ==
    []mixer_enable_reg /\ <>[][csprng_ctrl_reg' # "CTRL_CANCEL"]_trngVars
        => []<>rnd_syn_reg
=============================================================================
