----------------------------- MODULE TrngMixer ------------------------------
(***************************************************************************)
(* The entropy mixer, src/core/rng/trng/src/rtl/trng_mixer.v.  The FSM     *)
(* entropy_collect_ctrl takes words from the entropy sources in turn until *)
(* a block is full; the FSM mixer_ctrl starts it on demand (more_seed),    *)
(* has the block hashed and offers the digest as a seed (seed_syn) until   *)
(* it is taken (seed_ack).  The hash core, src/core/hash/sha512, is in     *)
(* here too, with its rounds abstracted to a state of any length.          *)
(*                                                                         *)
(* The digest is abstracted to what its user needs to know of it:          *)
(*   "none"   the initial hash value, no entropy in it                     *)
(*   "fresh"  the hash of a full block collected since the last discard    *)
(*   "stale"  the same, but some of the block is older than that           *)
(*   "used"   a seed was taken from it                                     *)
(***************************************************************************)
EXTENDS Naturals

CONSTANTS
    MIXER_WORDS,        \* words in a block (32 in the code)
    TIMEOUT_CTR_SIZE,   \* values of entropy_timeout_ctr_reg (2^24 in the code)
    MixerApiOps         \* accesses to the mixer's registers

ASSUME MixerWordsAssumption == MIXER_WORDS \in Nat \ {0}
ASSUME TimeoutSizeAssumption == TIMEOUT_CTR_SIZE \in Nat \ {0}
ASSUME MixerApiOpsAssumption ==
    MixerApiOps \subseteq [op : {"mixer_ctrl"}, enable : BOOLEAN]
                    \cup [op : {"mixer_timeout"}, value : 0 .. TIMEOUT_CTR_SIZE - 1]

VARIABLES
    entropy_collect_ctrl_reg, word_ctr_reg,
    entropy_timeout_reg, entropy_timeout_ctr_reg,
    mixer_ctrl_reg, seed_syn_reg, init_done_reg, mixer_enable_reg,
    sha512_ctrl_reg,
    digest,         \* what the hash value registers hold
    block_stale,    \* history: a discard came since the collection began
    hash_stale      \* history: the same of the block being hashed, or a
                    \* discard came since the hash began

mixerVars == <<entropy_collect_ctrl_reg, word_ctr_reg, entropy_timeout_reg,
               entropy_timeout_ctr_reg, mixer_ctrl_reg, seed_syn_reg,
               init_done_reg, mixer_enable_reg, sha512_ctrl_reg, digest,
               block_stale, hash_stale>>

Sources == 0 .. 2
Wait(s) == <<"ENTROPY_SRC", s>>         \* ENTROPY_SRC0, _SRC1, _SRC2
Ack(s)  == <<"ENTROPY_SRC_ACK", s>>     \* ENTROPY_SRC0_ACK, ...
Idle    == <<"ENTROPY_IDLE">>
NextSource(s) == (s + 1) % 3

MixerInit(timeout) ==
    /\ entropy_collect_ctrl_reg = Idle
    /\ word_ctr_reg = 0
    /\ entropy_timeout_reg = timeout
    /\ entropy_timeout_ctr_reg = 0
    /\ mixer_ctrl_reg = "CTRL_IDLE"
    /\ seed_syn_reg = FALSE
    /\ init_done_reg = FALSE
    /\ mixer_enable_reg = TRUE
    /\ sha512_ctrl_reg = "CTRL_IDLE"
    /\ digest = "none"
    /\ block_stale = FALSE
    /\ hash_stale = FALSE

-----------------------------------------------------------------------------
(* Signals.                                                                *)

collect_block(more_seed, discard) ==
    /\ more_seed
    /\ \/ mixer_ctrl_reg = "CTRL_IDLE"
       \/ mixer_ctrl_reg = "CTRL_NEXT" /\ ~discard

\* Mutant of block_done: one word too many.
block_done_late ==
    /\ entropy_collect_ctrl_reg \in {Ack(s) : s \in Sources}
    /\ mixer_enable_reg
    /\ word_ctr_reg = MIXER_WORDS

block_done ==
    /\ entropy_collect_ctrl_reg \in {Ack(s) : s \in Sources}
    /\ mixer_enable_reg
    /\ word_ctr_reg = MIXER_WORDS - 1

entropy_timeout == entropy_timeout_ctr_reg = entropy_timeout_reg

Mixing(discard) == mixer_ctrl_reg = "CTRL_MIX" /\ ~discard
hash_ready == sha512_ctrl_reg = "CTRL_IDLE"
StartsHash(discard) == hash_ready /\ Mixing(discard)

-----------------------------------------------------------------------------
(* entropy_collect_ctrl and the counters it drives.  Each action sets      *)
(* entropy_collect_ctrl_reg, word_ctr_reg and entropy_timeout_ctr_reg.     *)

\* The timeout counter also restarts by itself when it reaches its limit.
TimeoutCtrRuns ==
    entropy_timeout_ctr_reg' = IF entropy_timeout THEN 0 ELSE entropy_timeout_ctr_reg

EntropyIdle(more_seed, discard) ==
    /\ entropy_collect_ctrl_reg = Idle
    /\ IF collect_block(more_seed, discard)
         THEN /\ entropy_collect_ctrl_reg' = Wait(0)
              /\ word_ctr_reg' = 0
              /\ entropy_timeout_ctr_reg' = 0
         ELSE /\ TimeoutCtrRuns
              /\ UNCHANGED <<entropy_collect_ctrl_reg, word_ctr_reg>>

\* The collection stops when the mixer is disabled.
EntropyStop ==
    /\ entropy_collect_ctrl_reg # Idle
    /\ ~mixer_enable_reg
    /\ entropy_collect_ctrl_reg' = Idle
    /\ word_ctr_reg' = 0
    /\ TimeoutCtrRuns

\* The word goes into the block.  The timeout counter is not restarted.
EntropyWord(s, enabled, syn) ==
    /\ entropy_collect_ctrl_reg = Wait(s)
    /\ mixer_enable_reg /\ s \in enabled /\ s \in syn
    /\ entropy_collect_ctrl_reg' = Ack(s)
    /\ TimeoutCtrRuns
    /\ UNCHANGED word_ctr_reg

\* Mutant of EntropyGivesUp: the timeout restarts the wait for the same source.
EntropyTriesAgain(s, enabled, syn) ==
    /\ entropy_collect_ctrl_reg = Wait(s)
    /\ mixer_enable_reg /\ s \in enabled /\ s \notin syn
    /\ entropy_timeout
    /\ entropy_timeout_ctr_reg' = 0
    /\ UNCHANGED <<entropy_collect_ctrl_reg, word_ctr_reg>>

EntropyGivesUp(s, enabled, syn) ==
    /\ entropy_collect_ctrl_reg = Wait(s)
    /\ mixer_enable_reg /\ s \in enabled /\ s \notin syn
    /\ entropy_timeout
    /\ entropy_collect_ctrl_reg' = Wait(NextSource(s))
    /\ entropy_timeout_ctr_reg' = 0
    /\ UNCHANGED word_ctr_reg

EntropyWaits(s, enabled, syn) ==
    /\ entropy_collect_ctrl_reg = Wait(s)
    /\ mixer_enable_reg /\ s \in enabled /\ s \notin syn
    /\ ~entropy_timeout
    /\ entropy_timeout_ctr_reg' = (entropy_timeout_ctr_reg + 1) % TIMEOUT_CTR_SIZE
    /\ UNCHANGED <<entropy_collect_ctrl_reg, word_ctr_reg>>

\* Skipping source 0 restarts the timeout counter, skipping the others does not.
EntropySkips(s, enabled) ==
    /\ entropy_collect_ctrl_reg = Wait(s)
    /\ mixer_enable_reg /\ s \notin enabled
    /\ entropy_collect_ctrl_reg' = Wait(NextSource(s))
    /\ IF s = 0 THEN entropy_timeout_ctr_reg' = 0 ELSE TimeoutCtrRuns
    /\ UNCHANGED word_ctr_reg

\* Mutant of EntropyAck: the collection goes on when the block is full.
EntropyAckEndless(s) ==
    /\ entropy_collect_ctrl_reg = Ack(s)
    /\ mixer_enable_reg
    /\ entropy_collect_ctrl_reg' = Wait(NextSource(s))
    /\ word_ctr_reg' = (word_ctr_reg + 1) % MIXER_WORDS
    /\ TimeoutCtrRuns

EntropyAck(s) ==
    /\ entropy_collect_ctrl_reg = Ack(s)
    /\ mixer_enable_reg
    /\ IF block_done
         THEN /\ entropy_collect_ctrl_reg' = Idle
              /\ UNCHANGED word_ctr_reg
         ELSE /\ entropy_collect_ctrl_reg' = Wait(NextSource(s))
              /\ word_ctr_reg' = word_ctr_reg + 1
    /\ TimeoutCtrRuns

EntropyCollect(more_seed, discard, enabled, syn) ==
    \/ EntropyIdle(more_seed, discard)
    \/ EntropyStop
    \/ \E s \in Sources :
         \/ EntropyWord(s, enabled, syn)
         \/ EntropyGivesUp(s, enabled, syn)
         \/ EntropyWaits(s, enabled, syn)
         \/ EntropySkips(s, enabled)
         \/ EntropyAck(s)

-----------------------------------------------------------------------------
(* mixer_ctrl.  Each action sets mixer_ctrl_reg, seed_syn_reg and          *)
(* init_done_reg.                                                          *)

\* CTRL_IDLE does not look at discard.
MixerIdle(more_seed) ==
    /\ mixer_ctrl_reg = "CTRL_IDLE"
    /\ IF more_seed
         THEN /\ mixer_ctrl_reg' = "CTRL_COLLECT"
              /\ init_done_reg' = FALSE
         ELSE UNCHANGED <<mixer_ctrl_reg, init_done_reg>>
    /\ UNCHANGED seed_syn_reg

\* seed_syn_reg keeps its value, also when the discard comes in CTRL_ACK.
MixerDiscard(discard) ==
    /\ mixer_ctrl_reg # "CTRL_IDLE"
    /\ discard
    /\ mixer_ctrl_reg' = "CTRL_IDLE"
    /\ UNCHANGED <<seed_syn_reg, init_done_reg>>

MixerCollect(discard) ==
    /\ mixer_ctrl_reg = "CTRL_COLLECT"
    /\ ~discard
    /\ mixer_ctrl_reg' = IF block_done THEN "CTRL_MIX" ELSE "CTRL_COLLECT"
    /\ UNCHANGED <<seed_syn_reg, init_done_reg>>

MixerMix(discard) ==
    /\ Mixing(discard)
    /\ mixer_ctrl_reg' = "CTRL_SYN"
    /\ UNCHANGED <<seed_syn_reg, init_done_reg>>

MixerSyn(discard) ==
    /\ mixer_ctrl_reg = "CTRL_SYN"
    /\ ~discard
    /\ IF hash_ready
         THEN /\ seed_syn_reg' = TRUE
              /\ mixer_ctrl_reg' = "CTRL_ACK"
         ELSE UNCHANGED <<seed_syn_reg, mixer_ctrl_reg>>
    /\ UNCHANGED init_done_reg

\* Mutant of MixerAck: the seed stays on offer after it was taken.
MixerAckKeepsSyn(seed_ack, discard) ==
    /\ mixer_ctrl_reg = "CTRL_ACK"
    /\ ~discard
    /\ mixer_ctrl_reg' = IF seed_ack THEN "CTRL_NEXT" ELSE "CTRL_ACK"
    /\ UNCHANGED <<seed_syn_reg, init_done_reg>>

MixerAck(seed_ack, discard) ==
    /\ mixer_ctrl_reg = "CTRL_ACK"
    /\ ~discard
    /\ IF seed_ack
         THEN /\ seed_syn_reg' = FALSE
              /\ mixer_ctrl_reg' = "CTRL_NEXT"
         ELSE UNCHANGED <<seed_syn_reg, mixer_ctrl_reg>>
    /\ UNCHANGED init_done_reg

\* From the second block on, the hash is chained to the one before.
MixerNext(more_seed, discard) ==
    /\ mixer_ctrl_reg = "CTRL_NEXT"
    /\ ~discard
    /\ IF more_seed
         THEN /\ mixer_ctrl_reg' = "CTRL_COLLECT"
              /\ init_done_reg' = TRUE
         ELSE UNCHANGED <<mixer_ctrl_reg, init_done_reg>>
    /\ UNCHANGED seed_syn_reg

MixerCtrl(more_seed, seed_ack, discard) ==
    \/ MixerIdle(more_seed)
    \/ MixerDiscard(discard)
    \/ MixerCollect(discard)
    \/ MixerMix(discard)
    \/ MixerSyn(discard)
    \/ MixerAck(seed_ack, discard)
    \/ MixerNext(more_seed, discard)

-----------------------------------------------------------------------------
(* The hash core.  Each action sets sha512_ctrl_reg and digest; taken says *)
(* that the user of the seed latches the digest at this edge.              *)

DigestAfter(taken, discard) ==
    IF taken THEN "used"
    ELSE IF digest = "fresh" /\ discard THEN "stale"
    ELSE digest

\* hash_init (init_done_reg is low) resets the hash value, hash_next does not.
HashStart(taken, discard) ==
    /\ StartsHash(discard)
    /\ sha512_ctrl_reg' = "CTRL_ROUNDS"
    /\ digest' = IF init_done_reg THEN DigestAfter(taken, discard) ELSE "none"

HashRounds(taken, discard) ==
    /\ sha512_ctrl_reg = "CTRL_ROUNDS"
    /\ sha512_ctrl_reg' \in {"CTRL_ROUNDS", "CTRL_DONE"}
    /\ digest' = DigestAfter(taken, discard)

HashDone(discard) ==
    /\ sha512_ctrl_reg = "CTRL_DONE"
    /\ sha512_ctrl_reg' = "CTRL_IDLE"
    /\ digest' = IF hash_stale \/ discard THEN "stale" ELSE "fresh"

HashIdle(taken, discard) ==
    /\ hash_ready
    /\ ~StartsHash(discard)
    /\ digest' = DigestAfter(taken, discard)
    /\ UNCHANGED sha512_ctrl_reg

HashClock(taken, discard) ==
    \/ HashStart(taken, discard)
    \/ HashRounds(taken, discard)
    \/ HashDone(discard)
    \/ HashIdle(taken, discard)

\* History: how old the entropy is.
Staleness(more_seed, discard) ==
    /\ block_stale' = IF entropy_collect_ctrl_reg = Idle /\ collect_block(more_seed, discard)
                      THEN FALSE
                      ELSE block_stale \/ discard
    /\ hash_stale' = (discard \/ (IF StartsHash(discard) THEN block_stale ELSE hash_stale))

MixerApi(api) ==
    /\ mixer_enable_reg' = IF api.op = "mixer_ctrl" THEN api.enable ELSE mixer_enable_reg
    /\ entropy_timeout_reg' =
         IF api.op = "mixer_timeout" THEN api.value ELSE entropy_timeout_reg

\* One rising edge of clk.  enabled and syn are the sources whose enabled and
\* syn lines are high.
MixerClock(more_seed, seed_ack, discard, enabled, syn, api, taken) ==
    /\ EntropyCollect(more_seed, discard, enabled, syn)
    /\ MixerCtrl(more_seed, seed_ack, discard)
    /\ HashClock(taken, discard)
    /\ Staleness(more_seed, discard)
    /\ MixerApi(api)

\* Every register of the mixer stays within its range.
MixerTypeOK ==
    /\ entropy_collect_ctrl_reg \in
         {Idle} \cup {Wait(s) : s \in Sources} \cup {Ack(s) : s \in Sources}
    /\ word_ctr_reg \in 0 .. MIXER_WORDS - 1
    /\ {entropy_timeout_reg, entropy_timeout_ctr_reg} \subseteq 0 .. TIMEOUT_CTR_SIZE - 1
    /\ mixer_ctrl_reg \in {"CTRL_IDLE", "CTRL_COLLECT", "CTRL_MIX",
                           "CTRL_SYN", "CTRL_ACK", "CTRL_NEXT"}
    /\ {seed_syn_reg, init_done_reg, mixer_enable_reg, block_stale, hash_stale}
         \subseteq BOOLEAN
    /\ sha512_ctrl_reg \in {"CTRL_IDLE", "CTRL_ROUNDS", "CTRL_DONE"}
    /\ digest \in {"none", "fresh", "used", "stale"}
=============================================================================
