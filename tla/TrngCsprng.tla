----------------------------- MODULE TrngCsprng -----------------------------
(***************************************************************************)
(* The random generator, src/core/rng/trng/src/rtl/trng_csprng.v: a        *)
(* control FSM that fetches two seed blocks from the mixer, loads them     *)
(* into the cipher, and moves keystream blocks into the output FIFO until  *)
(* the block budget of the seed is spent.  It contains the cipher          *)
(* (ChachaCore) and the FIFO (TrngCsprngFifo); CsprngClock is one rising   *)
(* edge of clk of the three together.                                      *)
(*                                                                         *)
(* The parameters of CsprngClock are the ports: seed_syn and seed_data     *)
(* from the mixer, discard from the top level, api is the access on the    *)
(* register interface, and debug_update the strobe of the debug port.      *)
(***************************************************************************)
EXTENDS TrngCsprngFifo, ChachaCore

CONSTANTS
    CIPHER_MAX_BLOCKS,  \* hard limit on blocks per seed (2^32 in the code)
    NUM_BLOCKS_HALF,    \* values of num_blocks_low_reg (2^32 in the code)
    Seeds,              \* contents of a seed block
    NoSeed,             \* all zero: registers that hold no seed
    ApiOps,             \* accesses software makes, a subset of AllApiOps
    DebugUpdates        \* levels of the debug_update strobe, a subset of BOOLEAN

ASSUME CipherMaxAssumption == CIPHER_MAX_BLOCKS \in Nat \ {0}
ASSUME HalfAssumption == NUM_BLOCKS_HALF \in Nat \ {0}
ASSUME BlocksAssumption == 0 .. BLOCK_IDS - 1 \subseteq Blocks
ASSUME SeedsAssumption == NoSeed \notin Seeds  \* no digest is all zero
ASSUME DebugAssumption == DebugUpdates \subseteq BOOLEAN

VARIABLES
    csprng_ctrl_reg, enable_reg, seed_reg, more_seed_reg, seed_ack_reg,
    cipher_key_reg,     \* stands for cipher_key, cipher_iv and cipher_ctr
    cipher_block_reg, block_ctr_reg,
    num_rounds_reg, num_blocks_low_reg, num_blocks_high_reg,
    dropped             \* history: blocks strobed in vain since the last store

genVars == <<csprng_ctrl_reg, enable_reg, seed_reg, more_seed_reg, seed_ack_reg,
             cipher_key_reg, cipher_block_reg, block_ctr_reg, num_rounds_reg,
             num_blocks_low_reg, num_blocks_high_reg, dropped>>

csprngVars == <<fifoVars, chachaVars, genVars>>

\* Reads that acknowledge a word, and writes to the control registers.
\* Accesses to the other addresses change nothing.
AllApiOps ==
    [op : {"other", "rnd_data"}]
    \cup [op : {"ctrl"}, enable : BOOLEAN, seed : BOOLEAN]
    \cup [op : {"num_rounds"}, value : 0 .. 31]
    \cup [op : {"num_blocks_low", "num_blocks_high"}, value : 0 .. NUM_BLOCKS_HALF - 1]

ASSUME ApiOpsAssumption == \A a \in ApiOps : a \in AllApiOps

States == {"CTRL_IDLE", "CTRL_SEED0", "CTRL_NSYN", "CTRL_SEED1", "CTRL_INIT0",
           "CTRL_INIT1", "CTRL_NEXT0", "CTRL_NEXT1", "CTRL_MORE", "CTRL_CANCEL"}

CsprngInit(num_rounds, num_blocks_low, num_blocks_high) ==
    /\ FifoInit
    /\ ChachaInit
    /\ csprng_ctrl_reg = "CTRL_IDLE"
    /\ enable_reg = TRUE
    /\ seed_reg = FALSE
    /\ more_seed_reg = FALSE
    /\ seed_ack_reg = FALSE
    /\ cipher_key_reg = NoSeed
    /\ cipher_block_reg = NoSeed
    /\ block_ctr_reg = 0
    /\ num_rounds_reg = num_rounds
    /\ num_blocks_low_reg = num_blocks_low
    /\ num_blocks_high_reg = num_blocks_high
    /\ dropped = 0

-----------------------------------------------------------------------------
(* Combinational signals.                                                  *)

\* What makes the FSM drop everything; CTRL_IDLE does not look at seed_reg.
Cancels(discard) ==
    /\ csprng_ctrl_reg # "CTRL_CANCEL"
    /\ \/ ~enable_reg
       \/ discard
       \/ seed_reg /\ csprng_ctrl_reg # "CTRL_IDLE"

Runs(state, discard) == csprng_ctrl_reg = state /\ ~Cancels(discard)

cipher_init(discard) == Runs("CTRL_INIT0", discard)
cipher_next(discard) == Runs("CTRL_NEXT0", discard)

fifo_cipher_data_valid(discard) ==
    Runs("CTRL_NEXT1", discard) /\ ready_reg /\ data_out_valid_reg

fifo_discard == csprng_ctrl_reg = "CTRL_CANCEL"

num_blocks == num_blocks_high_reg * NUM_BLOCKS_HALF + num_blocks_low_reg

\* Mutant of block_ctr_max: the hard limit is forgotten.
block_ctr_max_soft == block_ctr_reg = num_blocks

\* The budget is compared for equality, not order.
block_ctr_max == block_ctr_reg \in {num_blocks, CIPHER_MAX_BLOCKS}

BlockCtr(discard) ==
    block_ctr_reg' = IF fifo_cipher_data_valid(discard) THEN block_ctr_reg + 1
                     ELSE IF cipher_init(discard) \/ fifo_discard THEN 0
                     ELSE block_ctr_reg

-----------------------------------------------------------------------------
(* csprng_ctrl_fsm.  Each action sets csprng_ctrl_reg, the strobes         *)
(* more_seed_reg and seed_ack_reg, and the seed registers.                 *)

GoTo(state, more_seed, seed_ack) ==
    /\ csprng_ctrl_reg' = state
    /\ more_seed_reg' = more_seed
    /\ seed_ack_reg' = seed_ack

CtrlCancelled(discard) ==
    /\ Cancels(discard)
    /\ GoTo("CTRL_CANCEL", FALSE, FALSE)
    /\ UNCHANGED <<cipher_key_reg, cipher_block_reg>>

\* Mutant of CtrlIdle: the seed is not asked for.
CtrlIdleMute(discard) ==
    /\ Runs("CTRL_IDLE", discard)
    /\ IF more_data_reg THEN GoTo("CTRL_SEED0", FALSE, FALSE)
                        ELSE GoTo("CTRL_IDLE", FALSE, FALSE)
    /\ UNCHANGED <<cipher_key_reg, cipher_block_reg>>

CtrlIdle(discard) ==
    /\ Runs("CTRL_IDLE", discard)
    /\ IF more_data_reg THEN GoTo("CTRL_SEED0", TRUE, FALSE)
                        ELSE GoTo("CTRL_IDLE", FALSE, FALSE)
    /\ UNCHANGED <<cipher_key_reg, cipher_block_reg>>

CtrlSeed0(seed_syn, seed_data, discard) ==
    /\ Runs("CTRL_SEED0", discard)
    /\ IF seed_syn
         THEN /\ cipher_block_reg' = seed_data
              /\ GoTo("CTRL_NSYN", FALSE, TRUE)
         ELSE /\ GoTo("CTRL_SEED0", FALSE, FALSE)
              /\ UNCHANGED cipher_block_reg
    /\ UNCHANGED cipher_key_reg

CtrlNsyn(discard) ==
    /\ Runs("CTRL_NSYN", discard)
    /\ GoTo("CTRL_SEED1", TRUE, FALSE)
    /\ UNCHANGED <<cipher_key_reg, cipher_block_reg>>

\* Unlike CTRL_SEED0, this state keeps more_seed up while it waits.
CtrlSeed1(seed_syn, seed_data, discard) ==
    /\ Runs("CTRL_SEED1", discard)
    /\ IF seed_syn
         THEN /\ cipher_key_reg' = seed_data
              /\ GoTo("CTRL_INIT0", FALSE, TRUE)
         ELSE /\ GoTo("CTRL_SEED1", TRUE, FALSE)
              /\ UNCHANGED cipher_key_reg
    /\ UNCHANGED cipher_block_reg

CtrlInit0(discard) ==
    /\ Runs("CTRL_INIT0", discard)
    /\ GoTo("CTRL_INIT1", FALSE, FALSE)
    /\ UNCHANGED <<cipher_key_reg, cipher_block_reg>>

\* Mutant of CtrlInit1: it does not wait for the cipher.
CtrlInit1Hasty(discard) ==
    /\ Runs("CTRL_INIT1", discard)
    /\ GoTo("CTRL_NEXT0", FALSE, FALSE)
    /\ UNCHANGED <<cipher_key_reg, cipher_block_reg>>

CtrlInit1(discard) ==
    /\ Runs("CTRL_INIT1", discard)
    /\ GoTo(IF ready_reg THEN "CTRL_NEXT0" ELSE "CTRL_INIT1", FALSE, FALSE)
    /\ UNCHANGED <<cipher_key_reg, cipher_block_reg>>

CtrlNext0(discard) ==
    /\ Runs("CTRL_NEXT0", discard)
    /\ GoTo("CTRL_NEXT1", FALSE, FALSE)
    /\ UNCHANGED <<cipher_key_reg, cipher_block_reg>>

\* The block is strobed into the FIFO whether or not the FIFO waits for it.
CtrlNext1(discard) ==
    /\ Runs("CTRL_NEXT1", discard)
    /\ GoTo(IF fifo_cipher_data_valid(discard) THEN "CTRL_MORE" ELSE "CTRL_NEXT1",
            FALSE, FALSE)
    /\ UNCHANGED <<cipher_key_reg, cipher_block_reg>>

\* Mutant of CtrlMore: more_data is not looked at.
CtrlMoreEager(discard) ==
    /\ Runs("CTRL_MORE", discard)
    /\ IF block_ctr_max THEN GoTo("CTRL_SEED0", TRUE, FALSE)
                        ELSE GoTo("CTRL_NEXT0", FALSE, FALSE)
    /\ UNCHANGED <<cipher_key_reg, cipher_block_reg>>

\* In the first cycle here more_data_reg still answers the block before.
CtrlMore(discard) ==
    /\ Runs("CTRL_MORE", discard)
    /\ IF ~more_data_reg THEN GoTo("CTRL_MORE", FALSE, FALSE)
       ELSE IF block_ctr_max THEN GoTo("CTRL_SEED0", TRUE, FALSE)
       ELSE GoTo("CTRL_NEXT0", FALSE, FALSE)
    /\ UNCHANGED <<cipher_key_reg, cipher_block_reg>>

\* Mutant of CtrlCancel: it lasts as long as the generator is disabled.
CtrlCancelLasting ==
    /\ csprng_ctrl_reg = "CTRL_CANCEL"
    /\ cipher_key_reg' = NoSeed
    /\ cipher_block_reg' = NoSeed
    /\ GoTo(IF enable_reg THEN "CTRL_IDLE" ELSE "CTRL_CANCEL", FALSE, FALSE)

CtrlCancel ==
    /\ csprng_ctrl_reg = "CTRL_CANCEL"
    /\ cipher_key_reg' = NoSeed
    /\ cipher_block_reg' = NoSeed
    /\ GoTo("CTRL_IDLE", FALSE, FALSE)

CsprngCtrl(seed_syn, seed_data, discard) ==
    \/ CtrlCancelled(discard)
    \/ CtrlIdle(discard)
    \/ CtrlSeed0(seed_syn, seed_data, discard)
    \/ CtrlNsyn(discard)
    \/ CtrlSeed1(seed_syn, seed_data, discard)
    \/ CtrlInit0(discard)
    \/ CtrlInit1(discard)
    \/ CtrlNext0(discard)
    \/ CtrlNext1(discard)
    \/ CtrlMore(discard)
    \/ CtrlCancel

-----------------------------------------------------------------------------
\* The register interface.  The seed bit is a strobe: it lasts one cycle.
CsprngApi(api) ==
    /\ enable_reg' = IF api.op = "ctrl" THEN api.enable ELSE enable_reg
    /\ seed_reg' = (api.op = "ctrl" /\ api.seed)
    /\ num_rounds_reg' = IF api.op = "num_rounds" THEN api.value ELSE num_rounds_reg
    /\ num_blocks_low_reg' =
         IF api.op = "num_blocks_low" THEN api.value ELSE num_blocks_low_reg
    /\ num_blocks_high_reg' =
         IF api.op = "num_blocks_high" THEN api.value ELSE num_blocks_high_reg

\* Reading the data register acknowledges the word, and so does the debug port.
muxed_rnd_ack(api, debug_update) == api.op = "rnd_data" \/ debug_update

\* New contents reach the key port of the cipher.
KeyChanges(seed_syn, discard) ==
    fifo_discard \/ (Runs("CTRL_SEED1", discard) /\ seed_syn)

\* History: counted up to two, which is already one too many.
Dropped(discard) ==
    dropped' = IF ~fifo_cipher_data_valid(discard) THEN dropped
               ELSE IF Stores(TRUE) THEN 0
               ELSE IF dropped = 2 THEN 2
               ELSE dropped + 1

CsprngClock(seed_syn, seed_data, discard, api, debug_update) ==
    /\ CsprngCtrl(seed_syn, seed_data, discard)
    /\ BlockCtr(discard)
    /\ CsprngApi(api)
    /\ ChachaClock(cipher_init(discard), cipher_next(discard), num_rounds_reg,
                   KeyChanges(seed_syn, discard))
    /\ FifoClock(data_out, fifo_cipher_data_valid(discard), fifo_discard,
                 muxed_rnd_ack(api, debug_update))
    /\ Dropped(discard)

\* The generator on its own: seeds come when they come, software does what it
\* likes, a discard may be written at any time.
CsprngNext ==
    \E seed_syn, discard \in BOOLEAN, seed_data \in Seeds,
       api \in ApiOps, debug_update \in DebugUpdates :
        CsprngClock(seed_syn, seed_data, discard, api, debug_update)

\* A cycle in which nobody uses the register interface.  Every bus access
\* takes several cycles, so there are always more of these to come.
SilentClock ==
    \E seed_syn \in BOOLEAN, seed_data \in Seeds :
        CsprngClock(seed_syn, seed_data, FALSE, [op |-> "other"], FALSE)

TakesSeed == csprng_ctrl_reg' \in {"CTRL_NSYN", "CTRL_INIT0"}
LastRound == chacha_ctrl_reg' = "CTRL_FINALIZE"

\* The clock ticks; a seed that is waited for arrives in the end; and a cipher
\* that has rounds to do finishes them, for its round counter counts up.
CsprngFairness ==
    /\ WF_csprngVars(SilentClock)
    /\ WF_csprngVars(SilentClock /\ LastRound)
    /\ SF_csprngVars(SilentClock /\ TakesSeed)

-----------------------------------------------------------------------------
(* Properties.                                                             *)

\* Every register of the generator stays within its range; FifoTypeOK and
\* ChachaTypeOK say the same of its parts.
CsprngTypeOK ==
    /\ FifoTypeOK
    /\ ChachaTypeOK
    /\ csprng_ctrl_reg \in States
    /\ {enable_reg, seed_reg, more_seed_reg, seed_ack_reg} \subseteq BOOLEAN
    /\ {cipher_key_reg, cipher_block_reg} \subseteq Seeds \cup {NoSeed}
    /\ block_ctr_reg \in Nat
    /\ num_rounds_reg \in 0 .. 31
    /\ {num_blocks_low_reg, num_blocks_high_reg} \subseteq 0 .. NUM_BLOCKS_HALF - 1
    /\ dropped \in 0 .. 2

\* Whatever cancels, restarts and late cipher results do, a block that enters
\* the FIFO was computed from the key the generator holds now, and that key
\* and the input block come from the mixer (CTRL_NEXT1 trusts ready and
\* data_out_valid, which say nothing of the key).  The block counter is left
\* to CounterOfThisSeed.
KeystreamOfThisSeed ==
    fifo_cipher_data_valid(FALSE) =>
        /\ state_current
        /\ cipher_key_reg # NoSeed
        /\ cipher_block_reg # NoSeed

\* No seed gives more than CIPHER_MAX_BLOCKS blocks, whenever the two halves
\* of the application's limit are rewritten (block_ctr_max tests equality, so
\* a counter that slipped past its limits would never meet them again).
HardBlockLimit == block_ctr_reg <= CIPHER_MAX_BLOCKS

\* The generator looks at more_data one cycle too early and may compute a
\* block that the full FIFO ignores, but never two in a row.
OneBlockLostAtMost == dropped <= 1

\* While the generator is left enabled and is not told to reseed or discard,
\* words keep being offered to the readers.
WordsKeepComing ==
    <>[][csprng_ctrl_reg' # "CTRL_CANCEL"]_csprngVars => []<>rnd_syn_reg
=============================================================================
