---------------------------- MODULE ChachaCore -----------------------------
(***************************************************************************)
(* The control FSM of the stream cipher the random generator runs on,      *)
(* src/core/cipher/chacha/src/rtl/chacha_core.v.  What it computes is      *)
(* abstracted to the number of the block in data_out and to whether the    *)
(* key and the block counter it was computed from are the ones its ports   *)
(* carry now.  CTRL_ROUNDS0 to CTRL_ROUNDS3 are one state, CTRL_ROUNDS,    *)
(* that lasts any number of cycles.                                        *)
(***************************************************************************)
EXTENDS Naturals

CONSTANT BLOCK_IDS      \* blocks are numbered modulo BLOCK_IDS

ASSUME BlockIdsAssumption == BLOCK_IDS \in Nat \ {0}

VARIABLES
    chacha_ctrl_reg, ready_reg, data_out_valid_reg,
    data_out,       \* number of the block in data_out_reg
    state_current,  \* state_reg was initialised from the key on the port
    ctr_current     \* block0/1_ctr_reg were loaded with the key on the port

chachaVars == <<chacha_ctrl_reg, ready_reg, data_out_valid_reg,
                data_out, state_current, ctr_current>>

ChachaInit ==
    /\ chacha_ctrl_reg = "CTRL_IDLE"
    /\ ready_reg = TRUE
    /\ data_out_valid_reg = FALSE
    /\ data_out = 0
    /\ state_current = FALSE
    /\ ctr_current = FALSE

ChachaTypeOK ==
    /\ chacha_ctrl_reg \in {"CTRL_IDLE", "CTRL_INIT", "CTRL_ROUNDS",
                            "CTRL_FINALIZE", "CTRL_DONE"}
    /\ ready_reg \in BOOLEAN
    /\ data_out_valid_reg \in BOOLEAN
    /\ data_out \in 0 .. BLOCK_IDS - 1
    /\ state_current \in BOOLEAN
    /\ ctr_current \in BOOLEAN

-----------------------------------------------------------------------------
\* Mutant of StartsInit: init is only heard before the first block.
StartsInitOnce(init) == chacha_ctrl_reg = "CTRL_IDLE" /\ init

\* init and next are only heard where a computation can start; anywhere else
\* the one-cycle strobe is lost.
StartsInit(init) == chacha_ctrl_reg \in {"CTRL_IDLE", "CTRL_DONE"} /\ init
StartsNext(init, next) == chacha_ctrl_reg = "CTRL_DONE" /\ ~init /\ next

ChachaStart(init, next) ==
    /\ StartsInit(init) \/ StartsNext(init, next)
    /\ ready_reg' = FALSE
    /\ data_out_valid_reg' = FALSE
    /\ chacha_ctrl_reg' = "CTRL_INIT"
    /\ UNCHANGED data_out

ChachaWait(init, next) ==
    /\ chacha_ctrl_reg \in {"CTRL_IDLE", "CTRL_DONE"}
    /\ ~(StartsInit(init) \/ StartsNext(init, next))
    /\ UNCHANGED <<chacha_ctrl_reg, ready_reg, data_out_valid_reg, data_out>>

ChachaLoad ==
    /\ chacha_ctrl_reg = "CTRL_INIT"
    /\ chacha_ctrl_reg' = "CTRL_ROUNDS"
    /\ UNCHANGED <<ready_reg, data_out_valid_reg, data_out>>

ChachaRound ==
    /\ chacha_ctrl_reg = "CTRL_ROUNDS"
    /\ UNCHANGED <<chacha_ctrl_reg, ready_reg, data_out_valid_reg, data_out>>

\* The double round counter is compared with rounds / 2 - 1, which it never
\* reaches when rounds / 2 is zero.
ChachaLastRound(rounds) ==
    /\ chacha_ctrl_reg = "CTRL_ROUNDS"
    /\ rounds \div 2 > 0
    /\ chacha_ctrl_reg' = "CTRL_FINALIZE"
    /\ UNCHANGED <<ready_reg, data_out_valid_reg, data_out>>

\* Mutant of ChachaFinalize: ready is not raised again.
ChachaFinalizeBusy ==
    /\ chacha_ctrl_reg = "CTRL_FINALIZE"
    /\ data_out_valid_reg' = TRUE
    /\ data_out' = (data_out + 1) % BLOCK_IDS
    /\ chacha_ctrl_reg' = "CTRL_DONE"
    /\ UNCHANGED ready_reg

ChachaFinalize ==
    /\ chacha_ctrl_reg = "CTRL_FINALIZE"
    /\ ready_reg' = TRUE
    /\ data_out_valid_reg' = TRUE
    /\ data_out' = (data_out + 1) % BLOCK_IDS
    /\ chacha_ctrl_reg' = "CTRL_DONE"

\* What the state matrix and the counter were loaded from, given that the
\* key ports change at this edge iff newKey.
Provenance(init, newKey) ==
    /\ state_current' = (~newKey /\ (chacha_ctrl_reg = "CTRL_INIT" \/ state_current))
    /\ ctr_current' = (~newKey /\ (StartsInit(init) \/ ctr_current))

ChachaClock(init, next, rounds, newKey) ==
    /\ \/ ChachaStart(init, next)
       \/ ChachaWait(init, next)
       \/ ChachaLoad
       \/ ChachaRound
       \/ ChachaLastRound(rounds)
       \/ ChachaFinalize
    /\ Provenance(init, newKey)
=============================================================================
