------------------------- MODULE TrngCsprngProofs --------------------------
(***************************************************************************)
(* The generator with its cipher and its FIFO, proved for every budget,    *)
(* every block length and every size of the FIFO, whatever software        *)
(* writes and whenever the mixer answers.                                  *)
(*                                                                         *)
(* The budget of a seed.  block_ctr_max tests for equality, so             *)
(* HardBlockLimit alone is not inductive: it must also be known that a     *)
(* block is only under way while the counter is below the limit.           *)
(* CTRL_MORE makes sure of it for every block but the first, and the reset *)
(* in CTRL_INIT0 for that one.                                             *)
(*                                                                         *)
(* The keystream, the losses and the FIFO.  GenInv says, for each state of *)
(* the control FSM, what the cipher and the write FSM of the FIFO are      *)
(* doing then: the four FSMs run on one clock and trust each other without *)
(* an acknowledgement.                                                     *)
(***************************************************************************)
EXTENDS TrngCsprng, TrngCsprngFifoProofs

BudgetInv ==
    /\ block_ctr_reg \in Nat
    /\ HardBlockLimit
    /\ csprng_ctrl_reg = "CTRL_INIT1" => block_ctr_reg = 0
    /\ csprng_ctrl_reg \in {"CTRL_NEXT0", "CTRL_NEXT1"} =>
         block_ctr_reg < CIPHER_MAX_BLOCKS

\* The generator leaves reset with nothing counted.
LEMMA BudgetInit ==
    ASSUME NEW num_rounds, NEW num_blocks_low, NEW num_blocks_high,
           CsprngInit(num_rounds, num_blocks_low, num_blocks_high)
    PROVE  BudgetInv
BY CipherMaxAssumption DEF CsprngInit, BudgetInv, HardBlockLimit

\* The counter goes up only with a block strobed in CTRL_NEXT1, and CTRL_INIT0
\* clears it.
LEMMA BlockCtrStep ==
    ASSUME BudgetInv, NEW discard \in BOOLEAN, BlockCtr(discard)
    PROVE  /\ block_ctr_reg' \in 0 .. CIPHER_MAX_BLOCKS
           /\ Runs("CTRL_INIT0", discard) => block_ctr_reg' = 0
           /\ \/ Runs("CTRL_NEXT1", discard)
              \/ block_ctr_reg' = 0
              \/ block_ctr_reg' = block_ctr_reg
<1>1. block_ctr_reg \in 0 .. CIPHER_MAX_BLOCKS /\ CIPHER_MAX_BLOCKS \in Nat \ {0}
  BY CipherMaxAssumption DEF BudgetInv, HardBlockLimit
<1>2. fifo_cipher_data_valid(discard) =>
        /\ Runs("CTRL_NEXT1", discard)
        /\ ~Runs("CTRL_INIT0", discard)
        /\ block_ctr_reg < CIPHER_MAX_BLOCKS
  BY DEF fifo_cipher_data_valid, Runs, BudgetInv
<1>3. CASE fifo_cipher_data_valid(discard)
  <2>1. block_ctr_reg' = block_ctr_reg + 1
    BY <1>3 DEF BlockCtr
  <2>. QED  BY <1>1, <1>2, <1>3, <2>1
<1>4. CASE ~fifo_cipher_data_valid(discard)
  <2>1. CASE cipher_init(discard) \/ fifo_discard
    <3>1. block_ctr_reg' = 0
      BY <1>4, <2>1 DEF BlockCtr
    <3>. QED  BY <1>1, <3>1
  <2>2. CASE ~(cipher_init(discard) \/ fifo_discard)
    <3>1. block_ctr_reg' = block_ctr_reg
      BY <1>4, <2>2 DEF BlockCtr
    <3>2. ~Runs("CTRL_INIT0", discard)
      BY <2>2 DEF cipher_init
    <3>. QED  BY <1>1, <3>1, <3>2
  <2>. QED  BY <2>1, <2>2
<1>. QED  BY <1>3, <1>4

\* Every step of the control FSM keeps the invariant.
LEMMA BudgetStep ==
    ASSUME BudgetInv, NEW seed_syn \in BOOLEAN, NEW seed_data,
           NEW discard \in BOOLEAN, CsprngCtrl(seed_syn, seed_data, discard),
           BlockCtr(discard)
    PROVE  BudgetInv'
<1>1. /\ block_ctr_reg' \in 0 .. CIPHER_MAX_BLOCKS
      /\ Runs("CTRL_INIT0", discard) => block_ctr_reg' = 0
      /\ \/ Runs("CTRL_NEXT1", discard)
         \/ block_ctr_reg' = 0
         \/ block_ctr_reg' = block_ctr_reg
  BY BlockCtrStep
<1>2. CIPHER_MAX_BLOCKS \in Nat \ {0}
  BY CipherMaxAssumption
<1>3. ASSUME csprng_ctrl_reg' \notin {"CTRL_INIT1", "CTRL_NEXT0", "CTRL_NEXT1"}
      PROVE  BudgetInv'
  BY <1>1, <1>2, <1>3 DEF BudgetInv, HardBlockLimit
<1>4. CASE CtrlCancelled(discard)
  BY <1>3, <1>4 DEF CtrlCancelled, GoTo
<1>5. CASE CtrlIdle(discard)
  BY <1>3, <1>5 DEF CtrlIdle, GoTo
<1>6. CASE CtrlSeed0(seed_syn, seed_data, discard)
  BY <1>3, <1>6 DEF CtrlSeed0, GoTo
<1>7. CASE CtrlNsyn(discard)
  BY <1>3, <1>7 DEF CtrlNsyn, GoTo
<1>8. CASE CtrlSeed1(seed_syn, seed_data, discard)
  BY <1>3, <1>8 DEF CtrlSeed1, GoTo
<1>9. CASE CtrlInit0(discard)
  <2>1. csprng_ctrl_reg' = "CTRL_INIT1" /\ block_ctr_reg' = 0
    BY <1>1, <1>9 DEF CtrlInit0, GoTo
  <2>. QED  BY <1>2, <2>1 DEF BudgetInv, HardBlockLimit
<1>10. CASE CtrlInit1(discard)
  <2>1. csprng_ctrl_reg' \in {"CTRL_INIT1", "CTRL_NEXT0"}
    BY <1>10 DEF CtrlInit1, GoTo
  <2>2. block_ctr_reg' = 0
    BY <1>1, <1>10 DEF CtrlInit1, Runs, BudgetInv
  <2>. QED  BY <1>2, <2>1, <2>2 DEF BudgetInv, HardBlockLimit
<1>11. CASE CtrlNext0(discard)
  <2>1. csprng_ctrl_reg' = "CTRL_NEXT1"
    BY <1>11 DEF CtrlNext0, GoTo
  <2>2. block_ctr_reg' < CIPHER_MAX_BLOCKS
    BY <1>1, <1>2, <1>11 DEF CtrlNext0, Runs, BudgetInv
  <2>. QED  BY <1>1, <1>2, <2>1, <2>2 DEF BudgetInv, HardBlockLimit
<1>12. CASE CtrlNext1(discard)
  <2>1. CASE fifo_cipher_data_valid(discard)
    BY <1>3, <1>12, <2>1 DEF CtrlNext1, GoTo
  <2>2. CASE ~fifo_cipher_data_valid(discard)
    <3>1. csprng_ctrl_reg' = "CTRL_NEXT1"
      BY <1>12, <2>2 DEF CtrlNext1, GoTo
    <3>2. block_ctr_reg < CIPHER_MAX_BLOCKS
      BY <1>12 DEF CtrlNext1, Runs, BudgetInv
    <3>3. block_ctr_reg' \in {0, block_ctr_reg}
      BY <2>2 DEF BlockCtr
    <3>4. block_ctr_reg' < CIPHER_MAX_BLOCKS
      BY <1>2, <3>2, <3>3
    <3>. QED  BY <1>1, <1>2, <3>1, <3>4 DEF BudgetInv, HardBlockLimit
  <2>. QED  BY <2>1, <2>2
<1>13. CASE CtrlMore(discard)
  <2>1. csprng_ctrl_reg' \in {"CTRL_MORE", "CTRL_SEED0", "CTRL_NEXT0"}
    BY <1>13 DEF CtrlMore, GoTo
  <2>2. ASSUME csprng_ctrl_reg' = "CTRL_NEXT0"
        PROVE  block_ctr_reg' < CIPHER_MAX_BLOCKS
    <3>1. block_ctr_reg # CIPHER_MAX_BLOCKS
      BY <1>13, <2>2 DEF CtrlMore, GoTo, block_ctr_max
    <3>2. block_ctr_reg < CIPHER_MAX_BLOCKS
      BY <1>2, <3>1 DEF BudgetInv, HardBlockLimit
    <3>3. ~Runs("CTRL_NEXT1", discard)
      BY <1>13 DEF CtrlMore, Runs
    <3>. QED  BY <1>1, <1>2, <3>2, <3>3
  <2>. QED  BY <1>1, <1>2, <2>1, <2>2 DEF BudgetInv, HardBlockLimit
<1>14. CASE CtrlCancel
  BY <1>3, <1>14 DEF CtrlCancel, GoTo
<1>. QED
  BY <1>4, <1>5, <1>6, <1>7, <1>8, <1>9, <1>10, <1>11, <1>12, <1>13, <1>14
     DEF CsprngCtrl

\* One step of the generator keeps it, and so does a cycle in which nothing
\* changes.
LEMMA BudgetNext ==
    ASSUME BudgetInv, [CsprngNext]_csprngVars
    PROVE  BudgetInv'
<1>1. CASE CsprngNext
  BY <1>1, BudgetStep DEF CsprngNext, CsprngClock
<1>2. CASE UNCHANGED csprngVars
  BY <1>2 DEF csprngVars, genVars, BudgetInv, HardBlockLimit
<1>. QED  BY <1>1, <1>2

\* No seed of trng_csprng.v is used for more than CIPHER_MAX_BLOCKS blocks,
\* whatever the cipher, the FIFO, the mixer and the application do.
THEOREM BudgetKept ==
    ASSUME NEW num_rounds, NEW num_blocks_low, NEW num_blocks_high
    PROVE  CsprngInit(num_rounds, num_blocks_low, num_blocks_high)
             /\ [][CsprngNext]_csprngVars => []HardBlockLimit
<1>1. CsprngInit(num_rounds, num_blocks_low, num_blocks_high) => BudgetInv
  BY BudgetInit
<1>2. BudgetInv /\ [CsprngNext]_csprngVars => BudgetInv'
  BY BudgetNext
<1>3. BudgetInv => HardBlockLimit
  BY DEF BudgetInv
<1>. QED  BY <1>1, <1>2, <1>3, PTL

-----------------------------------------------------------------------------
(* The generator, its cipher and its FIFO together.                        *)

\* An access as the register interface decodes it: the operands that a write
\* carries are in range, and any other access carries none.
Access(api) ==
    /\ api.op = "ctrl" => api.enable \in BOOLEAN /\ api.seed \in BOOLEAN
    /\ api.op = "num_rounds" => api.value \in 0 .. 31
    /\ api.op \in {"num_blocks_low", "num_blocks_high"} =>
         api.value \in 0 .. NUM_BLOCKS_HALF - 1

\* One rising edge of clk with ports in range.
GenEdge(seed_syn, seed_data, discard, api, debug_update) ==
    /\ seed_syn \in BOOLEAN /\ seed_data \in Seeds /\ discard \in BOOLEAN
    /\ Access(api) /\ debug_update \in BOOLEAN
    /\ CsprngClock(seed_syn, seed_data, discard, api, debug_update)

\* CsprngTypeOK without its parts.
GenTypeOK ==
    /\ csprng_ctrl_reg \in States
    /\ {enable_reg, seed_reg, more_seed_reg, seed_ack_reg} \subseteq BOOLEAN
    /\ {cipher_key_reg, cipher_block_reg} \subseteq Seeds \cup {NoSeed}
    /\ num_rounds_reg \in 0 .. 31
    /\ {num_blocks_low_reg, num_blocks_high_reg} \subseteq 0 .. NUM_BLOCKS_HALF - 1

\* A discard of the FIFO lasts one cycle.
ProtocolInv == discarded => csprng_ctrl_reg # "CTRL_CANCEL"

\* ready and data_out_valid say where the cipher is, and where the generator
\* trusts them the cipher has heard its strobe: the state matrix of a block
\* that is awaited was loaded after the key.
CipherInv ==
    /\ ready_reg <=> (chacha_ctrl_reg \in {"CTRL_IDLE", "CTRL_DONE"})
    /\ data_out_valid_reg <=> (chacha_ctrl_reg = "CTRL_DONE")
    /\ csprng_ctrl_reg = "CTRL_INIT1" => chacha_ctrl_reg # "CTRL_IDLE"
    /\ csprng_ctrl_reg \in {"CTRL_NEXT0", "CTRL_MORE"} => chacha_ctrl_reg = "CTRL_DONE"
    /\ csprng_ctrl_reg = "CTRL_NEXT1" =>
         /\ chacha_ctrl_reg # "CTRL_IDLE"
         /\ chacha_ctrl_reg = "CTRL_INIT" \/ state_current

\* The seed registers are filled in the states that come after a seed.
KeyInv ==
    /\ csprng_ctrl_reg \notin {"CTRL_IDLE", "CTRL_SEED0", "CTRL_CANCEL"} =>
         cipher_block_reg # NoSeed
    /\ csprng_ctrl_reg \in {"CTRL_INIT0", "CTRL_INIT1", "CTRL_NEXT0", "CTRL_NEXT1",
                            "CTRL_MORE"} =>
         cipher_key_reg # NoSeed

\* After a block was lost the generator computes the next one only while the
\* FIFO waits for it.
LossInv ==
    /\ more_data_reg <=> (wr_ctrl_reg \in {"WR_WAIT", "WR_NEXT"})
    /\ wr_ctrl_reg = "WR_NEXT" => csprng_ctrl_reg = "CTRL_MORE" /\ dropped = 0
    /\ dropped \in {0, 1}
    /\ dropped = 1 /\ csprng_ctrl_reg \notin {"CTRL_IDLE", "CTRL_MORE", "CTRL_CANCEL"} =>
         wr_ctrl_reg = "WR_WAIT"

GenInv == /\ FifoInv /\ ChachaTypeOK /\ GenTypeOK
          /\ ProtocolInv /\ CipherInv /\ KeyInv /\ LossInv

-----------------------------------------------------------------------------
\* The control FSM: where each state is entered from, and with what.
LEMMA CtrlMoves ==
    ASSUME NEW seed_syn, NEW seed_data, NEW discard,
           CsprngCtrl(seed_syn, seed_data, discard)
    PROVE  /\ csprng_ctrl_reg' = "CTRL_IDLE" => 
                \/ Runs("CTRL_IDLE", discard)
                \/ csprng_ctrl_reg = "CTRL_CANCEL"
           /\ csprng_ctrl_reg' = "CTRL_SEED0" =>
                \/ Runs("CTRL_IDLE", discard) /\ more_data_reg
                \/ Runs("CTRL_SEED0", discard)
                \/ Runs("CTRL_MORE", discard) /\ more_data_reg
           /\ csprng_ctrl_reg' = "CTRL_NSYN" => Runs("CTRL_SEED0", discard) /\ seed_syn
           /\ csprng_ctrl_reg' = "CTRL_SEED1" =>
                \/ Runs("CTRL_NSYN", discard)
                \/ Runs("CTRL_SEED1", discard) /\ ~seed_syn
           /\ csprng_ctrl_reg' = "CTRL_INIT0" => Runs("CTRL_SEED1", discard) /\ seed_syn
           /\ csprng_ctrl_reg' = "CTRL_INIT1" =>
                \/ Runs("CTRL_INIT0", discard)
                \/ Runs("CTRL_INIT1", discard) /\ ~ready_reg
           /\ csprng_ctrl_reg' = "CTRL_NEXT0" =>
                \/ Runs("CTRL_INIT1", discard) /\ ready_reg
                \/ Runs("CTRL_MORE", discard) /\ more_data_reg
           /\ csprng_ctrl_reg' = "CTRL_NEXT1" =>
                \/ Runs("CTRL_NEXT0", discard)
                \/ Runs("CTRL_NEXT1", discard) /\ ~fifo_cipher_data_valid(discard)
           /\ csprng_ctrl_reg' = "CTRL_MORE" =>
                \/ Runs("CTRL_NEXT1", discard) /\ fifo_cipher_data_valid(discard)
                \/ Runs("CTRL_MORE", discard)
           /\ csprng_ctrl_reg' \in States
           /\ {more_seed_reg', seed_ack_reg'} \subseteq BOOLEAN
<1>1. CASE CtrlCancelled(discard)
  BY <1>1 DEF CtrlCancelled, GoTo, States
<1>2. CASE CtrlIdle(discard)
  BY <1>2 DEF CtrlIdle, GoTo, States
<1>3. CASE CtrlSeed0(seed_syn, seed_data, discard)
  BY <1>3 DEF CtrlSeed0, GoTo, States
<1>4. CASE CtrlNsyn(discard)
  BY <1>4 DEF CtrlNsyn, GoTo, States
<1>5. CASE CtrlSeed1(seed_syn, seed_data, discard)
  BY <1>5 DEF CtrlSeed1, GoTo, States
<1>6. CASE CtrlInit0(discard)
  BY <1>6 DEF CtrlInit0, GoTo, States
<1>7. CASE CtrlInit1(discard)
  BY <1>7 DEF CtrlInit1, GoTo, States
<1>8. CASE CtrlNext0(discard)
  BY <1>8 DEF CtrlNext0, GoTo, States
<1>9. CASE CtrlNext1(discard)
  BY <1>9 DEF CtrlNext1, GoTo, States
<1>10. CASE CtrlMore(discard)
  BY <1>10 DEF CtrlMore, GoTo, States
<1>11. CASE CtrlCancel
  BY <1>11 DEF CtrlCancel, GoTo, States
<1>. QED
  BY <1>1, <1>2, <1>3, <1>4, <1>5, <1>6, <1>7, <1>8, <1>9, <1>10, <1>11 DEF CsprngCtrl

\* What the control FSM does to the seed registers.
LEMMA SeedMoves ==
    ASSUME NEW seed_syn, NEW seed_data, NEW discard,
           CsprngCtrl(seed_syn, seed_data, discard)
    PROVE  /\ cipher_block_reg' =
                IF csprng_ctrl_reg = "CTRL_CANCEL" THEN NoSeed
                ELSE IF Runs("CTRL_SEED0", discard) /\ seed_syn THEN seed_data
                ELSE cipher_block_reg
           /\ cipher_key_reg' =
                IF csprng_ctrl_reg = "CTRL_CANCEL" THEN NoSeed
                ELSE IF Runs("CTRL_SEED1", discard) /\ seed_syn THEN seed_data
                ELSE cipher_key_reg
<1>1. CASE CtrlCancelled(discard)
  BY <1>1 DEF CtrlCancelled, Cancels, Runs
<1>2. CASE CtrlIdle(discard)
  BY <1>2 DEF CtrlIdle, Runs
<1>3. CASE CtrlSeed0(seed_syn, seed_data, discard)
  BY <1>3 DEF CtrlSeed0, Runs
<1>4. CASE CtrlNsyn(discard)
  BY <1>4 DEF CtrlNsyn, Runs
<1>5. CASE CtrlSeed1(seed_syn, seed_data, discard)
  BY <1>5 DEF CtrlSeed1, Runs
<1>6. CASE CtrlInit0(discard)
  BY <1>6 DEF CtrlInit0, Runs
<1>7. CASE CtrlInit1(discard)
  BY <1>7 DEF CtrlInit1, Runs
<1>8. CASE CtrlNext0(discard)
  BY <1>8 DEF CtrlNext0, Runs
<1>9. CASE CtrlNext1(discard)
  BY <1>9 DEF CtrlNext1, Runs
<1>10. CASE CtrlMore(discard)
  BY <1>10 DEF CtrlMore, Runs
<1>11. CASE CtrlCancel
  BY <1>11 DEF CtrlCancel
<1>. QED
  BY <1>1, <1>2, <1>3, <1>4, <1>5, <1>6, <1>7, <1>8, <1>9, <1>10, <1>11 DEF CsprngCtrl

\* A strobe of the cipher and the state it is sent from exclude each other.
LEMMA Strobes ==
    ASSUME NEW discard
    PROVE  /\ cipher_init(discard) => csprng_ctrl_reg = "CTRL_INIT0"
           /\ cipher_next(discard) => csprng_ctrl_reg = "CTRL_NEXT0"
           /\ fifo_discard <=> csprng_ctrl_reg = "CTRL_CANCEL"
           /\ fifo_cipher_data_valid(discard) =>
                csprng_ctrl_reg = "CTRL_NEXT1" /\ ready_reg /\ data_out_valid_reg
BY DEF cipher_init, cipher_next, fifo_discard, fifo_cipher_data_valid, Runs

\* The cipher keeps its registers in range, and ready and data_out_valid
\* in step with its control state.
LEMMA CipherMoves ==
    ASSUME ChachaTypeOK, CipherInv, NEW init, NEW next, NEW rounds, NEW newKey,
           ChachaClock(init, next, rounds, newKey)
    PROVE  /\ chacha_ctrl_reg' \in {"CTRL_IDLE", "CTRL_INIT", "CTRL_ROUNDS",
                                    "CTRL_FINALIZE", "CTRL_DONE"}
           /\ data_out' \in 0 .. BLOCK_IDS - 1
           /\ ready_reg' \in BOOLEAN /\ data_out_valid_reg' \in BOOLEAN
           /\ ready_reg' <=> (chacha_ctrl_reg' \in {"CTRL_IDLE", "CTRL_DONE"})
           /\ data_out_valid_reg' <=> (chacha_ctrl_reg' = "CTRL_DONE")
           /\ chacha_ctrl_reg # "CTRL_IDLE" => chacha_ctrl_reg' # "CTRL_IDLE"
           /\ init /\ chacha_ctrl_reg = "CTRL_IDLE" => chacha_ctrl_reg' = "CTRL_INIT"
           /\ init \/ next =>
                (chacha_ctrl_reg = "CTRL_DONE" => chacha_ctrl_reg' = "CTRL_INIT")
           /\ ~init /\ ~next =>
                /\ chacha_ctrl_reg = "CTRL_DONE" => chacha_ctrl_reg' = "CTRL_DONE"
                /\ chacha_ctrl_reg' # "CTRL_INIT"
           /\ chacha_ctrl_reg = "CTRL_INIT" => chacha_ctrl_reg' # "CTRL_INIT"
<1>0. BLOCK_IDS \in Nat \ {0}
  BY BlockIdsAssumption
<1>1. CASE ChachaStart(init, next)
  BY <1>1 DEF ChachaStart, ChachaTypeOK, CipherInv, StartsInit, StartsNext
<1>2. CASE ChachaWait(init, next)
  BY <1>2 DEF ChachaWait, ChachaTypeOK, CipherInv, StartsInit, StartsNext
<1>3. CASE ChachaLoad
  BY <1>3 DEF ChachaLoad, ChachaTypeOK, CipherInv
<1>4. CASE ChachaRound
  BY <1>4 DEF ChachaRound, ChachaTypeOK, CipherInv
<1>5. CASE ChachaLastRound(rounds)
  BY <1>5 DEF ChachaLastRound, ChachaTypeOK, CipherInv
<1>6. CASE ChachaFinalize
  BY <1>0, <1>6 DEF ChachaFinalize, ChachaTypeOK, CipherInv
<1>. QED
  BY <1>1, <1>2, <1>3, <1>4, <1>5, <1>6 DEF ChachaClock

\* The history of the cipher's state matrix is a truth value.
LEMMA ProvenanceType ==
    ASSUME NEW init, NEW newKey, Provenance(init, newKey)
    PROVE  state_current' \in BOOLEAN /\ ctr_current' \in BOOLEAN
BY DEF Provenance

\* The cipher's part of the step.
LEMMA CipherStep ==
    ASSUME GenInv, NEW seed_syn, NEW seed_data, NEW discard, NEW api, NEW debug_update,
           GenEdge(seed_syn, seed_data, discard, api, debug_update)
    PROVE  ChachaTypeOK' /\ CipherInv'
<1>. DEFINE init   == cipher_init(discard)
            next   == cipher_next(discard)
            newKey == KeyChanges(seed_syn, discard)
<1>0. ChachaTypeOK /\ CipherInv
  BY DEF GenInv
<1>1. ChachaClock(init, next, num_rounds_reg, newKey) /\ Provenance(init, newKey)
  BY DEF GenEdge, CsprngClock, ChachaClock
<1>2. /\ chacha_ctrl_reg' \in {"CTRL_IDLE", "CTRL_INIT", "CTRL_ROUNDS",
                               "CTRL_FINALIZE", "CTRL_DONE"}
      /\ data_out' \in 0 .. BLOCK_IDS - 1
      /\ ready_reg' \in BOOLEAN /\ data_out_valid_reg' \in BOOLEAN
      /\ ready_reg' <=> (chacha_ctrl_reg' \in {"CTRL_IDLE", "CTRL_DONE"})
      /\ data_out_valid_reg' <=> (chacha_ctrl_reg' = "CTRL_DONE")
      /\ chacha_ctrl_reg # "CTRL_IDLE" => chacha_ctrl_reg' # "CTRL_IDLE"
      /\ init /\ chacha_ctrl_reg = "CTRL_IDLE" => chacha_ctrl_reg' = "CTRL_INIT"
      /\ init \/ next =>
           (chacha_ctrl_reg = "CTRL_DONE" => chacha_ctrl_reg' = "CTRL_INIT")
      /\ ~init /\ ~next =>
           /\ chacha_ctrl_reg = "CTRL_DONE" => chacha_ctrl_reg' = "CTRL_DONE"
           /\ chacha_ctrl_reg' # "CTRL_INIT"
      /\ chacha_ctrl_reg = "CTRL_INIT" => chacha_ctrl_reg' # "CTRL_INIT"
  BY <1>0, <1>1, CipherMoves
<1>3. state_current' \in BOOLEAN /\ ctr_current' \in BOOLEAN
  BY <1>1, ProvenanceType
<1>4. ChachaTypeOK'
  BY <1>2, <1>3 DEF ChachaTypeOK
<1>5. CsprngCtrl(seed_syn, seed_data, discard)
  BY DEF GenEdge, CsprngClock
<1>6. csprng_ctrl_reg' = "CTRL_INIT1" => chacha_ctrl_reg' # "CTRL_IDLE"
  <2>1. SUFFICES ASSUME csprng_ctrl_reg' = "CTRL_INIT1"
                 PROVE  chacha_ctrl_reg' # "CTRL_IDLE"
    OBVIOUS
  <2>2. init \/ csprng_ctrl_reg = "CTRL_INIT1"
    BY <1>5, <2>1, CtrlMoves DEF cipher_init, Runs
  <2>. QED  BY <1>0, <1>2, <2>2 DEF CipherInv
<1>7. csprng_ctrl_reg' = "CTRL_NEXT0" => chacha_ctrl_reg' = "CTRL_DONE"
  <2>1. SUFFICES ASSUME csprng_ctrl_reg' = "CTRL_NEXT0"
                 PROVE  chacha_ctrl_reg' = "CTRL_DONE"
    OBVIOUS
  <2>2. \/ csprng_ctrl_reg = "CTRL_INIT1" /\ ready_reg
        \/ csprng_ctrl_reg = "CTRL_MORE"
    BY <1>5, <2>1, CtrlMoves DEF Runs
  <2>3. chacha_ctrl_reg = "CTRL_DONE"
    BY <1>0, <2>2 DEF CipherInv
  <2>4. ~init /\ ~next
    BY <2>2, Strobes
  <2>. QED  BY <1>2, <2>3, <2>4
<1>8. csprng_ctrl_reg' = "CTRL_MORE" => chacha_ctrl_reg' = "CTRL_DONE"
  <2>1. SUFFICES ASSUME csprng_ctrl_reg' = "CTRL_MORE"
                 PROVE  chacha_ctrl_reg' = "CTRL_DONE"
    OBVIOUS
  <2>2. \/ csprng_ctrl_reg = "CTRL_NEXT1" /\ data_out_valid_reg
        \/ csprng_ctrl_reg = "CTRL_MORE"
    BY <1>5, <2>1, CtrlMoves, Strobes DEF Runs
  <2>3. chacha_ctrl_reg = "CTRL_DONE"
    BY <1>0, <2>2 DEF CipherInv
  <2>4. ~init /\ ~next
    BY <2>2, Strobes
  <2>. QED  BY <1>2, <2>3, <2>4
<1>9. csprng_ctrl_reg' = "CTRL_NEXT1" =>
        /\ chacha_ctrl_reg' # "CTRL_IDLE"
        /\ chacha_ctrl_reg' = "CTRL_INIT" \/ state_current'
  <2>1. SUFFICES ASSUME csprng_ctrl_reg' = "CTRL_NEXT1"
                 PROVE  /\ chacha_ctrl_reg' # "CTRL_IDLE"
                        /\ chacha_ctrl_reg' = "CTRL_INIT" \/ state_current'
    OBVIOUS
  <2>2. \/ next
        \/ csprng_ctrl_reg = "CTRL_NEXT1"
    BY <1>5, <2>1, CtrlMoves DEF cipher_next, Runs
  <2>3. CASE next
    BY <1>0, <1>2, <2>3, Strobes DEF CipherInv
  <2>4. CASE csprng_ctrl_reg = "CTRL_NEXT1"
    <3>1. ~newKey
      BY <2>4 DEF KeyChanges, fifo_discard, Runs
    <3>2. state_current'
      BY <1>0, <1>1, <2>4, <3>1 DEF CipherInv, Provenance
    <3>. QED  BY <1>0, <1>2, <2>4, <3>2 DEF CipherInv
  <2>. QED  BY <2>2, <2>3, <2>4
<1>. QED  BY <1>2, <1>4, <1>6, <1>7, <1>8, <1>9 DEF CipherInv

-----------------------------------------------------------------------------
\* What the generator presents to the FIFO keeps to the FIFO's assumptions.
LEMMA DrivesFifo ==
    ASSUME GenInv, NEW seed_syn, NEW seed_data, NEW discard, NEW api, NEW debug_update,
           GenEdge(seed_syn, seed_data, discard, api, debug_update)
    PROVE  FifoNext
<1>. DEFINE valid == fifo_cipher_data_valid(discard)
            ack   == muxed_rnd_ack(api, debug_update)
<1>1. FifoClock(data_out, valid, fifo_discard, ack)
  BY DEF GenEdge, CsprngClock
<1>2. data_out \in Blocks
  BY BlocksAssumption DEF GenInv, ChachaTypeOK
<1>3. valid \in BOOLEAN
  BY DEF fifo_cipher_data_valid
<1>4. fifo_discard \in BOOLEAN
  BY DEF fifo_discard
<1>5. ack \in BOOLEAN
  BY DEF muxed_rnd_ack
<1>6. GeneratorProtocol(valid, fifo_discard)
  BY Strobes DEF GeneratorProtocol, GenInv, ProtocolInv
<1>. HIDE DEF valid, ack
<1>. QED  BY <1>1, <1>2, <1>3, <1>4, <1>5, <1>6 DEF FifoNext

\* The FIFO's part of the step.
LEMMA FifoPartStep ==
    ASSUME GenInv, NEW seed_syn, NEW seed_data, NEW discard, NEW api, NEW debug_update,
           GenEdge(seed_syn, seed_data, discard, api, debug_update)
    PROVE  FifoInv' /\ ProtocolInv'
<1>1. FifoInv /\ FifoNext
  BY DrivesFifo DEF GenInv
<1>2. FifoInv'
  BY <1>1, TypeStep, CounterInvStep, DiscardStep DEF FifoInv
<1>3. discarded' = fifo_discard
  BY DEF GenEdge, CsprngClock, FifoClock, History
<1>4. fifo_discard => csprng_ctrl_reg' # "CTRL_CANCEL"
  BY DEF GenEdge, CsprngClock, CsprngCtrl, fifo_discard, CtrlCancelled, Cancels, Runs,
         CtrlIdle, CtrlSeed0, CtrlNsyn, CtrlSeed1, CtrlInit0, CtrlInit1, CtrlNext0,
         CtrlNext1, CtrlMore, CtrlCancel, GoTo
<1>. QED  BY <1>2, <1>3, <1>4 DEF ProtocolInv

\* The generator's own registers stay in range, and the seed registers filled.
LEMMA RegistersStep ==
    ASSUME GenInv, NEW seed_syn, NEW seed_data, NEW discard, NEW api, NEW debug_update,
           GenEdge(seed_syn, seed_data, discard, api, debug_update)
    PROVE  GenTypeOK' /\ KeyInv'
<1>1. /\ CsprngCtrl(seed_syn, seed_data, discard)
      /\ CsprngApi(api) /\ Access(api) /\ seed_data \in Seeds
  BY DEF GenEdge, CsprngClock
<1>2. GenTypeOK /\ KeyInv
  BY DEF GenInv
<1>3. /\ csprng_ctrl_reg' \in States
      /\ {more_seed_reg', seed_ack_reg'} \subseteq BOOLEAN
  BY <1>1, CtrlMoves
<1>4. {enable_reg', seed_reg'} \subseteq BOOLEAN
  BY <1>1, <1>2 DEF CsprngApi, Access, GenTypeOK
<1>5. num_rounds_reg' \in 0 .. 31
  BY <1>1, <1>2 DEF CsprngApi, Access, GenTypeOK
<1>6. {num_blocks_low_reg', num_blocks_high_reg'} \subseteq 0 .. NUM_BLOCKS_HALF - 1
  BY <1>1, <1>2 DEF CsprngApi, Access, GenTypeOK
<1>7. /\ cipher_block_reg' =
           IF csprng_ctrl_reg = "CTRL_CANCEL" THEN NoSeed
           ELSE IF Runs("CTRL_SEED0", discard) /\ seed_syn THEN seed_data
           ELSE cipher_block_reg
      /\ cipher_key_reg' =
           IF csprng_ctrl_reg = "CTRL_CANCEL" THEN NoSeed
           ELSE IF Runs("CTRL_SEED1", discard) /\ seed_syn THEN seed_data
           ELSE cipher_key_reg
  BY <1>1, SeedMoves
<1>8. {cipher_key_reg', cipher_block_reg'} \subseteq Seeds \cup {NoSeed}
  BY <1>1, <1>2, <1>7 DEF GenTypeOK
<1>9. GenTypeOK'
  BY <1>3, <1>4, <1>5, <1>6, <1>8 DEF GenTypeOK
<1>10. csprng_ctrl_reg' \notin {"CTRL_IDLE", "CTRL_SEED0", "CTRL_CANCEL"} =>
         cipher_block_reg' # NoSeed
  <2>1. SUFFICES ASSUME csprng_ctrl_reg' \notin {"CTRL_IDLE", "CTRL_SEED0", "CTRL_CANCEL"}
                 PROVE  cipher_block_reg' # NoSeed
    OBVIOUS
  <2>2. \/ Runs("CTRL_SEED0", discard) /\ seed_syn
        \/ csprng_ctrl_reg \notin {"CTRL_IDLE", "CTRL_SEED0", "CTRL_CANCEL"}
    BY <1>1, <1>3, <2>1, CtrlMoves DEF Runs, States
  <2>3. csprng_ctrl_reg # "CTRL_CANCEL"
    BY <2>2 DEF Runs
  <2>. QED  BY <1>1, <1>2, <1>7, <2>2, <2>3, SeedsAssumption DEF KeyInv
<1>11. csprng_ctrl_reg' \in {"CTRL_INIT0", "CTRL_INIT1", "CTRL_NEXT0", "CTRL_NEXT1",
                             "CTRL_MORE"} =>
         cipher_key_reg' # NoSeed
  <2>1. SUFFICES ASSUME csprng_ctrl_reg' \in {"CTRL_INIT0", "CTRL_INIT1", "CTRL_NEXT0",
                                              "CTRL_NEXT1", "CTRL_MORE"}
                 PROVE  cipher_key_reg' # NoSeed
    OBVIOUS
  <2>2. \/ Runs("CTRL_SEED1", discard) /\ seed_syn
        \/ csprng_ctrl_reg \in {"CTRL_INIT0", "CTRL_INIT1", "CTRL_NEXT0", "CTRL_NEXT1",
                                "CTRL_MORE"}
    BY <1>1, <2>1, CtrlMoves DEF Runs
  <2>3. csprng_ctrl_reg # "CTRL_CANCEL"
    BY <2>2 DEF Runs
  <2>. QED  BY <1>1, <1>2, <1>7, <2>2, <2>3, SeedsAssumption DEF KeyInv
<1>. QED  BY <1>9, <1>10, <1>11 DEF KeyInv

-----------------------------------------------------------------------------
\* The write FSM of the FIFO, seen from the generator.
LEMMA WriteMoves ==
    ASSUME LossInv, NEW data, NEW valid, NEW discard, WrCtrl(data, valid, discard)
    PROVE  /\ more_data_reg' <=> (wr_ctrl_reg' \in {"WR_WAIT", "WR_NEXT"})
           /\ wr_ctrl_reg' = "WR_NEXT" => Stores(valid)
           /\ wr_ctrl_reg = "WR_WAIT" /\ ~valid => wr_ctrl_reg' = "WR_WAIT"
           /\ wr_ctrl_reg = "WR_NEXT" => wr_ctrl_reg' = "WR_IDLE"
<1>1. CASE WrRequest(discard)
  BY <1>1 DEF WrRequest, LossInv
<1>2. CASE WrFull(discard)
  BY <1>2 DEF WrFull, LossInv
<1>3. CASE WrObeyDiscard(discard)
  BY <1>3 DEF WrObeyDiscard, LossInv
<1>4. CASE WrHold(valid)
  BY <1>4 DEF WrHold, LossInv
<1>5. CASE WrStore(data, valid)
  BY <1>5 DEF WrStore, Stores, LossInv
<1>6. CASE WrNext
  BY <1>6 DEF WrNext, LossInv
<1>7. CASE WrDiscard
  BY <1>7 DEF WrDiscard, LossInv
<1>. QED
  BY <1>1, <1>2, <1>3, <1>4, <1>5, <1>6, <1>7 DEF WrCtrl

\* The loss of a block is followed by a block that is waited for.
LEMMA LossStep ==
    ASSUME GenInv, NEW seed_syn, NEW seed_data, NEW discard, NEW api, NEW debug_update,
           GenEdge(seed_syn, seed_data, discard, api, debug_update)
    PROVE  LossInv'
<1>. DEFINE valid == fifo_cipher_data_valid(discard)
<1>0. LossInv /\ GenTypeOK
  BY DEF GenInv
<1>1. CsprngCtrl(seed_syn, seed_data, discard) /\ Dropped(discard)
  BY DEF GenEdge, CsprngClock
<1>2. WrCtrl(data_out, valid, fifo_discard)
  BY DEF GenEdge, CsprngClock, FifoClock
<1>3. /\ more_data_reg' <=> (wr_ctrl_reg' \in {"WR_WAIT", "WR_NEXT"})
      /\ wr_ctrl_reg' = "WR_NEXT" => Stores(valid)
      /\ wr_ctrl_reg = "WR_WAIT" /\ ~valid => wr_ctrl_reg' = "WR_WAIT"
  BY <1>0, <1>2, WriteMoves
<1>4. valid => csprng_ctrl_reg' = "CTRL_MORE" /\ csprng_ctrl_reg = "CTRL_NEXT1"
  <2>1. SUFFICES ASSUME valid
                 PROVE  csprng_ctrl_reg' = "CTRL_MORE" /\ csprng_ctrl_reg = "CTRL_NEXT1"
    OBVIOUS
  <2>2. Runs("CTRL_NEXT1", discard)
    BY <2>1 DEF fifo_cipher_data_valid
  <2>3. CtrlNext1(discard)
    BY <1>1, <2>2 DEF Runs, CsprngCtrl, CtrlCancelled, CtrlIdle, CtrlSeed0, CtrlNsyn,
                      CtrlSeed1, CtrlInit0, CtrlInit1, CtrlNext0, CtrlMore, CtrlCancel
  <2>. QED  BY <2>1, <2>2, <2>3 DEF CtrlNext1, GoTo, Runs
<1>5. /\ ~valid => dropped' = dropped
      /\ valid /\ wr_ctrl_reg = "WR_WAIT" => dropped' = 0
      /\ valid /\ wr_ctrl_reg # "WR_WAIT" /\ dropped = 0 => dropped' = 1
  BY <1>0, <1>1 DEF Dropped, Stores, LossInv
<1>6. valid /\ wr_ctrl_reg # "WR_WAIT" => dropped = 0
  BY <1>0, <1>4 DEF LossInv
<1>7. dropped' \in {0, 1}
  BY <1>0, <1>5, <1>6 DEF LossInv
<1>8. wr_ctrl_reg' = "WR_NEXT" => csprng_ctrl_reg' = "CTRL_MORE" /\ dropped' = 0
  BY <1>3, <1>4, <1>5 DEF Stores
<1>9. ASSUME dropped' = 1,
             csprng_ctrl_reg' \notin {"CTRL_IDLE", "CTRL_MORE", "CTRL_CANCEL"}
      PROVE  wr_ctrl_reg' = "WR_WAIT"
  <2>1. ~valid /\ dropped = 1
    BY <1>4, <1>5, <1>9
  <2>2. \/ csprng_ctrl_reg \notin {"CTRL_IDLE", "CTRL_MORE", "CTRL_CANCEL"}
        \/ more_data_reg
    BY <1>1, <1>9, CtrlMoves DEF Runs, States
  <2>3. wr_ctrl_reg = "WR_WAIT"
    BY <1>0, <2>1, <2>2 DEF LossInv
  <2>. QED  BY <1>3, <2>1, <2>3
<1>. QED  BY <1>3, <1>7, <1>8, <1>9 DEF LossInv

-----------------------------------------------------------------------------
\* Reset establishes the invariant.
LEMMA GenInit ==
    ASSUME NEW num_rounds \in 0 .. 31,
           NEW num_blocks_low \in 0 .. NUM_BLOCKS_HALF - 1,
           NEW num_blocks_high \in 0 .. NUM_BLOCKS_HALF - 1,
           CsprngInit(num_rounds, num_blocks_low, num_blocks_high)
    PROVE  GenInv
<1>1. FifoInv
  BY InitInv DEF CsprngInit
<1>2. ChachaTypeOK
  <2>1. 0 \in 0 .. BLOCK_IDS - 1
    BY BlockIdsAssumption
  <2>. QED  BY <2>1 DEF CsprngInit, ChachaInit, ChachaTypeOK
<1>3. GenTypeOK
  BY DEF CsprngInit, GenTypeOK, States
<1>4. ProtocolInv /\ CipherInv /\ KeyInv /\ LossInv
  BY DEF CsprngInit, FifoInit, ChachaInit, ProtocolInv, CipherInv, KeyInv, LossInv
<1>. QED  BY <1>1, <1>2, <1>3, <1>4 DEF GenInv

\* Every cycle keeps it.
LEMMA GenStep ==
    ASSUME GenInv, NEW seed_syn, NEW seed_data, NEW discard, NEW api, NEW debug_update,
           GenEdge(seed_syn, seed_data, discard, api, debug_update)
    PROVE  GenInv'
BY CipherStep, FifoPartStep, RegistersStep, LossStep DEF GenInv

\* The steps of the generator on its own are such cycles.
LEMMA CsprngNextIsEdge ==
    CsprngNext => \E seed_syn, seed_data, discard, api, debug_update :
                    GenEdge(seed_syn, seed_data, discard, api, debug_update)
<1>1. ASSUME NEW api \in ApiOps
      PROVE  Access(api)
  BY ApiOpsAssumption DEF AllApiOps, Access
<1>. QED  BY <1>1, DebugAssumption DEF CsprngNext, GenEdge

\* A cycle in which nothing changes keeps the invariant.
LEMMA GenStutter ==
    ASSUME GenInv, UNCHANGED csprngVars
    PROVE  GenInv'
<1>1. UNCHANGED fifoVars /\ UNCHANGED chachaVars /\ UNCHANGED genVars
  BY DEF csprngVars
<1>2. FifoInv'
  BY <1>1, StutterStep DEF GenInv
<1>3. ChachaTypeOK' /\ GenTypeOK'
  BY <1>1 DEF GenInv, chachaVars, genVars, ChachaTypeOK, GenTypeOK
<1>4. ProtocolInv' /\ CipherInv' /\ KeyInv' /\ LossInv'
  BY <1>1 DEF GenInv, fifoVars, chachaVars, genVars, ProtocolInv, CipherInv, KeyInv, LossInv
<1>. QED  BY <1>2, <1>3, <1>4 DEF GenInv

-----------------------------------------------------------------------------
\* What the invariant says of the keystream and of the losses.
LEMMA GenIsCorrect == GenInv => KeystreamOfThisSeed /\ OneBlockLostAtMost
<1>1. SUFFICES ASSUME GenInv
               PROVE  KeystreamOfThisSeed /\ OneBlockLostAtMost
  OBVIOUS
<1>2. fifo_cipher_data_valid(FALSE) =>
        csprng_ctrl_reg = "CTRL_NEXT1" /\ data_out_valid_reg
  BY Strobes
<1>3. KeystreamOfThisSeed
  BY <1>1, <1>2 DEF KeystreamOfThisSeed, GenInv, CipherInv, KeyInv
<1>4. OneBlockLostAtMost
  BY <1>1 DEF GenInv, LossInv, OneBlockLostAtMost
<1>. QED  BY <1>3, <1>4

\* The invariant holds in every state of the generator.
THEOREM CsprngInvariant ==
    ASSUME NEW num_rounds \in 0 .. 31,
           NEW num_blocks_low \in 0 .. NUM_BLOCKS_HALF - 1,
           NEW num_blocks_high \in 0 .. NUM_BLOCKS_HALF - 1
    PROVE  CsprngInit(num_rounds, num_blocks_low, num_blocks_high)
             /\ [][CsprngNext]_csprngVars => [](GenInv /\ BudgetInv)
<1>1. CsprngInit(num_rounds, num_blocks_low, num_blocks_high) => GenInv /\ BudgetInv
  BY GenInit, BudgetInit
<1>2. GenInv /\ BudgetInv /\ [CsprngNext]_csprngVars => GenInv' /\ BudgetInv'
  BY CsprngNextIsEdge, GenStep, GenStutter, BudgetNext
<1>. QED  BY <1>1, <1>2, PTL

\* Every register of trng_csprng.v, of its cipher and of its FIFO stays within
\* its range, for every budget, block length and size of the FIFO.
THEOREM CsprngTypeCorrect ==
    ASSUME NEW num_rounds \in 0 .. 31,
           NEW num_blocks_low \in 0 .. NUM_BLOCKS_HALF - 1,
           NEW num_blocks_high \in 0 .. NUM_BLOCKS_HALF - 1
    PROVE  CsprngInit(num_rounds, num_blocks_low, num_blocks_high)
             /\ [][CsprngNext]_csprngVars => []CsprngTypeOK
<1>1. GenInv /\ BudgetInv => CsprngTypeOK
  BY DEF GenInv, BudgetInv, FifoInv, GenTypeOK, LossInv, CsprngTypeOK
<1>. QED  BY CsprngInvariant, <1>1, PTL

\* A block that trng_csprng.v stores was computed from the key that it holds
\* now, and both halves of the seed came from the mixer: no strobe is lost to
\* a busy cipher without the FSM waiting for it, wherever a computation for an
\* older key is cut off.  Of the block counter it says nothing; CounterLoaded
\* (TrngProofs) does.
THEOREM KeystreamCorrect ==
    ASSUME NEW num_rounds \in 0 .. 31,
           NEW num_blocks_low \in 0 .. NUM_BLOCKS_HALF - 1,
           NEW num_blocks_high \in 0 .. NUM_BLOCKS_HALF - 1
    PROVE  CsprngInit(num_rounds, num_blocks_low, num_blocks_high)
             /\ [][CsprngNext]_csprngVars => []KeystreamOfThisSeed
<1>1. GenInv => KeystreamOfThisSeed
  BY GenIsCorrect
<1>. QED  BY CsprngInvariant, <1>1, PTL

\* trng_csprng.v never loses two blocks in a row to a FIFO that does not wait
\* for them, whatever cancels, restarts and fills the FIFO in between.
THEOREM LossBounded ==
    ASSUME NEW num_rounds \in 0 .. 31,
           NEW num_blocks_low \in 0 .. NUM_BLOCKS_HALF - 1,
           NEW num_blocks_high \in 0 .. NUM_BLOCKS_HALF - 1
    PROVE  CsprngInit(num_rounds, num_blocks_low, num_blocks_high)
             /\ [][CsprngNext]_csprngVars => []OneBlockLostAtMost
<1>1. GenInv => OneBlockLostAtMost
  BY GenIsCorrect
<1>. QED  BY CsprngInvariant, <1>1, PTL

\* The generator is an environment that the FIFO's proofs assume: its strobes
\* and discards keep to GeneratorProtocol, so all that is proved of
\* trng_csprng_fifo.v on its own holds inside trng_csprng.v.
THEOREM GeneratorDrivesFifo ==
    ASSUME NEW num_rounds \in 0 .. 31,
           NEW num_blocks_low \in 0 .. NUM_BLOCKS_HALF - 1,
           NEW num_blocks_high \in 0 .. NUM_BLOCKS_HALF - 1
    PROVE  CsprngInit(num_rounds, num_blocks_low, num_blocks_high)
             /\ [][CsprngNext]_csprngVars => FifoSpec
<1>1. CsprngInit(num_rounds, num_blocks_low, num_blocks_high) => FifoInit
  BY DEF CsprngInit
<1>2. GenInv /\ [CsprngNext]_csprngVars => [FifoNext]_fifoVars
  BY CsprngNextIsEdge, DrivesFifo DEF csprngVars
<1>. QED  BY CsprngInvariant, <1>1, <1>2, PTL DEF FifoSpec

\* While the counter of the FIFO is exact, the generator's readers are given
\* every word of every stored keystream block once and in order.  The condition
\* is that of FifoIsWordQueue: the generator does bring about stores that meet
\* a release, and nothing is claimed from there to a discard both FSMs of
\* trng_csprng_fifo.v obey.
THEOREM GeneratorStreamsInOrder ==
    ASSUME NEW num_rounds \in 0 .. 31,
           NEW num_blocks_low \in 0 .. NUM_BLOCKS_HALF - 1,
           NEW num_blocks_high \in 0 .. NUM_BLOCKS_HALF - 1
    PROVE  CsprngInit(num_rounds, num_blocks_low, num_blocks_high)
             /\ [][CsprngNext]_csprngVars => StreamsInOrder
BY GeneratorDrivesFifo, FifoIsWordQueue
=============================================================================
