-------------------------- MODULE TrngCsprngFifo ---------------------------
(***************************************************************************)
(* The output FIFO of the random generator,                                *)
(* src/core/rng/trng/src/rtl/trng_csprng_fifo.v.  It buffers FIFO_MAX      *)
(* keystream blocks and hands them out as words.  A write FSM (wr_ctrl)    *)
(* asks the generator for blocks, a read FSM (rd_ctrl) offers words to the *)
(* API.  One step of the module is one rising edge of clk: both FSMs, the  *)
(* pointers and the counter are clocked together, and the module's inputs  *)
(* are the parameters of FifoClock.                                        *)
(*                                                                         *)
(* A block is an abstract value and a word is the pair of its block and    *)
(* its position, so a property can tell which word a reader was given.     *)
(***************************************************************************)
EXTENDS Integers, Sequences

CONSTANTS
    FIFO_MAX,   \* blocks in fifo_mem (4 in the code: 2 ** FIFO_ADDR_BITS)
    WORDS,      \* words per block (16 in the code: 512 / 32)
    Blocks,     \* block contents the cipher can produce
    ZeroBlock   \* contents of fifo_mem after reset

ASSUME FifoMaxAssumption == FIFO_MAX \in Nat \ {0}
ASSUME WordsAssumption   == WORDS \in Nat \ {0}

VARIABLES
    fifo_mem, mux_data_ptr_reg, rd_ptr_reg, wr_ptr_reg, fifo_ctr_reg,
    rnd_data_reg, rnd_syn_reg, rd_ctrl_reg, wr_ctrl_reg, more_data_reg,
    discarded,  \* history: discard was high in the cycle before
    exact       \* history: fifo_ctr_reg counts the undelivered blocks

fifoVars == <<fifo_mem, mux_data_ptr_reg, rd_ptr_reg, wr_ptr_reg, fifo_ctr_reg,
              rnd_data_reg, rnd_syn_reg, rd_ctrl_reg, wr_ctrl_reg,
              more_data_reg, discarded, exact>>

Slots   == 0 .. FIFO_MAX - 1
Indices == 0 .. WORDS - 1
AnyWord == (Blocks \cup {ZeroBlock}) \X Indices

FifoInit ==
    /\ fifo_mem = [s \in Slots |-> ZeroBlock]
    /\ mux_data_ptr_reg = 0
    /\ rd_ptr_reg = 0
    /\ wr_ptr_reg = 0
    /\ fifo_ctr_reg = 0
    /\ rnd_data_reg = <<ZeroBlock, 0>>
    /\ rnd_syn_reg = FALSE
    /\ more_data_reg = FALSE
    /\ wr_ctrl_reg = "WR_IDLE"
    /\ rd_ctrl_reg = "RD_IDLE"
    /\ discarded = FALSE
    /\ exact = TRUE

-----------------------------------------------------------------------------
(* Combinational logic: pointers, counter and the output mux.              *)

\* Mutant of NextSlot: the pointer does not wrap.
NextSlotUnwrapped(p) == p + 1

\* Pointer registers are exactly wide enough for their range and wrap.
NextSlot(p)  == IF p = FIFO_MAX - 1 THEN 0 ELSE p + 1

\* The counter has one bit more than the pointers: it counts modulo
\* 2 * FIFO_MAX.
CtrUp(c)   == IF c = 2 * FIFO_MAX - 1 THEN 0 ELSE c + 1
CtrDown(c) == IF c = 0 THEN 2 * FIFO_MAX - 1 ELSE c - 1

fifo_empty == fifo_ctr_reg = 0
fifo_full  == fifo_ctr_reg = FIFO_MAX

muxed_data == <<fifo_mem[rd_ptr_reg], mux_data_ptr_reg>>

\* A word is taken, and with its last word the block is released.
Takes(discard, ack)    == rd_ctrl_reg = "RD_ACK" /\ ~discard /\ ack
Releases(discard, ack) == Takes(discard, ack) /\ mux_data_ptr_reg = WORDS - 1

\* A block is accepted from the cipher.
Stores(valid) == wr_ctrl_reg = "WR_WAIT" /\ valid

\* The three requests are served in this order of assignment, so a release
\* overrides a store in the same cycle.
FifoCtr(valid, discard, ack) ==
    fifo_ctr_reg' = IF Releases(discard, ack) THEN CtrDown(fifo_ctr_reg)
                    ELSE IF Stores(valid) THEN CtrUp(fifo_ctr_reg)
                    ELSE IF wr_ctrl_reg = "WR_DISCARD" THEN 0
                    ELSE fifo_ctr_reg

-----------------------------------------------------------------------------
(* rd_ctrl: the FSM that offers words.  Each action sets rd_ctrl_reg,      *)
(* rnd_syn_reg, rd_ptr_reg and mux_data_ptr_reg.                           *)

RdEmpty(discard) ==
    /\ rd_ctrl_reg = "RD_IDLE"
    /\ ~discard
    /\ fifo_empty
    /\ UNCHANGED <<rd_ctrl_reg, rnd_syn_reg, rd_ptr_reg, mux_data_ptr_reg>>

\* Mutant of RdOffer: a word is offered without looking at fifo_empty.
RdOfferAlways(discard) ==
    /\ rd_ctrl_reg = "RD_IDLE"
    /\ ~discard
    /\ rnd_syn_reg' = TRUE
    /\ rd_ctrl_reg' = "RD_ACK"
    /\ UNCHANGED <<rd_ptr_reg, mux_data_ptr_reg>>

RdOffer(discard) ==
    /\ rd_ctrl_reg = "RD_IDLE"
    /\ ~discard
    /\ ~fifo_empty
    /\ rnd_syn_reg' = TRUE
    /\ rd_ctrl_reg' = "RD_ACK"
    /\ UNCHANGED <<rd_ptr_reg, mux_data_ptr_reg>>

RdHold(discard, ack) ==
    /\ rd_ctrl_reg = "RD_ACK"
    /\ ~discard
    /\ ~ack
    /\ UNCHANGED <<rd_ctrl_reg, rnd_syn_reg, rd_ptr_reg, mux_data_ptr_reg>>

RdTake(discard, ack) ==
    /\ Takes(discard, ack)
    /\ rnd_syn_reg' = FALSE
    /\ rd_ctrl_reg' = "RD_IDLE"
    /\ IF Releases(discard, ack)
         THEN /\ rd_ptr_reg' = NextSlot(rd_ptr_reg)
              /\ mux_data_ptr_reg' = 0
         ELSE /\ mux_data_ptr_reg' = mux_data_ptr_reg + 1
              /\ UNCHANGED rd_ptr_reg

\* The offer stays visible (rnd_syn_reg) for the cycle spent in RD_DISCARD.
RdObeyDiscard(discard) ==
    /\ rd_ctrl_reg \in {"RD_IDLE", "RD_ACK"}
    /\ discard
    /\ rd_ctrl_reg' = "RD_DISCARD"
    /\ UNCHANGED <<rnd_syn_reg, rd_ptr_reg, mux_data_ptr_reg>>

\* Mutant of RdDiscard: the read pointer is not reset.
RdDiscardKeepsPtr ==
    /\ rd_ctrl_reg = "RD_DISCARD"
    /\ rnd_syn_reg' = FALSE
    /\ rd_ctrl_reg' = "RD_IDLE"
    /\ UNCHANGED <<rd_ptr_reg, mux_data_ptr_reg>>

\* The word selector mux_data_ptr_reg is not reset.
RdDiscard ==
    /\ rd_ctrl_reg = "RD_DISCARD"
    /\ rnd_syn_reg' = FALSE
    /\ rd_ptr_reg' = 0
    /\ rd_ctrl_reg' = "RD_IDLE"
    /\ UNCHANGED mux_data_ptr_reg

RdCtrl(discard, ack) ==
    \/ RdEmpty(discard)
    \/ RdOffer(discard)
    \/ RdHold(discard, ack)
    \/ RdTake(discard, ack)
    \/ RdObeyDiscard(discard)
    \/ RdDiscard

-----------------------------------------------------------------------------
(* wr_ctrl: the FSM that asks for blocks and stores them.  Each action     *)
(* sets wr_ctrl_reg, more_data_reg, wr_ptr_reg and fifo_mem.               *)

WrRequest(discard) ==
    /\ wr_ctrl_reg = "WR_IDLE"
    /\ ~discard
    /\ ~fifo_full
    /\ more_data_reg' = TRUE
    /\ wr_ctrl_reg' = "WR_WAIT"
    /\ UNCHANGED <<wr_ptr_reg, fifo_mem>>

WrFull(discard) ==
    /\ wr_ctrl_reg = "WR_IDLE"
    /\ ~discard
    /\ fifo_full
    /\ more_data_reg' = FALSE
    /\ UNCHANGED <<wr_ctrl_reg, wr_ptr_reg, fifo_mem>>

WrObeyDiscard(discard) ==
    /\ wr_ctrl_reg = "WR_IDLE"
    /\ discard
    /\ wr_ctrl_reg' = "WR_DISCARD"
    /\ UNCHANGED <<more_data_reg, wr_ptr_reg, fifo_mem>>

\* A discard that finds the FSM waiting for a block goes unnoticed.
WrHold(valid) ==
    /\ wr_ctrl_reg = "WR_WAIT"
    /\ ~valid
    /\ UNCHANGED <<wr_ctrl_reg, more_data_reg, wr_ptr_reg, fifo_mem>>

WrStore(data, valid) ==
    /\ Stores(valid)
    /\ fifo_mem' = [fifo_mem EXCEPT ![wr_ptr_reg] = data]
    /\ wr_ptr_reg' = NextSlot(wr_ptr_reg)
    /\ wr_ctrl_reg' = "WR_NEXT"
    /\ UNCHANGED more_data_reg

WrNext ==
    /\ wr_ctrl_reg = "WR_NEXT"
    /\ more_data_reg' = FALSE
    /\ wr_ctrl_reg' = "WR_IDLE"
    /\ UNCHANGED <<wr_ptr_reg, fifo_mem>>

\* fifo_ctr_reg is cleared in the same cycle, see FifoCtr.
WrDiscard ==
    /\ wr_ctrl_reg = "WR_DISCARD"
    /\ wr_ptr_reg' = 0
    /\ wr_ctrl_reg' = "WR_IDLE"
    /\ UNCHANGED <<more_data_reg, fifo_mem>>

WrCtrl(data, valid, discard) ==
    \/ WrRequest(discard)
    \/ WrFull(discard)
    \/ WrObeyDiscard(discard)
    \/ WrHold(valid)
    \/ WrStore(data, valid)
    \/ WrNext
    \/ WrDiscard

-----------------------------------------------------------------------------
(* The history variables.  The count goes wrong when a block is stored in  *)
(* the cycle in which another one is released, or when a discard finds the *)
(* write FSM outside WR_IDLE and only the read side obeys it; a discard    *)
(* that both sides obey empties the FIFO and makes the count right again.  *)
History(valid, discard, ack) ==
    /\ discarded' = discard
    /\ exact' = IF discard THEN wr_ctrl_reg = "WR_IDLE"
                ELSE exact /\ ~(Stores(valid) /\ Releases(discard, ack))

\* One rising edge of clk.
FifoClock(data, valid, discard, ack) ==
    /\ RdCtrl(discard, ack)
    /\ WrCtrl(data, valid, discard)
    /\ FifoCtr(valid, discard, ack)
    /\ rnd_data_reg' = muxed_data
    /\ History(valid, discard, ack)

(* What the FIFO assumes of the generator that drives it: the strobe of a  *)
(* new block and a discard exclude each other, and a discard lasts one     *)
(* cycle.  Acknowledgements may come at any time: they follow the reads of *)
(* the API and the debug port.                                             *)
GeneratorProtocol(valid, discard) == discard => ~valid /\ ~discarded

FifoNext ==
    \E data \in Blocks, valid, discard, ack \in BOOLEAN :
        /\ GeneratorProtocol(valid, discard)
        /\ FifoClock(data, valid, discard, ack)

FifoSpec == FifoInit /\ [][FifoNext]_fifoVars

-----------------------------------------------------------------------------
(* Properties.                                                             *)

\* Every register of the FIFO stays within its range.
FifoTypeOK ==
    /\ fifo_mem \in [Slots -> Blocks \cup {ZeroBlock}]
    /\ mux_data_ptr_reg \in Indices
    /\ rd_ptr_reg \in Slots
    /\ wr_ptr_reg \in Slots
    /\ fifo_ctr_reg \in 0 .. 2 * FIFO_MAX - 1
    /\ rnd_data_reg \in AnyWord
    /\ rnd_syn_reg \in BOOLEAN
    /\ more_data_reg \in BOOLEAN
    /\ rd_ctrl_reg \in {"RD_IDLE", "RD_ACK", "RD_DISCARD"}
    /\ wr_ctrl_reg \in {"WR_IDLE", "WR_WAIT", "WR_NEXT", "WR_DISCARD"}
    /\ discarded \in BOOLEAN
    /\ exact \in BOOLEAN

\* However reads, blocks and discards interleave, the counter never wraps:
\* a word is on offer only while the counter says a block is held, and a
\* block is awaited only while it says a slot is free (rd_ctrl, wr_ctrl and
\* fifo_ctr decide in the same cycle from the same counter value).
CounterNeverWraps ==
    /\ fifo_ctr_reg <= FIFO_MAX
    /\ rd_ctrl_reg = "RD_ACK" => fifo_ctr_reg > 0
    /\ wr_ctrl_reg = "WR_WAIT" => fifo_ctr_reg < FIFO_MAX

\* The blocks that still have words to give, oldest first.
HeldBlocks ==
    IF wr_ctrl_reg = "WR_DISCARD" THEN <<>>
    ELSE [i \in 1 .. fifo_ctr_reg |-> fifo_mem[(rd_ptr_reg + i - 1) % FIFO_MAX]]

NoWord == <<>>

Stream == INSTANCE WordQueue WITH
    Depth <- FIFO_MAX,
    queue <- HeldBlocks,
    taken <- mux_data_ptr_reg,
    offer <- IF rd_ctrl_reg = "RD_ACK" THEN rnd_data_reg ELSE NoWord

\* As long as the counter is exact, the FIFO is a word queue: it hands out
\* every word of every block it stored, once and in order, and an offered word
\* does not change until it is taken or discarded.  Steps that leave exact
\* false, or find it so and do not mend it, may do anything: those from a
\* store that meets a release (the decrement hides the increment,
\* trng_csprng_fifo.v:328) or a discard that finds the write FSM outside
\* WR_IDLE, until the next discard that both FSMs obey.
StreamsInOrder ==
    Stream!Init /\ [][exact' => [Stream!Next]_(Stream!vars)]_fifoVars
=============================================================================
