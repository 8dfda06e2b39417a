----------------------- MODULE TrngCsprngFifoProofs ------------------------
(***************************************************************************)
(* Invariance proofs for the output FIFO, and the proof that it implements *)
(* the word queue, for every number of blocks and every block length.      *)
(*                                                                         *)
(* FifoTypeOK /\ CounterNeverWraps is not inductive: the counter is also   *)
(* cleared, by the write FSM, and a word on offer at that moment would be  *)
(* left without its block.  What prevents it is that both FSMs enter their *)
(* discard states together: a discard that the write FSM obeys finds the   *)
(* read FSM outside RD_DISCARD, because it lasts one cycle.                *)
(*                                                                         *)
(* The queue needs more: that the slot written next is the one behind the  *)
(* blocks held (OrderInv), so that a block on its way in never touches one *)
(* on its way out.  That is true while the counter is right, and the       *)
(* arithmetic modulo the number of slots is stated once, in SlotOffset,    *)
(* NextSlotOffset and OffsetsDiffer.                                       *)
(***************************************************************************)
EXTENDS TrngCsprngFifo, SequenceTheorems, TLAPS

\* The read FSM is in RD_DISCARD only in the cycle after a discard, and the
\* write FSM is in WR_DISCARD only together with it.
DiscardTogether ==
    /\ rd_ctrl_reg = "RD_DISCARD" => discarded
    /\ wr_ctrl_reg = "WR_DISCARD" => rd_ctrl_reg = "RD_DISCARD"

FifoInv == FifoTypeOK /\ CounterNeverWraps /\ DiscardTogether

-----------------------------------------------------------------------------
\* The pointers stay within fifo_mem.
LEMMA NextSlotInSlots ==
    ASSUME NEW p \in Slots
    PROVE  NextSlot(p) \in Slots
BY FifoMaxAssumption DEF NextSlot, Slots

\* One cycle changes the counter by at most one or clears it, and it goes
\* down only from a positive and up only from a value below FIFO_MAX.
LEMMA CounterStep ==
    ASSUME FifoInv,
           NEW valid \in BOOLEAN, NEW discard \in BOOLEAN, NEW ack \in BOOLEAN,
           FifoCtr(valid, discard, ack)
    PROVE  /\ fifo_ctr_reg' \in 0 .. FIFO_MAX
           /\ Releases(discard, ack) => fifo_ctr_reg' = fifo_ctr_reg - 1
           /\ fifo_ctr_reg' < fifo_ctr_reg =>
                \/ Releases(discard, ack)
                \/ wr_ctrl_reg = "WR_DISCARD"
           /\ fifo_ctr_reg' > fifo_ctr_reg => Stores(valid)
<1>1. fifo_ctr_reg \in 0 .. FIFO_MAX /\ FIFO_MAX \in Nat \ {0}
  BY FifoMaxAssumption DEF FifoInv, FifoTypeOK, CounterNeverWraps
<1>2. Releases(discard, ack) => fifo_ctr_reg > 0
  BY DEF Releases, Takes, FifoInv, CounterNeverWraps
<1>3. Stores(valid) => fifo_ctr_reg < FIFO_MAX
  BY DEF Stores, FifoInv, CounterNeverWraps
<1>. QED
  BY <1>1, <1>2, <1>3 DEF FifoCtr, CtrUp, CtrDown

-----------------------------------------------------------------------------
\* Reset establishes the invariant.
LEMMA InitInv == FifoInit => FifoInv
<1>. SUFFICES ASSUME FifoInit PROVE FifoInv
  OBVIOUS
<1>1. 0 \in Slots /\ 0 \in Indices /\ 0 \in 0 .. 2 * FIFO_MAX - 1
  BY FifoMaxAssumption, WordsAssumption DEF Slots, Indices
<1>2. fifo_mem \in [Slots -> Blocks \cup {ZeroBlock}]
  BY DEF FifoInit
<1>3. rnd_data_reg \in AnyWord
  BY <1>1 DEF FifoInit, AnyWord
<1>4. FifoTypeOK
  BY <1>1, <1>2, <1>3 DEF FifoInit, FifoTypeOK
<1>5. CounterNeverWraps /\ DiscardTogether
  BY FifoMaxAssumption DEF FifoInit, CounterNeverWraps, DiscardTogether
<1>. QED  BY <1>4, <1>5 DEF FifoInv

\* The read FSM keeps its registers in range.
LEMMA ReadSideType ==
    ASSUME FifoInv, NEW discard \in BOOLEAN, NEW ack \in BOOLEAN,
           RdCtrl(discard, ack)
    PROVE  /\ mux_data_ptr_reg' \in Indices
           /\ rd_ptr_reg' \in Slots
           /\ rnd_syn_reg' \in BOOLEAN
           /\ rd_ctrl_reg' \in {"RD_IDLE", "RD_ACK", "RD_DISCARD"}
<1>0. /\ mux_data_ptr_reg \in Indices
      /\ rd_ptr_reg \in Slots
      /\ rnd_syn_reg \in BOOLEAN
      /\ rd_ctrl_reg \in {"RD_IDLE", "RD_ACK", "RD_DISCARD"}
  BY DEF FifoInv, FifoTypeOK
<1>1. CASE RdEmpty(discard)
  BY <1>0, <1>1 DEF RdEmpty
<1>2. CASE RdOffer(discard)
  BY <1>0, <1>2 DEF RdOffer
<1>3. CASE RdHold(discard, ack)
  BY <1>0, <1>3 DEF RdHold
<1>4. CASE RdTake(discard, ack)
  <2>1. CASE Releases(discard, ack)
    <3>1. /\ rnd_syn_reg' = FALSE
          /\ rd_ctrl_reg' = "RD_IDLE"
          /\ rd_ptr_reg' = NextSlot(rd_ptr_reg)
          /\ mux_data_ptr_reg' = 0
      BY <1>4, <2>1 DEF RdTake
    <3>2. 0 \in Indices
      BY WordsAssumption DEF Indices
    <3>. QED  BY <1>0, <3>1, <3>2, NextSlotInSlots
  <2>2. CASE ~Releases(discard, ack)
    <3>1. mux_data_ptr_reg # WORDS - 1
      BY <1>4, <2>2 DEF RdTake, Releases
    <3>2. mux_data_ptr_reg + 1 \in Indices
      BY <1>0, <3>1, WordsAssumption DEF Indices
    <3>3. /\ rnd_syn_reg' = FALSE
          /\ rd_ctrl_reg' = "RD_IDLE"
          /\ rd_ptr_reg' = rd_ptr_reg
          /\ mux_data_ptr_reg' = mux_data_ptr_reg + 1
      BY <1>4, <2>2 DEF RdTake
    <3>. QED  BY <1>0, <3>2, <3>3
  <2>. QED  BY <2>1, <2>2
<1>5. CASE RdObeyDiscard(discard)
  BY <1>0, <1>5 DEF RdObeyDiscard
<1>6. CASE RdDiscard
  <2>1. 0 \in Slots
    BY FifoMaxAssumption DEF Slots
  <2>. QED  BY <1>0, <1>6, <2>1 DEF RdDiscard
<1>. QED  BY <1>1, <1>2, <1>3, <1>4, <1>5, <1>6 DEF RdCtrl

\* The write FSM keeps its registers, and the block memory, in range.
LEMMA WriteSideType ==
    ASSUME FifoInv, NEW data \in Blocks, NEW valid \in BOOLEAN,
           NEW discard \in BOOLEAN, WrCtrl(data, valid, discard)
    PROVE  /\ fifo_mem' \in [Slots -> Blocks \cup {ZeroBlock}]
           /\ wr_ptr_reg' \in Slots
           /\ more_data_reg' \in BOOLEAN
           /\ wr_ctrl_reg' \in {"WR_IDLE", "WR_WAIT", "WR_NEXT", "WR_DISCARD"}
<1>0. /\ fifo_mem \in [Slots -> Blocks \cup {ZeroBlock}]
      /\ wr_ptr_reg \in Slots
      /\ more_data_reg \in BOOLEAN
      /\ wr_ctrl_reg \in {"WR_IDLE", "WR_WAIT", "WR_NEXT", "WR_DISCARD"}
  BY DEF FifoInv, FifoTypeOK
<1>1. CASE WrRequest(discard)
  BY <1>0, <1>1 DEF WrRequest
<1>2. CASE WrFull(discard)
  BY <1>0, <1>2 DEF WrFull
<1>3. CASE WrObeyDiscard(discard)
  BY <1>0, <1>3 DEF WrObeyDiscard
<1>4. CASE WrHold(valid)
  BY <1>0, <1>4 DEF WrHold
<1>5. CASE WrStore(data, valid)
  BY <1>0, <1>5, NextSlotInSlots DEF WrStore
<1>6. CASE WrNext
  BY <1>0, <1>6 DEF WrNext
<1>7. CASE WrDiscard
  BY <1>0, <1>7, FifoMaxAssumption DEF WrDiscard, Slots
<1>. QED  BY <1>1, <1>2, <1>3, <1>4, <1>5, <1>6, <1>7 DEF WrCtrl

\* One cycle keeps every register in range.
LEMMA TypeStep ==
    ASSUME FifoInv, FifoNext
    PROVE  FifoTypeOK'
<1>1. PICK data \in Blocks, valid \in BOOLEAN, discard \in BOOLEAN, ack \in BOOLEAN :
        FifoClock(data, valid, discard, ack)
  BY DEF FifoNext
<1>2. /\ mux_data_ptr_reg' \in Indices
      /\ rd_ptr_reg' \in Slots
      /\ rnd_syn_reg' \in BOOLEAN
      /\ rd_ctrl_reg' \in {"RD_IDLE", "RD_ACK", "RD_DISCARD"}
  BY <1>1, ReadSideType DEF FifoClock
<1>3. /\ fifo_mem' \in [Slots -> Blocks \cup {ZeroBlock}]
      /\ wr_ptr_reg' \in Slots
      /\ more_data_reg' \in BOOLEAN
      /\ wr_ctrl_reg' \in {"WR_IDLE", "WR_WAIT", "WR_NEXT", "WR_DISCARD"}
  BY <1>1, WriteSideType DEF FifoClock
<1>4. fifo_ctr_reg' \in 0 .. 2 * FIFO_MAX - 1
  <2>1. fifo_ctr_reg' \in 0 .. FIFO_MAX
    BY <1>1, CounterStep DEF FifoClock
  <2>. QED  BY <2>1, FifoMaxAssumption
<1>5. rnd_data_reg' \in AnyWord
  BY <1>1 DEF FifoClock, muxed_data, AnyWord, FifoInv, FifoTypeOK
<1>6. discarded' \in BOOLEAN
  BY <1>1 DEF FifoClock, History
<1>7. exact' \in BOOLEAN
  BY <1>1 DEF FifoClock, History, FifoInv, FifoTypeOK
<1>. QED  BY <1>2, <1>3, <1>4, <1>5, <1>6, <1>7 DEF FifoTypeOK

\* The two FSMs enter their discard states together.
LEMMA DiscardStep ==
    ASSUME FifoInv, FifoNext
    PROVE  DiscardTogether'
<1>1. PICK data \in Blocks, valid \in BOOLEAN, discard \in BOOLEAN, ack \in BOOLEAN :
        /\ GeneratorProtocol(valid, discard)
        /\ FifoClock(data, valid, discard, ack)
  BY DEF FifoNext
<1>2. rd_ctrl_reg' = "RD_DISCARD" => discarded'
  BY <1>1 DEF FifoClock, History, RdCtrl, RdEmpty, RdOffer, RdHold, RdTake, Takes,
              RdObeyDiscard, RdDiscard
<1>3. wr_ctrl_reg' = "WR_DISCARD" => discard /\ wr_ctrl_reg = "WR_IDLE"
  BY <1>1 DEF FifoClock, WrCtrl, WrRequest, WrFull, WrObeyDiscard, WrHold, WrStore,
              Stores, WrNext, WrDiscard
<1>4. discard => rd_ctrl_reg' = "RD_DISCARD"
  <2>1. discard => rd_ctrl_reg # "RD_DISCARD"
    BY <1>1 DEF GeneratorProtocol, FifoInv, DiscardTogether
  <2>. QED
    BY <1>1, <2>1 DEF FifoClock, RdCtrl, RdEmpty, RdOffer, RdHold, RdTake, Takes,
                      RdObeyDiscard, RdDiscard
<1>. QED  BY <1>2, <1>3, <1>4 DEF DiscardTogether

\* What the two FSMs rely on when they act on the counter stays true.
LEMMA CounterInvStep ==
    ASSUME FifoInv, FifoNext
    PROVE  CounterNeverWraps'
<1>1. PICK data \in Blocks, valid \in BOOLEAN, discard \in BOOLEAN, ack \in BOOLEAN :
        /\ GeneratorProtocol(valid, discard)
        /\ FifoClock(data, valid, discard, ack)
  BY DEF FifoNext
<1>2. /\ fifo_ctr_reg' \in 0 .. FIFO_MAX
      /\ fifo_ctr_reg' < fifo_ctr_reg =>
           Releases(discard, ack) \/ wr_ctrl_reg = "WR_DISCARD"
      /\ fifo_ctr_reg' > fifo_ctr_reg => Stores(valid)
  BY <1>1, CounterStep DEF FifoClock
<1>3. fifo_ctr_reg \in 0 .. FIFO_MAX /\ FIFO_MAX \in Nat \ {0}
  BY FifoMaxAssumption DEF FifoInv, FifoTypeOK, CounterNeverWraps
<1>4. ASSUME rd_ctrl_reg' = "RD_ACK"
      PROVE  fifo_ctr_reg' > 0
  \* A word on offer is either new or held; neither releases a block.
  <2>1. RdOffer(discard) \/ RdHold(discard, ack)
    BY <1>1, <1>4 DEF FifoClock, RdCtrl, RdEmpty, RdTake, Takes, RdObeyDiscard, RdDiscard
  <2>2. fifo_ctr_reg > 0
    BY <2>1, <1>3 DEF RdOffer, RdHold, fifo_empty, FifoInv, CounterNeverWraps
  <2>3. ~Releases(discard, ack)
    BY <2>1 DEF RdOffer, RdHold, Releases, Takes
  <2>4. wr_ctrl_reg # "WR_DISCARD"
    BY <2>1 DEF RdOffer, RdHold, FifoInv, DiscardTogether
  <2>. QED  BY <1>2, <1>3, <2>2, <2>3, <2>4
<1>5. ASSUME wr_ctrl_reg' = "WR_WAIT"
      PROVE  fifo_ctr_reg' < FIFO_MAX
  \* A block is asked for or still awaited; neither stores one.
  <2>1. WrRequest(discard) \/ WrHold(valid)
    BY <1>1, <1>5 DEF FifoClock, WrCtrl, WrFull, WrObeyDiscard, WrStore, WrNext, WrDiscard
  <2>2. fifo_ctr_reg < FIFO_MAX
    BY <2>1, <1>3 DEF WrRequest, WrHold, fifo_full, FifoInv, CounterNeverWraps
  <2>3. ~Stores(valid)
    BY <2>1 DEF WrRequest, WrHold, Stores
  <2>. QED  BY <1>2, <1>3, <2>2, <2>3
<1>. QED  BY <1>2, <1>3, <1>4, <1>5 DEF CounterNeverWraps

\* A cycle in which nothing changes keeps the invariant.
LEMMA StutterStep ==
    ASSUME FifoInv, UNCHANGED fifoVars
    PROVE  FifoInv'
BY DEF fifoVars, FifoInv, FifoTypeOK, CounterNeverWraps, DiscardTogether

-----------------------------------------------------------------------------
\* The inductive invariant holds in every state of the FIFO.
THEOREM FifoInvariant == FifoSpec => []FifoInv
<1>1. FifoInv /\ [FifoNext]_fifoVars => FifoInv'
  BY TypeStep, CounterInvStep, DiscardStep, StutterStep DEF FifoInv
<1>. QED  BY InitInv, <1>1, PTL DEF FifoSpec

\* Every register of trng_csprng_fifo.v stays within its range, for every size
\* of the memory and of a block.
THEOREM FifoTypeCorrect == FifoSpec => []FifoTypeOK
<1>1. FifoInv => FifoTypeOK
  BY DEF FifoInv
<1>. QED  BY FifoInvariant, <1>1, PTL

\* The block counter of trng_csprng_fifo.v neither underflows nor exceeds the
\* number of slots, and its two FSMs never act on a count that another one is
\* about to make wrong.
THEOREM CounterCorrect == FifoSpec => []CounterNeverWraps
<1>1. FifoInv => CounterNeverWraps
  BY DEF FifoInv
<1>. QED  BY FifoInvariant, <1>1, PTL

-----------------------------------------------------------------------------
(* The FIFO implements the word queue while its counter is right.          *)

\* As long as the count is right, the slot that is written next lies
\* fifo_ctr_reg blocks behind the one that is read, both FSMs sit in their
\* discard states together, and the word in the output register is the one
\* the multiplexer selects.
OrderInv ==
    exact => /\ rd_ctrl_reg = "RD_DISCARD" => wr_ctrl_reg = "WR_DISCARD"
             /\ \/ wr_ctrl_reg = "WR_DISCARD"
                \/ wr_ptr_reg = (rd_ptr_reg + fifo_ctr_reg) % FIFO_MAX
             /\ rd_ctrl_reg = "RD_ACK" => rnd_data_reg = muxed_data

-----------------------------------------------------------------------------
\* Pointer arithmetic modulo the number of slots, without the division.
LEMMA SlotOffset ==
    ASSUME NEW p \in Slots, NEW k \in 0 .. FIFO_MAX
    PROVE  /\ (p + k) % FIFO_MAX = IF p + k < FIFO_MAX THEN p + k ELSE p + k - FIFO_MAX
           /\ (p + k) % FIFO_MAX \in Slots
<1>1. FIFO_MAX \in Nat \ {0} /\ p \in 0 .. FIFO_MAX - 1
  BY FifoMaxAssumption DEF Slots
<1>2. CASE p + k < FIFO_MAX
  BY <1>1, <1>2 DEF Slots
<1>3. CASE p + k >= FIFO_MAX
  <2>1. (p + k) % FIFO_MAX = p + k - FIFO_MAX
    BY <1>1, <1>3
  <2>. QED  BY <1>1, <1>3, <2>1 DEF Slots
<1>. QED  BY <1>1, <1>2, <1>3

\* NextSlot advances by one modulo the number of slots.
LEMMA NextSlotOffset ==
    ASSUME NEW p \in Slots, NEW k \in 0 .. FIFO_MAX - 1
    PROVE  /\ (NextSlot(p) + k) % FIFO_MAX = (p + (k + 1)) % FIFO_MAX
           /\ NextSlot((p + k) % FIFO_MAX) = (p + (k + 1)) % FIFO_MAX
<1>1. FIFO_MAX \in Nat \ {0} /\ p \in 0 .. FIFO_MAX - 1 /\ NextSlot(p) \in 0 .. FIFO_MAX - 1
  BY FifoMaxAssumption, NextSlotInSlots DEF Slots
<1>2. k \in 0 .. FIFO_MAX /\ k + 1 \in 0 .. FIFO_MAX
  BY <1>1
<1>3. (p + (k + 1)) % FIFO_MAX
        = IF p + (k + 1) < FIFO_MAX THEN p + (k + 1) ELSE p + (k + 1) - FIFO_MAX
  BY <1>2, SlotOffset
<1>4. (p + k) % FIFO_MAX = IF p + k < FIFO_MAX THEN p + k ELSE p + k - FIFO_MAX
  BY <1>2, SlotOffset
<1>5. (NextSlot(p) + k) % FIFO_MAX
        = IF NextSlot(p) + k < FIFO_MAX THEN NextSlot(p) + k ELSE NextSlot(p) + k - FIFO_MAX
  BY <1>2, NextSlotInSlots, SlotOffset
<1>. QED  BY <1>1, <1>3, <1>4, <1>5 DEF NextSlot

\* Different offsets below the number of slots are different slots.
LEMMA OffsetsDiffer ==
    ASSUME NEW p \in Slots, NEW k \in 0 .. FIFO_MAX - 1, NEW l \in 0 .. FIFO_MAX - 1,
           k # l
    PROVE  (p + k) % FIFO_MAX # (p + l) % FIFO_MAX
<1>1. FIFO_MAX \in Nat \ {0} /\ p \in 0 .. FIFO_MAX - 1
  BY FifoMaxAssumption DEF Slots
<1>2. k \in 0 .. FIFO_MAX /\ l \in 0 .. FIFO_MAX
  BY <1>1
<1>3. (p + k) % FIFO_MAX = IF p + k < FIFO_MAX THEN p + k ELSE p + k - FIFO_MAX
  BY <1>2, SlotOffset
<1>4. (p + l) % FIFO_MAX = IF p + l < FIFO_MAX THEN p + l ELSE p + l - FIFO_MAX
  BY <1>2, SlotOffset
<1>. QED  BY <1>1, <1>3, <1>4

\* The slot that receives a block is not one of those that hold a block.
LEMMA StoreMissesHeld ==
    ASSUME FifoInv, wr_ctrl_reg = "WR_WAIT",
           wr_ptr_reg = (rd_ptr_reg + fifo_ctr_reg) % FIFO_MAX,
           NEW k \in 0 .. fifo_ctr_reg - 1
    PROVE  (rd_ptr_reg + k) % FIFO_MAX # wr_ptr_reg
<1>1. fifo_ctr_reg \in 0 .. FIFO_MAX - 1 /\ k \in 0 .. FIFO_MAX - 1
        /\ k # fifo_ctr_reg /\ rd_ptr_reg \in Slots
  BY FifoMaxAssumption DEF FifoInv, FifoTypeOK, CounterNeverWraps
<1>. QED  BY <1>1, OffsetsDiffer

-----------------------------------------------------------------------------
\* One rising edge of clk, with inputs that the generator may present.
Edge(data, valid, discard, ack) ==
    /\ data \in Blocks /\ valid \in BOOLEAN /\ discard \in BOOLEAN /\ ack \in BOOLEAN
    /\ GeneratorProtocol(valid, discard)
    /\ FifoClock(data, valid, discard, ack)

\* A discard that leaves the count right is obeyed by both FSMs.
LEMMA DiscardObeyed ==
    ASSUME FifoInv, NEW data, NEW valid, NEW discard, NEW ack,
           Edge(data, valid, discard, ack), discard, exact'
    PROVE  /\ wr_ctrl_reg' = "WR_DISCARD" /\ rd_ctrl_reg' = "RD_DISCARD"
           /\ mux_data_ptr_reg' = mux_data_ptr_reg
<1>1. wr_ctrl_reg = "WR_IDLE" /\ rd_ctrl_reg \in {"RD_IDLE", "RD_ACK"}
  BY DEF Edge, FifoClock, History, GeneratorProtocol, FifoInv, FifoTypeOK, DiscardTogether
<1>2. WrObeyDiscard(discard)
  BY <1>1 DEF Edge, FifoClock, WrCtrl, WrRequest, WrFull, WrObeyDiscard, WrHold, WrStore,
              Stores, WrNext, WrDiscard
<1>3. RdObeyDiscard(discard)
  BY <1>1 DEF Edge, FifoClock, RdCtrl, RdEmpty, RdOffer, RdHold, RdTake, Takes,
              RdObeyDiscard, RdDiscard
<1>. QED  BY <1>2, <1>3 DEF WrObeyDiscard, RdObeyDiscard

\* The cycle after it empties the FIFO.
LEMMA DiscardDone ==
    ASSUME FifoInv, NEW data, NEW valid, NEW discard, NEW ack,
           Edge(data, valid, discard, ack), wr_ctrl_reg = "WR_DISCARD"
    PROVE  /\ ~discard /\ rd_ctrl_reg = "RD_DISCARD"
           /\ wr_ctrl_reg' = "WR_IDLE" /\ rd_ctrl_reg' = "RD_IDLE"
           /\ wr_ptr_reg' = 0 /\ rd_ptr_reg' = 0 /\ fifo_ctr_reg' = 0
           /\ mux_data_ptr_reg' = mux_data_ptr_reg
<1>1. ~discard /\ rd_ctrl_reg = "RD_DISCARD"
  BY DEF Edge, GeneratorProtocol, FifoInv, DiscardTogether
<1>2. WrDiscard
  BY DEF Edge, FifoClock, WrCtrl, WrRequest, WrFull, WrObeyDiscard, WrHold, WrStore,
         Stores, WrNext
<1>3. RdDiscard
  BY <1>1 DEF Edge, FifoClock, RdCtrl, RdEmpty, RdOffer, RdHold, RdTake, Takes,
              RdObeyDiscard
<1>4. fifo_ctr_reg' = 0
  BY <1>1 DEF Edge, FifoClock, FifoCtr, Releases, Takes, Stores
<1>. QED  BY <1>1, <1>2, <1>3, <1>4 DEF WrDiscard, RdDiscard

\* While the count stays right and nothing is discarded, the write side stores
\* a block behind the ones held, or leaves memory and pointer alone.
LEMMA WriteSide ==
    ASSUME FifoInv, NEW data, NEW valid, NEW discard, NEW ack,
           Edge(data, valid, discard, ack), ~discard, wr_ctrl_reg # "WR_DISCARD"
    PROVE  /\ Stores(valid) => /\ fifo_mem' = [fifo_mem EXCEPT ![wr_ptr_reg] = data]
                               /\ wr_ptr_reg' = NextSlot(wr_ptr_reg)
           /\ ~Stores(valid) => UNCHANGED <<fifo_mem, wr_ptr_reg>>
           /\ wr_ctrl_reg' # "WR_DISCARD"
<1>1. CASE WrRequest(discard)
  BY <1>1 DEF WrRequest, Stores
<1>2. CASE WrFull(discard)
  BY <1>2 DEF WrFull, Stores
<1>3. CASE WrHold(valid)
  BY <1>3 DEF WrHold, Stores
<1>4. CASE WrStore(data, valid)
  BY <1>4 DEF WrStore, Stores
<1>5. CASE WrNext
  BY <1>5 DEF WrNext, Stores
<1>. QED
  BY <1>1, <1>2, <1>3, <1>4, <1>5
  DEF Edge, FifoClock, WrCtrl, WrObeyDiscard, WrDiscard

\* The count goes down with a release, up with a store, and stays otherwise.
LEMMA CountSteps ==
    ASSUME FifoInv, NEW data, NEW valid, NEW discard, NEW ack,
           Edge(data, valid, discard, ack), ~discard, exact', wr_ctrl_reg # "WR_DISCARD"
    PROVE  /\ exact
           /\ ~(Stores(valid) /\ Releases(discard, ack))
           /\ fifo_ctr_reg' = IF Releases(discard, ack) THEN fifo_ctr_reg - 1
                              ELSE IF Stores(valid) THEN fifo_ctr_reg + 1
                              ELSE fifo_ctr_reg
           /\ fifo_ctr_reg \in 0 .. FIFO_MAX /\ fifo_ctr_reg' \in 0 .. FIFO_MAX
           /\ Releases(discard, ack) => fifo_ctr_reg > 0
           /\ Stores(valid) => fifo_ctr_reg < FIFO_MAX
<1>1. exact /\ ~(Stores(valid) /\ Releases(discard, ack))
  BY DEF Edge, FifoClock, History
<1>2. FifoCtr(valid, discard, ack)
  BY DEF Edge, FifoClock
<1>3. fifo_ctr_reg \in 0 .. FIFO_MAX /\ FIFO_MAX \in Nat \ {0}
  BY FifoMaxAssumption DEF FifoInv, FifoTypeOK, CounterNeverWraps
<1>4. Releases(discard, ack) => fifo_ctr_reg > 0
  BY DEF Releases, Takes, FifoInv, CounterNeverWraps
<1>5. Stores(valid) => fifo_ctr_reg < FIFO_MAX
  BY DEF Stores, FifoInv, CounterNeverWraps
<1>. QED  BY <1>1, <1>2, <1>3, <1>4, <1>5 DEF FifoCtr, CtrUp, CtrDown

\* The read pointer follows the releases.
LEMMA ReadPointerSteps ==
    ASSUME FifoInv, NEW data, NEW valid, NEW discard, NEW ack,
           Edge(data, valid, discard, ack), ~discard, rd_ctrl_reg # "RD_DISCARD"
    PROVE  /\ rd_ptr_reg' = IF Releases(discard, ack) THEN NextSlot(rd_ptr_reg)
                            ELSE rd_ptr_reg
           /\ rd_ctrl_reg' # "RD_DISCARD"
<1>1. CASE RdEmpty(discard)
  BY <1>1 DEF RdEmpty, Releases, Takes
<1>2. CASE RdOffer(discard)
  BY <1>2 DEF RdOffer, Releases, Takes
<1>3. CASE RdHold(discard, ack)
  BY <1>3 DEF RdHold, Releases, Takes
<1>4. CASE RdTake(discard, ack)
  BY <1>4 DEF RdTake
<1>. QED
  BY <1>1, <1>2, <1>3, <1>4 DEF Edge, FifoClock, RdCtrl, RdObeyDiscard, RdDiscard

\* A word on offer is the one the multiplexer selects, also while a block is
\* being stored.
LEMMA OfferedWordStays ==
    ASSUME FifoInv, OrderInv, NEW data, NEW valid, NEW discard, NEW ack,
           Edge(data, valid, discard, ack), exact', rd_ctrl_reg' = "RD_ACK"
    PROVE  rnd_data_reg' = muxed_data /\ muxed_data' = muxed_data
<1>1. RdOffer(discard) \/ RdHold(discard, ack)
  BY DEF Edge, FifoClock, RdCtrl, RdEmpty, RdTake, RdObeyDiscard, RdDiscard
<1>2. /\ ~discard /\ rd_ctrl_reg # "RD_DISCARD" /\ fifo_ctr_reg # 0
      /\ rd_ptr_reg' = rd_ptr_reg /\ mux_data_ptr_reg' = mux_data_ptr_reg
  BY <1>1 DEF RdOffer, RdHold, fifo_empty, FifoInv, CounterNeverWraps
<1>3. wr_ctrl_reg # "WR_DISCARD"
  BY <1>2 DEF FifoInv, DiscardTogether
<1>4. fifo_mem'[rd_ptr_reg] = fifo_mem[rd_ptr_reg]
  <2>1. CASE Stores(valid)
    <3>0. exact
      BY <1>2, <1>3, CountSteps
    <3>1. wr_ptr_reg = (rd_ptr_reg + fifo_ctr_reg) % FIFO_MAX /\ wr_ctrl_reg = "WR_WAIT"
      BY <1>3, <2>1, <3>0 DEF OrderInv, Stores
    <3>2. 0 \in 0 .. fifo_ctr_reg - 1 /\ rd_ptr_reg \in 0 .. FIFO_MAX - 1
          /\ FIFO_MAX \in Nat \ {0}
      BY <1>2, <1>3, FifoMaxAssumption DEF FifoInv, FifoTypeOK, Slots
    <3>3. (rd_ptr_reg + 0) % FIFO_MAX # wr_ptr_reg
      BY <3>1, <3>2, StoreMissesHeld
    <3>4. (rd_ptr_reg + 0) % FIFO_MAX = rd_ptr_reg
      <4>1. rd_ptr_reg + 0 = rd_ptr_reg
        BY <3>2
      <4>. QED  BY <3>2, <4>1
    <3>5. fifo_mem' = [fifo_mem EXCEPT ![wr_ptr_reg] = data]
      BY <1>2, <1>3, <2>1, WriteSide
    <3>. QED  BY <3>3, <3>4, <3>5 DEF FifoInv, FifoTypeOK
  <2>2. CASE ~Stores(valid)
    BY <1>2, <1>3, <2>2, WriteSide
  <2>. QED  BY <2>1, <2>2
<1>5. rnd_data_reg' = muxed_data
  BY DEF Edge, FifoClock
<1>. QED  BY <1>2, <1>4, <1>5 DEF muxed_data

\* Reset puts the pointers and the output in order.
LEMMA OrderInit == FifoInit => OrderInv
<1>1. FifoInit => wr_ptr_reg = (rd_ptr_reg + fifo_ctr_reg) % FIFO_MAX
  BY FifoMaxAssumption DEF FifoInit
<1>. QED  BY <1>1 DEF FifoInit, OrderInv

\* Every cycle keeps them in order.
LEMMA OrderStep ==
    ASSUME FifoInv, OrderInv, FifoNext
    PROVE  OrderInv'
<1>. SUFFICES ASSUME exact'
              PROVE  /\ rd_ctrl_reg' = "RD_DISCARD" => wr_ctrl_reg' = "WR_DISCARD"
                     /\ \/ wr_ctrl_reg' = "WR_DISCARD"
                        \/ wr_ptr_reg' = (rd_ptr_reg' + fifo_ctr_reg') % FIFO_MAX
                     /\ rd_ctrl_reg' = "RD_ACK" => rnd_data_reg' = muxed_data'
  BY DEF OrderInv
<1>1. PICK data, valid, discard, ack : Edge(data, valid, discard, ack)
  BY DEF FifoNext, Edge
<1>2. rd_ctrl_reg' = "RD_ACK" => rnd_data_reg' = muxed_data'
  BY <1>1, OfferedWordStays
<1>3. CASE discard
  BY <1>1, <1>2, <1>3, DiscardObeyed
<1>4. CASE wr_ctrl_reg = "WR_DISCARD"
  <2>1. /\ wr_ptr_reg' = 0 /\ rd_ptr_reg' = 0 /\ fifo_ctr_reg' = 0
        /\ rd_ctrl_reg' = "RD_IDLE"
    BY <1>1, <1>4, DiscardDone
  <2>2. (0 + 0) % FIFO_MAX = 0
    BY FifoMaxAssumption
  <2>. QED  BY <2>1, <2>2
<1>5. CASE ~discard /\ wr_ctrl_reg # "WR_DISCARD"
  <2>1. /\ exact
        /\ ~(Stores(valid) /\ Releases(discard, ack))
        /\ fifo_ctr_reg' = IF Releases(discard, ack) THEN fifo_ctr_reg - 1
                           ELSE IF Stores(valid) THEN fifo_ctr_reg + 1
                           ELSE fifo_ctr_reg
        /\ fifo_ctr_reg \in 0 .. FIFO_MAX
        /\ Releases(discard, ack) => fifo_ctr_reg > 0
        /\ Stores(valid) => fifo_ctr_reg < FIFO_MAX
    BY <1>1, <1>5, CountSteps
  <2>2. /\ wr_ptr_reg = (rd_ptr_reg + fifo_ctr_reg) % FIFO_MAX
        /\ rd_ctrl_reg # "RD_DISCARD"
        /\ rd_ptr_reg \in Slots
    BY <1>5, <2>1 DEF OrderInv, FifoInv, FifoTypeOK
  <2>3. /\ rd_ptr_reg' = IF Releases(discard, ack) THEN NextSlot(rd_ptr_reg)
                         ELSE rd_ptr_reg
        /\ rd_ctrl_reg' # "RD_DISCARD"
    BY <1>1, <1>5, <2>2, ReadPointerSteps
  <2>4. wr_ptr_reg' = IF Stores(valid) THEN NextSlot(wr_ptr_reg) ELSE wr_ptr_reg
    BY <1>1, <1>5, WriteSide
  <2>5. wr_ptr_reg' = (rd_ptr_reg' + fifo_ctr_reg') % FIFO_MAX
    <3>1. CASE Releases(discard, ack)
      <4>1. fifo_ctr_reg - 1 \in 0 .. FIFO_MAX - 1 /\ (fifo_ctr_reg - 1) + 1 = fifo_ctr_reg
        BY <2>1, <3>1, FifoMaxAssumption
      <4>2. (NextSlot(rd_ptr_reg) + (fifo_ctr_reg - 1)) % FIFO_MAX
              = (rd_ptr_reg + ((fifo_ctr_reg - 1) + 1)) % FIFO_MAX
        BY <2>2, <4>1, NextSlotOffset
      <4>3. /\ rd_ptr_reg' = NextSlot(rd_ptr_reg) /\ fifo_ctr_reg' = fifo_ctr_reg - 1
            /\ wr_ptr_reg' = wr_ptr_reg
        BY <2>1, <2>3, <2>4, <3>1
      <4>. QED  BY <2>2, <4>1, <4>2, <4>3
    <3>2. CASE Stores(valid)
      <4>1. fifo_ctr_reg \in 0 .. FIFO_MAX - 1
        BY <2>1, <3>2, FifoMaxAssumption
      <4>2. NextSlot((rd_ptr_reg + fifo_ctr_reg) % FIFO_MAX)
              = (rd_ptr_reg + (fifo_ctr_reg + 1)) % FIFO_MAX
        BY <2>2, <4>1, NextSlotOffset
      <4>3. /\ rd_ptr_reg' = rd_ptr_reg /\ fifo_ctr_reg' = fifo_ctr_reg + 1
            /\ wr_ptr_reg' = NextSlot(wr_ptr_reg)
        BY <2>1, <2>3, <2>4, <3>2
      <4>. QED  BY <2>2, <4>2, <4>3
    <3>3. CASE ~Releases(discard, ack) /\ ~Stores(valid)
      BY <2>1, <2>2, <2>3, <2>4, <3>3
    <3>. QED  BY <3>1, <3>2, <3>3
  <2>. QED  BY <1>2, <2>3, <2>5
<1>. QED  BY <1>1, <1>3, <1>4, <1>5 DEF Edge

-----------------------------------------------------------------------------
\* n blocks of a memory, from the slot rd on.
BlocksAt(mem, rd, n) == [k \in 1 .. n |-> mem[(rd + (k - 1)) % FIFO_MAX]]

\* They are a sequence of blocks.
LEMMA BlocksAtIsSequence ==
    ASSUME NEW mem \in [Slots -> Blocks \cup {ZeroBlock}],
           NEW rd \in Slots, NEW n \in 0 .. FIFO_MAX
    PROVE  /\ BlocksAt(mem, rd, n) \in Seq(Blocks \cup {ZeroBlock})
           /\ Len(BlocksAt(mem, rd, n)) = n
           /\ \A k \in 1 .. n :
                BlocksAt(mem, rd, n)[k] = mem[(rd + (k - 1)) % FIFO_MAX]
<1>1. FIFO_MAX \in Nat \ {0}
  BY FifoMaxAssumption
<1>2. ASSUME NEW k \in 1 .. n
      PROVE  (rd + (k - 1)) % FIFO_MAX \in Slots
  <2>1. k - 1 \in 0 .. FIFO_MAX
    BY <1>1, <1>2
  <2>. QED  BY <2>1, SlotOffset
<1>3. BlocksAt(mem, rd, n) \in [1 .. n -> Blocks \cup {ZeroBlock}]
  BY <1>2 DEF BlocksAt
<1>4. BlocksAt(mem, rd, n) \in Seq(Blocks \cup {ZeroBlock})
  BY <1>1, <1>3
<1>5. Len(BlocksAt(mem, rd, n)) = n
  BY <1>1, <1>3, <1>4
<1>. QED  BY <1>4, <1>5 DEF BlocksAt

\* The blocks held are those from the read pointer on, as many as the counter
\* says, unless the FIFO is being emptied.
LEMMA HeldIsBlocksAt ==
    /\ FifoInv /\ wr_ctrl_reg # "WR_DISCARD" =>
         HeldBlocks = BlocksAt(fifo_mem, rd_ptr_reg, fifo_ctr_reg)
    /\ FifoInv' /\ wr_ctrl_reg' # "WR_DISCARD" =>
         HeldBlocks' = BlocksAt(fifo_mem', rd_ptr_reg', fifo_ctr_reg')
<1>1. \A r, k \in Int : r + k - 1 = r + (k - 1)
  OBVIOUS
<1>2. FifoInv => rd_ptr_reg \in Int
  BY FifoMaxAssumption DEF FifoInv, FifoTypeOK, Slots
<1>3. FifoInv' => rd_ptr_reg' \in Int
  BY FifoMaxAssumption DEF FifoInv, FifoTypeOK, Slots
<1>4. (\A k \in 1 .. fifo_ctr_reg : k \in Int) /\ (\A k \in 1 .. fifo_ctr_reg' : k \in Int)
  OBVIOUS
<1>. QED  BY <1>1, <1>2, <1>3, <1>4 DEF HeldBlocks, BlocksAt

\* A cycle without a discard takes the oldest block away when its last word is
\* taken, and adds the block that arrived, if any, at the end.
Arrived(data, valid) == IF Stores(valid) THEN <<data>> ELSE <<>>

LEMMA HeldSteps ==
    ASSUME FifoInv, FifoInv', OrderInv, NEW data, NEW valid, NEW discard, NEW ack,
           Edge(data, valid, discard, ack), ~discard, exact', wr_ctrl_reg # "WR_DISCARD"
    PROVE  /\ Releases(discard, ack) => HeldBlocks' = Tail(HeldBlocks)
           /\ Releases(discard, ack) => ~Stores(valid) /\ HeldBlocks # <<>>
           /\ ~Releases(discard, ack) => HeldBlocks' = HeldBlocks \o Arrived(data, valid)
<1>1. /\ exact
      /\ ~(Stores(valid) /\ Releases(discard, ack))
      /\ fifo_ctr_reg' = IF Releases(discard, ack) THEN fifo_ctr_reg - 1
                         ELSE IF Stores(valid) THEN fifo_ctr_reg + 1
                         ELSE fifo_ctr_reg
      /\ fifo_ctr_reg \in 0 .. FIFO_MAX /\ fifo_ctr_reg' \in 0 .. FIFO_MAX
      /\ Releases(discard, ack) => fifo_ctr_reg > 0
      /\ Stores(valid) => fifo_ctr_reg < FIFO_MAX
  BY CountSteps
<1>2. /\ wr_ptr_reg = (rd_ptr_reg + fifo_ctr_reg) % FIFO_MAX
      /\ rd_ctrl_reg # "RD_DISCARD"
      /\ rd_ptr_reg \in Slots /\ FIFO_MAX \in Nat \ {0}
      /\ fifo_mem \in [Slots -> Blocks \cup {ZeroBlock}]
  BY <1>1, FifoMaxAssumption DEF OrderInv, FifoInv, FifoTypeOK
<1>3. /\ rd_ptr_reg' = IF Releases(discard, ack) THEN NextSlot(rd_ptr_reg) ELSE rd_ptr_reg
  BY <1>2, ReadPointerSteps
<1>4. /\ Stores(valid) => fifo_mem' = [fifo_mem EXCEPT ![wr_ptr_reg] = data]
      /\ ~Stores(valid) => fifo_mem' = fifo_mem
      /\ wr_ctrl_reg' # "WR_DISCARD"
  BY WriteSide
<1>5. /\ HeldBlocks \in Seq(Blocks \cup {ZeroBlock})
      /\ Len(HeldBlocks) = fifo_ctr_reg
      /\ \A k \in 1 .. fifo_ctr_reg :
           HeldBlocks[k] = fifo_mem[(rd_ptr_reg + (k - 1)) % FIFO_MAX]
  <2>1. HeldBlocks = BlocksAt(fifo_mem, rd_ptr_reg, fifo_ctr_reg)
    BY HeldIsBlocksAt
  <2>. QED  BY <1>1, <1>2, <2>1, BlocksAtIsSequence, ZenonT(60)
<1>6. /\ HeldBlocks' \in Seq(Blocks \cup {ZeroBlock})
      /\ Len(HeldBlocks') = fifo_ctr_reg'
      /\ \A k \in 1 .. fifo_ctr_reg' :
           HeldBlocks'[k] = fifo_mem'[(rd_ptr_reg' + (k - 1)) % FIFO_MAX]
  <2>1. fifo_mem' \in [Slots -> Blocks \cup {ZeroBlock}] /\ rd_ptr_reg' \in Slots
    BY DEF FifoInv, FifoTypeOK
  <2>2. HeldBlocks' = BlocksAt(fifo_mem', rd_ptr_reg', fifo_ctr_reg')
    BY <1>4, HeldIsBlocksAt
  <2>. QED  BY <1>1, <2>1, <2>2, BlocksAtIsSequence
<1>7. CASE Releases(discard, ack)
  <2>1. HeldBlocks # <<>>
    BY <1>1, <1>5, <1>7
  <2>2. /\ Tail(HeldBlocks) \in Seq(Blocks \cup {ZeroBlock})
        /\ Len(Tail(HeldBlocks)) = fifo_ctr_reg - 1
        /\ \A k \in 1 .. fifo_ctr_reg - 1 : Tail(HeldBlocks)[k] = HeldBlocks[k + 1]
    BY <1>5, <2>1, HeadTailProperties
  <2>3. ASSUME NEW k \in 1 .. fifo_ctr_reg - 1
        PROVE  HeldBlocks'[k] = Tail(HeldBlocks)[k]
    <3>1. k \in 1 .. fifo_ctr_reg' /\ k + 1 \in 1 .. fifo_ctr_reg /\ (k + 1) - 1 = (k - 1) + 1
      BY <1>1, <1>7, <2>3
    <3>2. (NextSlot(rd_ptr_reg) + (k - 1)) % FIFO_MAX
            = (rd_ptr_reg + ((k - 1) + 1)) % FIFO_MAX
      <4>1. k - 1 \in 0 .. FIFO_MAX - 1
        BY <1>1, <1>2, <2>3
      <4>. QED  BY <1>2, <4>1, NextSlotOffset
    <3>3. HeldBlocks'[k] = fifo_mem[(NextSlot(rd_ptr_reg) + (k - 1)) % FIFO_MAX]
      BY <1>1, <1>3, <1>4, <1>6, <1>7, <3>1
    <3>4. Tail(HeldBlocks)[k] = fifo_mem[(rd_ptr_reg + ((k + 1) - 1)) % FIFO_MAX]
      BY <1>5, <2>2, <2>3, <3>1
    <3>. QED  BY <3>1, <3>2, <3>3, <3>4
  <2>4. HeldBlocks' = Tail(HeldBlocks)
    BY <1>1, <1>6, <1>7, <2>2, <2>3, SeqEqual
  <2>. QED  BY <1>1, <1>7, <2>1, <2>4
<1>8. CASE ~Releases(discard, ack) /\ ~Stores(valid)
  <2>1. fifo_ctr_reg' = fifo_ctr_reg /\ rd_ptr_reg' = rd_ptr_reg /\ fifo_mem' = fifo_mem
    BY <1>1, <1>3, <1>4, <1>8
  <2>2. HeldBlocks' = HeldBlocks
    BY <1>5, <1>6, <2>1, SeqEqual
  <2>3. HeldBlocks \o <<>> = HeldBlocks
    BY <1>5, ConcatEmptySeq
  <2>. QED  BY <1>8, <2>2, <2>3 DEF Arrived
<1>9. CASE ~Releases(discard, ack) /\ Stores(valid)
  <2>1. /\ fifo_ctr_reg' = fifo_ctr_reg + 1 /\ rd_ptr_reg' = rd_ptr_reg
        /\ fifo_mem' = [fifo_mem EXCEPT ![wr_ptr_reg] = data]
        /\ fifo_ctr_reg \in 0 .. FIFO_MAX - 1
    BY <1>1, <1>2, <1>3, <1>4, <1>9
  <2>2. <<data>> \in Seq(Blocks \cup {ZeroBlock}) /\ Len(<<data>>) = 1 /\ <<data>>[1] = data
    BY DEF Edge
  <2>3. /\ HeldBlocks \o <<data>> \in Seq(Blocks \cup {ZeroBlock})
        /\ Len(HeldBlocks \o <<data>>) = fifo_ctr_reg + 1
        /\ \A k \in 1 .. fifo_ctr_reg : (HeldBlocks \o <<data>>)[k] = HeldBlocks[k]
        /\ (HeldBlocks \o <<data>>)[fifo_ctr_reg + 1] = data
    <3>1. /\ HeldBlocks \o <<data>> \in Seq(Blocks \cup {ZeroBlock})
          /\ Len(HeldBlocks \o <<data>>) = fifo_ctr_reg + 1
      BY <1>5, <2>2, ConcatProperties
    <3>2. \A k \in 1 .. fifo_ctr_reg + 1 :
            (HeldBlocks \o <<data>>)[k]
              = IF k <= fifo_ctr_reg THEN HeldBlocks[k] ELSE <<data>>[k - fifo_ctr_reg]
      BY <1>5, <2>2, ConcatProperties
    <3>3. (fifo_ctr_reg + 1) - fifo_ctr_reg = 1 /\ fifo_ctr_reg + 1 \in 1 .. fifo_ctr_reg + 1
          /\ ~(fifo_ctr_reg + 1 <= fifo_ctr_reg)
      BY <2>1, <1>2
    <3>4. (HeldBlocks \o <<data>>)[fifo_ctr_reg + 1] = data
      BY <2>2, <3>2, <3>3
    <3>5. \A k \in 1 .. fifo_ctr_reg : k \in 1 .. fifo_ctr_reg + 1 /\ k <= fifo_ctr_reg
      BY <2>1
    <3>. QED  BY <3>1, <3>2, <3>4, <3>5
  <2>4. ASSUME NEW k \in 1 .. fifo_ctr_reg
        PROVE  HeldBlocks'[k] = (HeldBlocks \o <<data>>)[k]
    <3>1. k \in 1 .. fifo_ctr_reg' /\ k - 1 \in 0 .. fifo_ctr_reg - 1 /\ k - 1 \in 0 .. FIFO_MAX
      BY <2>1, <2>4, <1>2
    <3>2. (rd_ptr_reg + (k - 1)) % FIFO_MAX # wr_ptr_reg
      BY <1>2, <1>9, <3>1, StoreMissesHeld DEF Stores
    <3>3. (rd_ptr_reg + (k - 1)) % FIFO_MAX \in Slots
      BY <1>2, <3>1, SlotOffset
    <3>4. fifo_mem'[(rd_ptr_reg + (k - 1)) % FIFO_MAX]
            = fifo_mem[(rd_ptr_reg + (k - 1)) % FIFO_MAX]
      BY <1>2, <2>1, <3>2, <3>3
    <3>. QED  BY <1>5, <1>6, <2>1, <2>3, <2>4, <3>1, <3>4
  <2>5. HeldBlocks'[fifo_ctr_reg + 1] = data
    <3>1. fifo_ctr_reg + 1 \in 1 .. fifo_ctr_reg' /\ (fifo_ctr_reg + 1) - 1 = fifo_ctr_reg
      BY <2>1, <1>2
    <3>2. fifo_mem'[wr_ptr_reg] = data
      BY <1>2, <2>1 DEF FifoInv, FifoTypeOK
    <3>. QED  BY <1>2, <1>6, <2>1, <3>1, <3>2
  <2>6. \A k \in 1 .. fifo_ctr_reg + 1 : HeldBlocks'[k] = (HeldBlocks \o <<data>>)[k]
    <3>1. \A k \in 1 .. fifo_ctr_reg + 1 : k \in 1 .. fifo_ctr_reg \/ k = fifo_ctr_reg + 1
      BY <2>1, <1>2
    <3>. QED  BY <2>3, <2>4, <2>5, <3>1
  <2>7. HeldBlocks' = HeldBlocks \o <<data>>
    BY <1>6, <2>1, <2>3, <2>6, SeqEqual
  <2>. QED  BY <1>9, <2>7 DEF Arrived
<1>. QED  BY <1>7, <1>8, <1>9

-----------------------------------------------------------------------------
\* Reset is an empty queue.
LEMMA StreamInit == FifoInit => Stream!Init
<1>. SUFFICES ASSUME FifoInit PROVE Stream!Init
  OBVIOUS
<1>1. HeldBlocks = <<>>
  BY DEF FifoInit, HeldBlocks
<1>. QED  BY <1>1 DEF FifoInit, Stream!Init

\* A cycle that leaves the count right is a step of the queue.
LEMMA StreamStep ==
    ASSUME FifoInv, FifoInv', OrderInv, FifoNext, exact'
    PROVE  Stream!Next
<1>1. PICK data, valid, discard, ack : Edge(data, valid, discard, ack)
  BY DEF FifoNext, Edge
<1>2. CASE discard
  \* Both sides obey: the queue is emptied and the offer is withdrawn.
  <2>1. /\ wr_ctrl_reg' = "WR_DISCARD" /\ rd_ctrl_reg' = "RD_DISCARD"
        /\ mux_data_ptr_reg' = mux_data_ptr_reg
    BY <1>1, <1>2, DiscardObeyed
  <2>2. HeldBlocks' = <<>>
    BY <2>1 DEF HeldBlocks
  <2>3. Stream!Discard
    BY <2>1, <2>2 DEF Stream!Discard, NoWord
  <2>. QED  BY <2>3 DEF Stream!Next
<1>3. CASE wr_ctrl_reg = "WR_DISCARD"
  \* The cycle in which the registers are cleared: the queue was empty already.
  <2>1. /\ rd_ctrl_reg = "RD_DISCARD" /\ wr_ctrl_reg' = "WR_IDLE"
        /\ rd_ctrl_reg' = "RD_IDLE" /\ fifo_ctr_reg' = 0
        /\ mux_data_ptr_reg' = mux_data_ptr_reg
    BY <1>1, <1>3, DiscardDone
  <2>2. HeldBlocks = <<>> /\ HeldBlocks' = <<>>
    BY <1>3, <2>1 DEF HeldBlocks
  <2>3. Stream!Discard
    BY <2>1, <2>2 DEF Stream!Discard, NoWord
  <2>. QED  BY <2>3 DEF Stream!Next
<1>4. CASE ~discard /\ wr_ctrl_reg # "WR_DISCARD"
  <2>1. /\ exact
        /\ fifo_ctr_reg \in 0 .. FIFO_MAX /\ fifo_ctr_reg' \in 0 .. FIFO_MAX
    BY <1>1, <1>4, CountSteps
  <2>2. rd_ctrl_reg # "RD_DISCARD" /\ FIFO_MAX \in Nat \ {0}
    BY <1>4, <2>1, FifoMaxAssumption DEF OrderInv
  <2>3. /\ Releases(discard, ack) => HeldBlocks' = Tail(HeldBlocks)
        /\ Releases(discard, ack) => ~Stores(valid) /\ HeldBlocks # <<>>
        /\ ~Releases(discard, ack) => HeldBlocks' = HeldBlocks \o Arrived(data, valid)
    BY <1>1, <1>4, HeldSteps
  <2>4. Arrived(data, valid) \in Stream!Arrivals
    BY <1>1 DEF Arrived, Stream!Arrivals, Edge
  <2>5. HeldBlocks = BlocksAt(fifo_mem, rd_ptr_reg, fifo_ctr_reg)
    BY <1>4, HeldIsBlocksAt
  <2>6. /\ HeldBlocks \in Seq(Blocks \cup {ZeroBlock}) /\ Len(HeldBlocks) = fifo_ctr_reg
        /\ \A k \in 1 .. fifo_ctr_reg :
             HeldBlocks[k] = fifo_mem[(rd_ptr_reg + (k - 1)) % FIFO_MAX]
    BY <2>1, <2>5, BlocksAtIsSequence DEF FifoInv, FifoTypeOK
  <2>7. Len(HeldBlocks') <= FIFO_MAX
    <3>1. wr_ctrl_reg' # "WR_DISCARD"
      BY <1>1, <1>4, WriteSide
    <3>2. HeldBlocks' = BlocksAt(fifo_mem', rd_ptr_reg', fifo_ctr_reg')
      BY <3>1, HeldIsBlocksAt
    <3>3. fifo_mem' \in [Slots -> Blocks \cup {ZeroBlock}] /\ rd_ptr_reg' \in Slots
      BY DEF FifoInv, FifoTypeOK
    <3>4. Len(HeldBlocks') = fifo_ctr_reg'
      BY <2>1, <3>2, <3>3, BlocksAtIsSequence
    <3>. QED  BY <2>1, <2>2, <3>4
  <2>8. \/ RdEmpty(discard) \/ RdOffer(discard) \/ RdHold(discard, ack)
        \/ RdTake(discard, ack)
    BY <1>1, <1>4, <2>2 DEF Edge, FifoClock, RdCtrl, RdObeyDiscard, RdDiscard
  <2>9. CASE RdEmpty(discard)
    <3>1. Stream!Wait(Arrived(data, valid))
      BY <2>3, <2>9 DEF RdEmpty, Releases, Takes, Stream!Wait
    <3>. QED  BY <2>4, <2>7, <3>1 DEF Stream!Next
  <2>10. CASE RdOffer(discard)
    \* The word enters the output register in the cycle in which it is offered.
    <3>1. /\ rd_ctrl_reg = "RD_IDLE" /\ rd_ctrl_reg' = "RD_ACK" /\ fifo_ctr_reg # 0
          /\ mux_data_ptr_reg' = mux_data_ptr_reg
      BY <2>10 DEF RdOffer, fifo_empty
    <3>2. rnd_data_reg' = <<fifo_mem[rd_ptr_reg], mux_data_ptr_reg>>
      BY <1>1, <3>1, OfferedWordStays DEF muxed_data
    <3>3. HeldBlocks # <<>> /\ Head(HeldBlocks) = fifo_mem[rd_ptr_reg]
      <4>1. 1 \in 1 .. fifo_ctr_reg
        BY <2>1, <2>2, <3>1
      <4>2. (rd_ptr_reg + (1 - 1)) % FIFO_MAX = rd_ptr_reg
        <5>1. rd_ptr_reg \in 0 .. FIFO_MAX - 1
          BY DEF FifoInv, FifoTypeOK, Slots
        <5>2. rd_ptr_reg + (1 - 1) = rd_ptr_reg
          BY <5>1
        <5>. QED  BY <2>2, <5>1, <5>2
      <4>3. HeldBlocks[1] = fifo_mem[rd_ptr_reg]
        BY <2>6, <4>1, <4>2
      <4>4. HeldBlocks # <<>>
        BY <2>6, <3>1
      <4>. QED  BY <2>6, <4>3, <4>4, HeadTailProperties
    <3>4. HeldBlocks' = HeldBlocks \o Arrived(data, valid)
      BY <2>3, <2>10 DEF RdOffer, Releases, Takes
    <3>5. Stream!Offer(Arrived(data, valid))
      BY <3>1, <3>2, <3>3, <3>4 DEF Stream!Offer, NoWord
    <3>. QED  BY <2>4, <2>7, <3>5 DEF Stream!Next
  <2>11. CASE RdHold(discard, ack)
    <3>1. /\ rd_ctrl_reg = "RD_ACK" /\ rd_ctrl_reg' = "RD_ACK"
          /\ mux_data_ptr_reg' = mux_data_ptr_reg
      BY <2>11 DEF RdHold
    <3>2. rnd_data_reg' = rnd_data_reg
      BY <1>1, <2>1, <3>1, OfferedWordStays DEF OrderInv
    <3>3. HeldBlocks' = HeldBlocks \o Arrived(data, valid)
      BY <2>3, <2>11 DEF RdHold, Releases, Takes
    <3>4. Stream!Wait(Arrived(data, valid))
      BY <3>1, <3>2, <3>3 DEF Stream!Wait
    <3>. QED  BY <2>4, <2>7, <3>4 DEF Stream!Next
  <2>12. CASE RdTake(discard, ack)
    <3>1. /\ rd_ctrl_reg = "RD_ACK" /\ rd_ctrl_reg' = "RD_IDLE" /\ Takes(discard, ack)
      BY <2>12 DEF RdTake, Takes
    <3>2. rnd_data_reg # NoWord
      <4>1. rnd_data_reg = <<rnd_data_reg[1], rnd_data_reg[2]>>
        BY DEF FifoInv, FifoTypeOK, AnyWord
      <4>2. Len(<<rnd_data_reg[1], rnd_data_reg[2]>>) = 2 /\ Len(<<>>) = 0
        OBVIOUS
      <4>. QED  BY <4>1, <4>2 DEF NoWord
    <3>3. CASE Releases(discard, ack)
      <4>1. mux_data_ptr_reg = WORDS - 1 /\ mux_data_ptr_reg' = 0
        BY <2>12, <3>3 DEF RdTake, Releases
      <4>2. Arrived(data, valid) = <<>>
        BY <2>3, <3>3 DEF Arrived
      <4>3. Tail(HeldBlocks) \o <<>> = Tail(HeldBlocks)
        <5>1. Tail(HeldBlocks) \in Seq(Blocks \cup {ZeroBlock})
          BY <2>3, <2>6, <3>3, HeadTailProperties
        <5>. QED  BY <5>1, ConcatEmptySeq
      <4>4. Stream!Take(Arrived(data, valid))
        BY <2>3, <3>1, <3>2, <3>3, <4>1, <4>2, <4>3 DEF Stream!Take, NoWord
      <4>. QED  BY <2>4, <2>7, <4>4 DEF Stream!Next
    <3>4. CASE ~Releases(discard, ack)
      <4>1. mux_data_ptr_reg # WORDS - 1 /\ mux_data_ptr_reg' = mux_data_ptr_reg + 1
        BY <2>12, <3>1, <3>4 DEF RdTake, Releases
      <4>2. Stream!Take(Arrived(data, valid))
        BY <2>3, <3>1, <3>2, <3>4, <4>1 DEF Stream!Take, NoWord
      <4>. QED  BY <2>4, <2>7, <4>2 DEF Stream!Next
    <3>. QED  BY <3>3, <3>4
  <2>. QED  BY <2>8, <2>9, <2>10, <2>11, <2>12
<1>. QED  BY <1>1, <1>2, <1>3, <1>4 DEF Edge

\* The order of pointers and output is kept in every state.
THEOREM FifoInOrder == FifoSpec => []OrderInv
<1>1. OrderInv /\ UNCHANGED fifoVars => OrderInv'
  BY DEF OrderInv, fifoVars, muxed_data
<1>2. FifoInv /\ OrderInv /\ [FifoNext]_fifoVars => OrderInv'
  BY <1>1, OrderStep
<1>. QED  BY FifoInvariant, OrderInit, <1>2, PTL DEF FifoSpec

\* While its counter is exact, trng_csprng_fifo.v is a queue of blocks that are
\* handed out word by word: every word of every stored block once, in order,
\* and unchanged while it is on offer, for every number of slots, every block
\* length and every block contents.  Nothing is claimed of the steps from a
\* store that meets a release, or a discard only the read FSM obeys, until the
\* next discard that both FSMs obey.
THEOREM FifoIsWordQueue == FifoSpec => StreamsInOrder
<1>1. FifoInv /\ FifoInv' /\ OrderInv /\ [FifoNext]_fifoVars
        => [exact' => [Stream!Next]_(Stream!vars)]_fifoVars
  BY StreamStep
<1>. QED
  BY FifoInvariant, FifoInOrder, StreamInit, <1>1, PTL DEF FifoSpec, StreamsInOrder
=============================================================================
