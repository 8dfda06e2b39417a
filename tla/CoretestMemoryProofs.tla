------------------------ MODULE CoretestMemoryProofs ------------------------
(***************************************************************************)
(* To a host that waits for each answer, and sends only commands whose     *)
(* length coretest knows (Paced), coretest with its core is a remote       *)
(* memory.  Proved for every receive buffer, every set of such commands,   *)
(* every set of data bytes and every core.                                 *)
(*                                                                         *)
(* A command is on its way through the line (LineInv), the receive buffer  *)
(* (RingInv), the parser (StreamInv, ParserAt, Parsed) and the core        *)
(* (BusInv, ExecInv), its answer through tx_buffer (MessageInv), tx_engine *)
(* and the line (TxLineInv, GotInv).  RaceInv says why a byte never finds  *)
(* test_engine where it cannot take it, and with that why no decrement of  *)
(* the buffer's counter is lost; MemoryInv is all of them.                 *)
(***************************************************************************)
EXTENDS CoretestProofs

(* A byte on the receive half of the link: the line is free, the byte is   *)
(* offered, it is stored, or it is acknowledged and counted.               *)
Free    == ~rx_syn /\ ~rx_syn_reg /\ rx_engine_reg = "RX_IDLE" /\ ~rx_ack_reg
Offered == rx_syn /\ rx_engine_reg = "RX_IDLE" /\ ~rx_ack_reg
Stored  == rx_syn /\ rx_syn_reg /\ rx_engine_reg = "RX_ACK" /\ ~rx_ack_reg
Taken   == rx_engine_reg = "RX_NSYN" /\ rx_ack_reg /\ (rx_syn => rx_syn_reg)
LineInv == Free \/ Offered \/ Stored \/ Taken

(* The handshake of the transmit half.                                     *)
TxLineInv ==
    /\ tx_syn_reg <=> tx_engine_reg = "TX_SYN"
    /\ tx_engine_reg = "TX_SYN" => (tx_ack_reg => tx_ack)
    /\ tx_engine_reg = "TX_NOACK" => (tx_ack => tx_ack_reg)
    /\ tx_engine_reg \notin {"TX_SYN", "TX_NOACK"} => ~tx_ack /\ ~tx_ack_reg

\* How the host moves the line it drives, and what goes with it.
LEMMA HostLine ==
    ASSUME HostSends
    PROVE  \/ rx_syn' = rx_syn /\ rx_data' = rx_data /\ ~HostRaises /\ ~HostLowers
           \/ HostRaises /\ ~rx_syn /\ ~rx_ack_reg /\ rx_syn'
           \/ HostLowers /\ rx_syn /\ rx_ack_reg /\ ~rx_syn' /\ rx_data' = rx_data
BY DEF HostSends, HostIssues, HostRaises, HostLowers, HostWaits

\* Where a byte on the line can go in one step.
LEMMA LineMoves ==
    ASSUME LinkTypes, LineInv, RxEngine(rx_data), rx_syn_reg' = rx_syn, HostSends
    PROVE  /\ Free => Free' \/ (Offered' /\ ~rx_syn_reg' /\ HostRaises)
           /\ Offered => \/ Offered' /\ ~RxStore(rx_data)
                         \/ Stored' /\ rx_syn_reg /\ RxStore(rx_data)
           /\ Stored => Taken' /\ rx_syn'
           /\ Taken /\ rx_syn => Taken'
           /\ Taken /\ ~rx_syn => Taken' \/ Free'
           /\ Offered \/ Stored \/ Taken => ~HostRaises
           /\ Offered \/ Stored => ~HostLowers /\ rx_data' = rx_data
<1> USE HostLine DEF LinkTypes
<1>1. Free => Free' \/ (Offered' /\ ~rx_syn_reg' /\ HostRaises)
  <2> SUFFICES ASSUME Free PROVE Free' \/ (Offered' /\ ~rx_syn_reg' /\ HostRaises)
    OBVIOUS
  <2>1. rx_engine_reg' = "RX_IDLE" /\ rx_ack_reg' = rx_ack_reg
    BY DEF Free, RxEngine, RxStore, RxAck, RxRelease, RxWait, rxRegs
  <2>2. ~rx_syn
    BY DEF Free
  <2>3. (rx_syn' = rx_syn) \/ (HostRaises /\ rx_syn')
    BY <2>2
  <2> QED BY <2>1, <2>2, <2>3 DEF Free, Offered
<1>2. Offered => \/ Offered' /\ ~RxStore(rx_data)
                 \/ Stored' /\ rx_syn_reg /\ RxStore(rx_data)
  <2> SUFFICES ASSUME Offered
                PROVE  \/ Offered' /\ ~RxStore(rx_data)
                       \/ Stored' /\ rx_syn_reg /\ RxStore(rx_data)
    OBVIOUS
  <2>1. rx_syn' = rx_syn
    BY DEF Offered
  <2>2. CASE RxStore(rx_data)
    BY <2>1, <2>2 DEF Offered, Stored, RxStore
  <2>3. CASE RxWait
    BY <2>1, <2>3 DEF Offered, RxWait, rxRegs, RxStore
  <2> QED BY <2>2, <2>3 DEF Offered, RxEngine, RxAck, RxRelease
<1>3. Stored => Taken' /\ rx_syn'
  BY DEF Stored, Taken, RxEngine, RxStore, RxAck, RxRelease, RxWait, rxRegs
<1>4. Taken /\ rx_syn => Taken'
  BY DEF Taken, RxEngine, RxStore, RxAck, RxRelease, RxWait, rxRegs
<1>5. Taken /\ ~rx_syn => Taken' \/ Free'
  BY DEF Taken, Free, RxEngine, RxStore, RxAck, RxRelease, RxWait, rxRegs
<1>6. /\ Offered \/ Stored \/ Taken => ~HostRaises
      /\ Offered \/ Stored => ~HostLowers
  BY DEF Offered, Stored, Taken, HostRaises, HostLowers
<1>7. Offered \/ Stored => rx_data' = rx_data
  BY <1>6
<1> QED BY <1>1, <1>2, <1>3, <1>4, <1>5, <1>6, <1>7

\* The line is always in one of its four states.
LEMMA LineKept ==
    ASSUME LinkTypes, LineInv, RxEngine(rx_data), rx_syn_reg' = rx_syn, HostSends
    PROVE  LineInv'
<1>1. LinkTypes => rx_syn \/ ~rx_syn
  OBVIOUS
<1>2. Free => LineInv'
  BY LineMoves DEF LineInv
<1>3. Offered => LineInv'
  BY LineMoves DEF LineInv
<1>4. Stored => LineInv'
  BY LineMoves DEF LineInv
<1>5. Taken => LineInv'
  BY LineMoves DEF LineInv
<1> QED BY <1>2, <1>3, <1>4, <1>5 DEF LineInv

\* How the host moves its acknowledgement.
LEMMA HostAck ==
    ASSUME HostReceives, LinkTypes
    PROVE  \/ tx_ack' = tx_ack /\ got' = got /\ received' = received /\ ~Answered
           \/ HostTakes /\ tx_syn_reg /\ ~tx_ack /\ tx_ack' = TRUE /\ ~Answered
           \/ HostReleases /\ ~tx_syn_reg /\ tx_ack /\ tx_ack' = FALSE
              /\ (Answered <=> Complete(got))
BY DEF HostReceives, HostTakes, HostReleases, Answered, LinkTypes

\* The transmit half keeps its handshake.
LEMMA TxLineKept ==
    ASSUME LinkTypes, TxTypes, TxLineInv, TxEngine, tx_ack_reg' = tx_ack, HostReceives
    PROVE  TxLineInv'
<1> USE DEF TxLineInv, LinkTypes, TxTypes
<1>0. \/ tx_ack' = tx_ack
      \/ tx_syn_reg /\ ~tx_ack /\ tx_ack' = TRUE
      \/ ~tx_syn_reg /\ tx_ack /\ tx_ack' = FALSE
  BY HostAck
<1>1. CASE TxStart
  BY <1>0, <1>1 DEF TxStart
<1>2. CASE TxAcked
  BY <1>0, <1>2 DEF TxAcked
<1>3. CASE TxReleased
  BY <1>0, <1>3 DEF TxReleased
<1>4. CASE TxNext
  BY <1>0, <1>4 DEF TxNext
<1>5. CASE TxSent
  BY <1>0, <1>5 DEF TxSent
<1>6. CASE TxDone
  BY <1>0, <1>6 DEF TxDone
<1>7. CASE TxWait
  BY <1>0, <1>7 DEF TxWait, txRegs
<1> QED BY <1>1, <1>2, <1>3, <1>4, <1>5, <1>6, <1>7 DEF TxEngine

-----------------------------------------------------------------------------
\* The last byte was released: the host has the whole response.
Trailing ==
    \/ tx_engine_reg \in {"TX_SENT", "TX_DONE"}
    \/ /\ tx_engine_reg \in {"TX_NOACK", "TX_NEXT"}
       /\ ~tx_ack /\ tx_buffer_ptr_reg = tx_msg_len_reg

(* The host has the bytes of the message up to the one on the line.        *)
GotInv ==
    /\ got \in Seq(Byte)
    /\ \A j \in 1 .. Len(got) : got[j] = tx_buffer[j - 1]
    /\ tx_engine_reg = "TX_IDLE" \/ Trailing => got = <<>>
    /\ tx_engine_reg = "TX_SYN" /\ ~tx_ack => Len(got) = tx_buffer_ptr_reg
    /\ (\/ tx_engine_reg = "TX_SYN" /\ tx_ack
        \/ tx_engine_reg \in {"TX_NOACK", "TX_NEXT"} /\ ~Trailing)
       => Len(got) = tx_buffer_ptr_reg + 1
    /\ tx_engine_reg \in {"TX_SENT", "TX_DONE"} => tx_buffer_ptr_reg = tx_msg_len_reg

(* The second byte of the message in tx_buffer tells its length.           *)
MessageInv == test_engine_reg = "TEST_SEND_RESPONSE" =>
    /\ tx_msg_len_reg >= 2
    /\ tx_msg_len_reg + 1 = ResponseLength(tx_buffer[1])

\* The lengths of responses.
LEMMA ResponseLengths == \A b : ResponseLength(b) \in {3, 4, 5, 9}
BY DEF ResponseLength

\* The host takes a response as complete when its last byte is released.
LEMMA CompleteIff ==
    ASSUME TypeInv, EngineInv, GotInv, MessageInv, tx_engine_reg = "TX_NOACK", tx_ack
    PROVE  Complete(got) <=> tx_buffer_ptr_reg = tx_msg_len_reg
<1>1. test_engine_reg = "TEST_SEND_RESPONSE"
  BY DEF EngineInv
<1>2. tx_msg_len_reg >= 2 /\ tx_msg_len_reg + 1 = ResponseLength(tx_buffer[1])
  BY <1>1 DEF MessageInv
<1>3. Len(got) = tx_buffer_ptr_reg + 1
  BY DEF GotInv, Trailing
<1>4. tx_buffer_ptr_reg \in Nat /\ tx_msg_len_reg \in Nat
  BY DEF TypeInv, TxTypes, MessageTypes, TxSlots
<1>5. ASSUME Len(got) >= 2 PROVE got[2] = tx_buffer[1]
  <2>1. 2 \in 1 .. Len(got)
    BY <1>3, <1>4, <1>5
  <2>2. got[2] = tx_buffer[2 - 1]
    BY <2>1 DEF GotInv
  <2> QED BY <2>2
<1> QED BY <1>2, <1>3, <1>4, <1>5 DEF Complete

(* In every state of tx_engine the host has a prefix of the message: it    *)
(* takes a byte once, and the byte it takes is the one at the index.       *)
LEMMA GotKept ==
    ASSUME TypeInv, EngineInv, TxLineInv, GotInv, MessageInv,
           TxTypes', MessageTypes', TxLineInv',
           TxEngine, TestEngine(core_read_data, core_error), HostReceives
    PROVE  GotInv'
<1>0. LinkTypes /\ TxTypes
  BY DEF TypeInv
<1>1. CASE tx_engine_reg = "TX_IDLE"
  <2>1. got = <<>> /\ ~tx_ack /\ ~tx_syn_reg
    BY <1>1 DEF GotInv, TxLineInv
  <2>2. got' = <<>> /\ ~tx_ack'
    <3>1. got' = got /\ tx_ack' = tx_ack
      BY <2>1, <1>0, HostAck
    <3> QED BY <2>1, <3>1
  <2>3. /\ tx_engine_reg' \in {"TX_IDLE", "TX_SYN"}
        /\ tx_buffer_ptr_reg' = 0
    BY <1>0, <1>1, TxMoves DEF TxTypes
  <2>4. got' \in Seq(Byte) /\ Len(got') = 0
    BY <2>2, EmptySeq
  <2> QED BY <2>2, <2>3, <2>4 DEF GotInv, Trailing
<1>2. CASE tx_engine_reg # "TX_IDLE"
  <2>1. tx_msg_len_reg' = tx_msg_len_reg /\ tx_buffer' = tx_buffer
    BY <1>2, MessageFixed
  <2>2. CASE tx_engine_reg = "TX_SYN" /\ ~tx_ack
    <3>1. tx_engine_reg' = "TX_SYN" /\ tx_buffer_ptr_reg' = tx_buffer_ptr_reg
      BY <2>2, TxMoves DEF TxLineInv
    <3>2. Len(got) = tx_buffer_ptr_reg
      BY <2>2 DEF GotInv
    <3>3. CASE HostTakes /\ tx_ack' = TRUE
      <4>1. got' = Append(got, tx_buffer[tx_buffer_ptr_reg])
        BY <3>3 DEF HostTakes, tx_data
      <4>2. tx_buffer[tx_buffer_ptr_reg] \in Byte
        BY DEF TypeInv, TxTypes, MessageTypes
      <4> DEFINE b == tx_buffer[tx_buffer_ptr_reg]
      <4>3. got \in Seq(Byte) /\ b \in Byte
        BY <4>2 DEF GotInv
      <4> HIDE DEF b
      <4>4. /\ Append(got, b) \in Seq(Byte) /\ Len(Append(got, b)) = Len(got) + 1
            /\ \A i \in 1 .. Len(got) : Append(got, b)[i] = got[i]
            /\ Append(got, b)[Len(got) + 1] = b
        BY <4>3, AppendProperties
      <4>5. /\ got' \in Seq(Byte) /\ Len(got') = Len(got) + 1
            /\ \A i \in 1 .. Len(got) : got'[i] = got[i]
            /\ got'[Len(got) + 1] = tx_buffer[tx_buffer_ptr_reg]
        BY <4>1, <4>4 DEF b
      <4>6. \A j \in 1 .. Len(got') : got'[j] = tx_buffer'[j - 1]
        <5> SUFFICES ASSUME NEW j \in 1 .. Len(got') PROVE got'[j] = tx_buffer[j - 1]
          BY <2>1
        <5>1. Len(got) \in Nat
          BY <4>3, LenProperties
        <5>2. CASE j \in 1 .. Len(got)
          BY <5>2, <4>5 DEF GotInv
        <5>3. CASE j = Len(got) + 1
          <6>1. j - 1 = tx_buffer_ptr_reg
            BY <3>2, <5>1, <5>3
          <6> QED BY <4>5, <5>3, <6>1
        <5> QED BY <4>5, <5>1, <5>2, <5>3
      <4> QED BY <3>1, <3>2, <3>3, <4>5, <4>6 DEF GotInv, Trailing
    <3>4. CASE got' = got /\ tx_ack' = tx_ack
      BY <2>1, <2>2, <3>1, <3>4 DEF GotInv, Trailing
    <3> QED BY <1>0, <2>2, <3>3, <3>4, HostAck
  <2>3. CASE tx_engine_reg = "TX_SYN" /\ tx_ack
    <3>1. /\ tx_engine_reg' \in {"TX_SYN", "TX_NOACK"}
          /\ tx_buffer_ptr_reg' = tx_buffer_ptr_reg
      BY <2>3, TxMoves
    <3>2. got' = got /\ tx_ack' = tx_ack
      BY <1>0, <2>3, HostAck DEF TxLineInv
    <3> QED BY <2>1, <2>3, <3>1, <3>2 DEF GotInv, Trailing
  <2>4. CASE tx_engine_reg = "TX_NOACK" /\ tx_ack
    <3>1. tx_engine_reg' = "TX_NOACK" /\ tx_buffer_ptr_reg' = tx_buffer_ptr_reg
      BY <2>4, TxMoves DEF TxLineInv
    <3>2. Len(got) = tx_buffer_ptr_reg + 1
      BY <2>4 DEF GotInv, Trailing
    <3>3. CASE got' = got /\ tx_ack' = tx_ack
      BY <2>1, <2>4, <3>1, <3>2, <3>3 DEF GotInv, Trailing
    <3>4. CASE HostReleases /\ tx_ack' = FALSE
      <4>1. CASE Complete(got)
        <5>1. tx_buffer_ptr_reg = tx_msg_len_reg
          BY <2>4, <4>1, CompleteIff
        <5>2. got' = <<>>
          BY <3>4, <4>1 DEF HostReleases
        <5>3. got' \in Seq(Byte) /\ Len(got') = 0
          BY <5>2, EmptySeq
        <5>4. Trailing'
          BY <2>1, <3>1, <3>4, <5>1 DEF Trailing
        <5> QED BY <2>1, <3>1, <5>1, <5>2, <5>3, <5>4 DEF GotInv
      <4>2. CASE ~Complete(got)
        <5>1. tx_buffer_ptr_reg # tx_msg_len_reg
          BY <2>4, <4>2, CompleteIff
        <5>2. got' = got
          BY <3>4, <4>2 DEF HostReleases
        <5> QED BY <2>1, <3>1, <3>2, <5>1, <5>2 DEF GotInv, Trailing
      <4> QED BY <4>1, <4>2
    <3> QED BY <1>0, <2>4, <3>3, <3>4, HostAck
  <2>5. CASE tx_engine_reg = "TX_NOACK" /\ ~tx_ack
    <3>1. /\ tx_engine_reg' \in {"TX_NOACK", "TX_NEXT"}
          /\ tx_buffer_ptr_reg' = tx_buffer_ptr_reg
      BY <2>5, TxMoves
    <3>2. got' = got /\ tx_ack' = tx_ack
      BY <1>0, <2>5, HostAck DEF TxLineInv
    <3> QED BY <2>1, <2>5, <3>1, <3>2 DEF GotInv, Trailing
  <2>6. CASE tx_engine_reg = "TX_NEXT"
    <3>1. got' = got /\ tx_ack' = tx_ack /\ ~tx_ack
      BY <1>0, <2>6, HostAck DEF TxLineInv
    <3>3. CASE tx_buffer_ptr_reg = tx_msg_len_reg
      <4>1. tx_engine_reg' = "TX_SENT" /\ tx_buffer_ptr_reg' = tx_buffer_ptr_reg
        BY <2>6, <3>3, TxMoves
      <4>2. got = <<>>
        BY <2>6, <3>1, <3>3 DEF GotInv, Trailing
      <4> QED BY <2>1, <3>1, <3>3, <4>1, <4>2 DEF GotInv, Trailing
    <3>4. CASE tx_buffer_ptr_reg # tx_msg_len_reg
      <4>1. /\ tx_engine_reg' = "TX_SYN"
            /\ tx_buffer_ptr_reg' = (tx_buffer_ptr_reg + 1) % 16
        BY <2>6, <3>4, TxMoves
      <4>2. tx_buffer_ptr_reg' = tx_buffer_ptr_reg + 1
        BY <1>0, <4>1 DEF TxTypes, TxSlots
      <4>3. Len(got) = tx_buffer_ptr_reg + 1
        BY <2>6, <3>4 DEF GotInv, Trailing
      <4> QED BY <2>1, <3>1, <4>1, <4>2, <4>3 DEF GotInv, Trailing
    <3> QED BY <3>3, <3>4
  <2>7. CASE tx_engine_reg \in {"TX_SENT", "TX_DONE"}
    <3>1. got' = got /\ tx_ack' = tx_ack /\ ~tx_ack
      BY <1>0, <2>7, HostAck DEF TxLineInv
    <3>2. \/ tx_engine_reg' = "TX_DONE" /\ tx_buffer_ptr_reg' = tx_buffer_ptr_reg
          \/ tx_engine_reg' = "TX_IDLE"
      BY <2>7, TxMoves
    <3>3. got = <<>> /\ tx_buffer_ptr_reg = tx_msg_len_reg
      BY <2>7 DEF GotInv, Trailing
    <3>4. got' \in Seq(Byte) /\ Len(got') = 0
      BY <3>1, <3>3, EmptySeq
    <3> QED BY <2>1, <3>1, <3>2, <3>3, <3>4 DEF GotInv, Trailing
  <2> QED BY <1>0, <1>2, <2>2, <2>3, <2>4, <2>5, <2>6, <2>7 DEF TxTypes
<1> QED BY <1>1, <1>2

\* A message is in the buffer when test_engine starts to wait for its end.
LEMMA MessageKept ==
    ASSUME TypeInv, MessageInv, TestEngine(core_read_data, core_error)
    PROVE  MessageInv'
<1>1. CASE BuildResponse
  <2> DEFINE m == Message(response_type)
  <2>1. /\ m \in Seq(Byte) /\ Len(m) \in {3, 4, 5, 9}
        /\ Len(m) = ResponseLength(m[2])
    BY MessageOfRegisters, ResponseBytes DEF TypeInv, ParserTypes, BusTypes
  <2>2. /\ tx_buffer' = [s \in TxSlots |-> IF s < Len(m) THEN m[s + 1] ELSE Zero]
        /\ tx_msg_len_reg' = Len(m) - 1
    BY <1>1 DEF BuildResponse, UpdateTxBuffer
  <2> HIDE DEF m
  <2>3. 1 \in TxSlots /\ 1 < Len(m)
    BY <2>1 DEF TxSlots
  <2>4. tx_buffer'[1] = m[2]
    BY <2>2, <2>3
  <2>5. tx_msg_len_reg' >= 2 /\ tx_msg_len_reg' + 1 = Len(m)
    BY <2>1, <2>2
  <2> QED BY <2>1, <2>4, <2>5 DEF MessageInv
<1>2. CASE SendResponse
  BY <1>2 DEF SendResponse, messageRegs, MessageInv
<1>3. CASE Parse
  <2>1. test_engine_reg' # "TEST_SEND_RESPONSE"
    BY <1>3, EngineStates DEF TakingStates
  <2> QED BY <2>1 DEF MessageInv
<1>4. CASE Access(core_read_data, core_error)
  <2>1. test_engine_reg' # "TEST_SEND_RESPONSE"
    BY <1>4 DEF Access, CoreReset, AccessStart, AccessWait
  <2> QED BY <2>1 DEF MessageInv
<1> QED BY <1>1, <1>2, <1>3, <1>4 DEF TestEngine, Respond

(* The oldest command was carried out when its answer is being built or    *)
(* sent.                                                                   *)
ExecInv == executed <=> \/ test_engine_reg \in EndStates
                        \/ test_engine_reg = "TEST_SEND_RESPONSE" /\ ~Trailing

\* A response is answered when the last of its bytes is released.
LEMMA WhenAnswered ==
    ASSUME TypeInv, EngineInv, TxLineInv, GotInv, MessageInv, HostReceives
    PROVE  Answered <=> /\ tx_engine_reg = "TX_NOACK" /\ tx_ack /\ tx_ack' = FALSE
                        /\ tx_buffer_ptr_reg = tx_msg_len_reg
<1>0. LinkTypes
  BY DEF TypeInv
<1>1. tx_ack => tx_engine_reg \in {"TX_SYN", "TX_NOACK"}
  BY DEF TxLineInv
<1>2. Answered => tx_engine_reg = "TX_NOACK" /\ tx_ack /\ tx_ack' = FALSE
  BY <1>1 DEF Answered, TxLineInv
<1>3. tx_engine_reg = "TX_NOACK" => ~tx_syn_reg
  BY DEF TxLineInv
<1>4. (tx_engine_reg = "TX_NOACK" /\ tx_ack) =>
         (Complete(got) <=> tx_buffer_ptr_reg = tx_msg_len_reg)
  BY CompleteIff
<1> QED BY <1>2, <1>3, <1>4 DEF Answered

\* How the tail of a transmission begins and ends.
LEMMA TrailingMoves ==
    ASSUME TypeInv, EngineInv, TxLineInv, GotInv, MessageInv,
           TxEngine, TestEngine(core_read_data, core_error), HostReceives
    PROVE  /\ Answered => /\ ~Trailing /\ Trailing'
                           /\ SendResponse /\ tx_engine_reg' = "TX_NOACK"
           /\ ~Answered /\ ~Trailing => ~Trailing'
           /\ Trailing => \/ Trailing' /\ tx_engine_reg # "TX_DONE"
                          \/ ~Trailing' /\ tx_engine_reg = "TX_DONE"
<1>0. LinkTypes /\ TxTypes
  BY DEF TypeInv
<1>1. Answered <=> /\ tx_engine_reg = "TX_NOACK" /\ tx_ack /\ tx_ack' = FALSE
                   /\ tx_buffer_ptr_reg = tx_msg_len_reg
  BY WhenAnswered
<1>2. tx_engine_reg # "TX_IDLE" => tx_msg_len_reg' = tx_msg_len_reg /\ SendResponse
  BY MessageFixed
<1>3. Answered => ~Trailing /\ Trailing' /\ SendResponse /\ tx_engine_reg' = "TX_NOACK"
  <2> SUFFICES ASSUME Answered
                PROVE  ~Trailing /\ Trailing' /\ SendResponse /\ tx_engine_reg' = "TX_NOACK"
    OBVIOUS
  <2>1. tx_engine_reg = "TX_NOACK" /\ tx_ack /\ tx_ack_reg
    BY <1>1 DEF TxLineInv
  <2>2. tx_engine_reg' = "TX_NOACK" /\ tx_buffer_ptr_reg' = tx_buffer_ptr_reg
    BY <2>1, TxMoves
  <2> QED BY <1>1, <1>2, <2>1, <2>2 DEF Trailing
<1>4. ~Answered /\ ~Trailing => ~Trailing'
  <2> SUFFICES ASSUME ~Answered, ~Trailing PROVE ~Trailing'
    OBVIOUS
  <2>1. CASE tx_engine_reg \in {"TX_IDLE", "TX_SYN"}
    <3>1. tx_engine_reg' \in {"TX_IDLE", "TX_SYN"} \/ (tx_engine_reg' = "TX_NOACK" /\ tx_ack')
      <4>1. tx_engine_reg = "TX_SYN" /\ tx_ack_reg => tx_ack /\ tx_syn_reg
        BY DEF TxLineInv
      <4>2. tx_ack /\ tx_syn_reg => tx_ack' = tx_ack
        BY <1>0, HostAck
      <4> QED BY <2>1, <4>1, <4>2, TxMoves
    <3> QED BY <3>1 DEF Trailing
  <2>2. CASE tx_engine_reg = "TX_NOACK" /\ tx_ack
    <3>1. tx_engine_reg' = "TX_NOACK" /\ tx_buffer_ptr_reg' = tx_buffer_ptr_reg
      BY <2>2, TxMoves DEF TxLineInv
    <3>2. tx_ack' = TRUE \/ tx_buffer_ptr_reg # tx_msg_len_reg
      BY <1>0, <1>1, <2>2, HostAck
    <3> QED BY <1>2, <2>2, <3>1, <3>2 DEF Trailing
  <2>3. CASE tx_engine_reg = "TX_NOACK" /\ ~tx_ack
    <3>1. /\ tx_engine_reg' \in {"TX_NOACK", "TX_NEXT"}
          /\ tx_buffer_ptr_reg' = tx_buffer_ptr_reg
      BY <2>3, TxMoves
    <3> QED BY <1>2, <2>3, <3>1 DEF Trailing
  <2>4. CASE tx_engine_reg = "TX_NEXT"
    <3>1. ~tx_ack /\ tx_buffer_ptr_reg # tx_msg_len_reg
      BY <2>4 DEF TxLineInv, Trailing
    <3>2. tx_engine_reg' = "TX_SYN"
      BY <2>4, <3>1, TxMoves
    <3> QED BY <3>2 DEF Trailing
  <2> QED BY <1>0, <2>1, <2>2, <2>3, <2>4 DEF Trailing, TxTypes
<1>5. Trailing => \/ Trailing' /\ tx_engine_reg # "TX_DONE"
                  \/ ~Trailing' /\ tx_engine_reg = "TX_DONE"
  <2> SUFFICES ASSUME Trailing
                PROVE  \/ Trailing' /\ tx_engine_reg # "TX_DONE"
                       \/ ~Trailing' /\ tx_engine_reg = "TX_DONE"
    OBVIOUS
  <2>1. ~tx_ack /\ ~tx_syn_reg
    BY DEF TxLineInv, Trailing
  <2>2. tx_ack' = tx_ack
    BY <1>0, <2>1, HostAck
  <2>3. CASE tx_engine_reg = "TX_NOACK"
    <3>1. /\ tx_engine_reg' \in {"TX_NOACK", "TX_NEXT"}
          /\ tx_buffer_ptr_reg' = tx_buffer_ptr_reg
      BY <2>3, TxMoves
    <3>2. tx_buffer_ptr_reg = tx_msg_len_reg
      BY <2>3 DEF Trailing
    <3> QED BY <1>2, <2>1, <2>2, <2>3, <3>1, <3>2 DEF Trailing
  <2>4. CASE tx_engine_reg \in {"TX_NEXT", "TX_SENT"}
    <3>1. tx_engine_reg' \in {"TX_SENT", "TX_DONE"}
      BY <2>4, TxMoves DEF Trailing
    <3> QED BY <2>4, <3>1 DEF Trailing
  <2>5. CASE tx_engine_reg = "TX_DONE"
    <3>1. tx_engine_reg' = "TX_IDLE"
      BY <2>5, TxMoves
    <3> QED BY <2>5, <3>1 DEF Trailing
  <2> QED BY <2>3, <2>4, <2>5 DEF Trailing
<1> QED BY <1>3, <1>4, <1>5

(* The command is carried out once: when test_engine leaves a wait state   *)
(* or refuses it, and not again before its answer was delivered.           *)
LEMMA ExecKept ==
    ASSUME TypeInv, EngineInv, TxLineInv, GotInv, MessageInv, ExecInv,
           TxEngine, TestEngine(core_read_data, core_error), HostReceives, History
    PROVE  ExecInv'
<1>1. executed' <=> (executed \/ Executes) /\ ~Answered
  BY DEF History
<1>2. ~Answered \/ SendResponse
  BY TrailingMoves
<1>3. CASE Parse
  <2>1. ~Answered
    BY <1>2, <1>3, EngineStates DEF TakingStates
  <2>2. ~executed /\ test_engine_reg \in TakingStates \cup {"TEST_PARSE_CMD"}
    BY <1>3, EngineStates DEF ExecInv, TakingStates, EndStates
  <2>3. test_engine_reg' \in TakingStates \cup {"TEST_PARSE_CMD", "TEST_CMD_UNKNOWN",
           "TEST_CMD_ERROR", "TEST_RST_START", "TEST_RD_START", "TEST_WR_START"}
    BY <1>3, EngineStates DEF TakingStates
  <2>4. executed' <=> test_engine_reg' \in {"TEST_CMD_UNKNOWN", "TEST_CMD_ERROR"}
    BY <1>1, <2>1, <2>2 DEF Executes, TakingStates
  <2> QED BY <2>3, <2>4 DEF ExecInv, EndStates, TakingStates
<1>4. CASE Access(core_read_data, core_error)
  <2>1. /\ test_engine_reg \in {"TEST_RST_START", "TEST_RST_WAIT", "TEST_RD_START",
             "TEST_RD_WAIT", "TEST_WR_START", "TEST_WR_WAIT"}
        /\ test_engine_reg \in {"TEST_RST_START", "TEST_RD_START", "TEST_WR_START"} =>
              test_engine_reg' \in {"TEST_RST_WAIT", "TEST_RD_WAIT", "TEST_WR_WAIT"}
        /\ test_engine_reg \in {"TEST_RST_WAIT", "TEST_RD_WAIT", "TEST_WR_WAIT"} =>
              test_engine_reg' \in {"TEST_RST_END", "TEST_RD_END", "TEST_WR_END"}
    BY <1>4 DEF Access, CoreReset, AccessStart, AccessWait
  <2>2. ~Answered
    BY <1>2, <2>1 DEF SendResponse
  <2>3. ~executed
    BY <2>1 DEF ExecInv, EndStates
  <2>4. executed' <=> test_engine_reg \in {"TEST_RST_WAIT", "TEST_RD_WAIT", "TEST_WR_WAIT"}
    BY <1>1, <2>1, <2>2, <2>3 DEF Executes
  <2> QED BY <2>1, <2>4 DEF ExecInv, EndStates
<1>5. CASE BuildResponse
  <2>1. test_engine_reg \in EndStates /\ test_engine_reg' = "TEST_SEND_RESPONSE"
    BY <1>5 DEF BuildResponse
  <2>2. ~Answered /\ executed
    BY <1>2, <2>1 DEF SendResponse, ExecInv, EndStates
  <2>3. tx_engine_reg = "TX_IDLE" /\ ~send_response_reg
    BY <2>1 DEF EngineInv, EndStates
  <2>4. tx_engine_reg' = "TX_IDLE"
    BY <2>3, TxMoves
  <2>5. executed' /\ ~Trailing'
    BY <1>1, <2>2, <2>4 DEF Trailing
  <2> QED BY <2>1, <2>5 DEF ExecInv
<1>6. CASE SendResponse
  <2>1. /\ test_engine_reg = "TEST_SEND_RESPONSE"
        /\ test_engine_reg' = IF response_sent_reg THEN "TEST_IDLE" ELSE "TEST_SEND_RESPONSE"
    BY <1>6 DEF SendResponse
  <2>2. executed <=> ~Trailing
    BY <2>1 DEF ExecInv, EndStates
  <2>3. ~Executes
    BY <2>1 DEF Executes
  <2>4. response_sent_reg <=> tx_engine_reg = "TX_DONE"
    BY DEF EngineInv
  <2>5. CASE tx_engine_reg = "TX_DONE"
    <3>1. ~executed
      BY <2>2, <2>5 DEF Trailing
    <3>2. test_engine_reg' = "TEST_IDLE" /\ ~executed'
      BY <1>1, <2>1, <2>3, <2>4, <2>5, <3>1
    <3> QED BY <3>2 DEF ExecInv, EndStates
  <2>6. CASE tx_engine_reg # "TX_DONE"
    <3>1. test_engine_reg' = "TEST_SEND_RESPONSE"
      BY <2>1, <2>4, <2>6
    <3>2. executed' <=> ~Trailing'
      BY <1>1, <2>2, <2>3, <2>6, TrailingMoves
    <3> QED BY <3>1, <3>2 DEF ExecInv, EndStates
  <2> QED BY <2>5, <2>6
<1> QED BY <1>3, <1>4, <1>5, <1>6 DEF TestEngine, Respond

-----------------------------------------------------------------------------
Accepted == core_addr_reg \in Addresses

(* What the state of test_engine says of the bus and of the core: the      *)
(* reset and the write are done, and the core's answer is sampled, when    *)
(* the engine goes on to the response.                                     *)
BusInv ==
    /\ core_reset_n_reg <=> test_engine_reg \notin {"TEST_RST_WAIT", "TEST_RST_END"}
    /\ core_cs_reg <=> test_engine_reg \in {"TEST_RD_WAIT", "TEST_RD_END",
                                            "TEST_WR_WAIT", "TEST_WR_END"}
    /\ core_we_reg <=> test_engine_reg \in {"TEST_WR_WAIT", "TEST_WR_END"}
    /\ test_engine_reg = "TEST_RST_END" => mem = [a \in Addresses |-> ZeroWord]
    /\ test_engine_reg \in {"TEST_RD_END", "TEST_WR_END"} => (core_error_reg <=> ~Accepted)
    /\ test_engine_reg = "TEST_RD_END" /\ Accepted => core_read_data_reg = mem[core_addr_reg]
    /\ test_engine_reg = "TEST_WR_END" /\ Accepted => mem[core_addr_reg] = core_wr_data_reg

\* What a clock does to the core in each state of test_engine.
LEMMA CoreMoves ==
    ASSUME TypeInv, BusInv, CoreClock
    PROVE  /\ test_engine_reg \in {"TEST_RST_WAIT", "TEST_RST_END"} =>
                 mem' = [a \in Addresses |-> ZeroWord]
           /\ test_engine_reg \in {"TEST_WR_WAIT", "TEST_WR_END"} /\ Accepted =>
                 mem' = [mem EXCEPT ![core_addr_reg] = core_wr_data_reg]
           /\ (\/ test_engine_reg \in {"TEST_WR_WAIT", "TEST_WR_END"} /\ ~Accepted
               \/ test_engine_reg \notin {"TEST_RST_WAIT", "TEST_RST_END",
                                          "TEST_WR_WAIT", "TEST_WR_END"}) =>
                 mem' = mem
           /\ test_engine_reg \in {"TEST_WR_END", "TEST_RST_END"} => mem' = mem
<1>1. test_engine_reg \in {"TEST_RST_WAIT", "TEST_RST_END"} =>
         mem' = [a \in Addresses |-> ZeroWord]
  BY DEF BusInv, CoreClock
<1>2. test_engine_reg \in {"TEST_WR_WAIT", "TEST_WR_END"} /\ Accepted =>
         mem' = [mem EXCEPT ![core_addr_reg] = core_wr_data_reg]
  BY DEF BusInv, CoreClock, Accepted
<1>3. (\/ test_engine_reg \in {"TEST_WR_WAIT", "TEST_WR_END"} /\ ~Accepted
       \/ test_engine_reg \notin {"TEST_RST_WAIT", "TEST_RST_END",
                                  "TEST_WR_WAIT", "TEST_WR_END"}) =>
         mem' = mem
  BY DEF BusInv, CoreClock, Accepted
<1>4. test_engine_reg = "TEST_RST_END" => mem' = mem
  BY <1>1 DEF BusInv
<1>5. test_engine_reg = "TEST_WR_END" /\ Accepted => mem' = mem
  <2> SUFFICES ASSUME test_engine_reg = "TEST_WR_END", Accepted PROVE mem' = mem
    OBVIOUS
  <2>1. mem' = [mem EXCEPT ![core_addr_reg] = core_wr_data_reg]
    BY <1>2
  <2>2. mem[core_addr_reg] = core_wr_data_reg
    BY DEF BusInv
  <2>3. mem \in [Addresses -> Word]
    BY DEF TypeInv, CoreTypes
  <2> QED BY <2>1, <2>2, <2>3
<1> QED BY <1>1, <1>2, <1>3, <1>4, <1>5

(* Every step of test_engine keeps the bus in the state that belongs to    *)
(* it.                                                                     *)
LEMMA BusKept ==
    ASSUME TypeInv, BusInv, TestEngine(core_read_data, core_error), CoreClock
    PROVE  BusInv'
<1>1. CASE Parse
  <2>1. /\ test_engine_reg \in TakingStates \cup {"TEST_PARSE_CMD"}
        /\ test_engine_reg' \in TakingStates \cup {"TEST_PARSE_CMD", "TEST_CMD_UNKNOWN",
              "TEST_CMD_ERROR", "TEST_RST_START", "TEST_RD_START", "TEST_WR_START"}
    BY <1>1, EngineStates
  <2>2. UNCHANGED <<core_reset_n_reg, core_cs_reg, core_we_reg>>
    BY <1>1 DEF Parse, Parsing, busRegs
  <2> QED BY <2>1, <2>2 DEF BusInv, TakingStates
<1>2. CASE CoreReset /\ UNCHANGED commandRegs
  <2>1. /\ UNCHANGED <<core_cs_reg, core_we_reg>>
        /\ \/ /\ test_engine_reg = "TEST_RST_START" /\ core_reset_n_reg' = FALSE
              /\ test_engine_reg' = "TEST_RST_WAIT"
           \/ /\ test_engine_reg = "TEST_RST_WAIT" /\ core_reset_n_reg' = core_reset_n_reg
              /\ test_engine_reg' = "TEST_RST_END"
    BY <1>2 DEF CoreReset
  <2>2. test_engine_reg = "TEST_RST_WAIT" => mem' = [a \in Addresses |-> ZeroWord]
    BY CoreMoves
  <2> QED BY <2>1, <2>2 DEF BusInv
<1>3. CASE AccessStart /\ UNCHANGED commandRegs
  BY <1>3 DEF AccessStart, BusInv
<1>4. CASE AccessWait(core_read_data, core_error) /\ UNCHANGED commandRegs
  <2>1. UNCHANGED <<core_reset_n_reg, core_cs_reg, core_we_reg, core_addr_reg, core_wr_data_reg>>
    BY <1>4 DEF AccessWait, busRegs, commandRegs
  <2>2. /\ core_read_data_reg' = core_read_data /\ core_error_reg' = core_error
        /\ \/ test_engine_reg = "TEST_RD_WAIT" /\ test_engine_reg' = "TEST_RD_END"
           \/ test_engine_reg = "TEST_WR_WAIT" /\ test_engine_reg' = "TEST_WR_END"
    BY <1>4 DEF AccessWait
  <2>3. core_cs_reg
    BY <2>2 DEF BusInv
  <2>4. /\ core_error_reg' <=> ~Accepted
        /\ Accepted => core_read_data_reg' = mem[core_addr_reg]
        /\ Accepted' <=> Accepted
    BY <2>1, <2>2, <2>3 DEF core_read_data, core_error, Accepted
  <2>5. CASE test_engine_reg = "TEST_RD_WAIT" /\ test_engine_reg' = "TEST_RD_END"
    <3>1. mem' = mem
      BY <2>5, CoreMoves
    <3> QED BY <2>1, <2>4, <2>5, <3>1 DEF BusInv
  <2>6. CASE test_engine_reg = "TEST_WR_WAIT" /\ test_engine_reg' = "TEST_WR_END"
    <3>1. Accepted => mem'[core_addr_reg'] = core_wr_data_reg'
      <4> SUFFICES ASSUME Accepted PROVE mem'[core_addr_reg'] = core_wr_data_reg'
        OBVIOUS
      <4>1. mem' = [mem EXCEPT ![core_addr_reg] = core_wr_data_reg]
        BY <2>6, CoreMoves
      <4>2. mem \in [Addresses -> Word] /\ core_addr_reg \in Addresses
        BY DEF TypeInv, CoreTypes, Accepted
      <4> QED BY <2>1, <4>1, <4>2
    <3> QED BY <2>1, <2>4, <2>6, <3>1 DEF BusInv
  <2> QED BY <2>2, <2>5, <2>6
<1>5. CASE BuildResponse
  <2>1. /\ test_engine_reg' = "TEST_SEND_RESPONSE"
        /\ test_engine_reg \in EndStates
        /\ core_reset_n_reg' = (core_reset_n_reg \/ test_engine_reg = "TEST_RST_END")
        /\ core_cs_reg' = (core_cs_reg /\ test_engine_reg \notin {"TEST_RD_END", "TEST_WR_END"})
        /\ core_we_reg' = (core_we_reg /\ test_engine_reg # "TEST_WR_END")
    BY <1>5 DEF BuildResponse
  <2> QED BY <2>1 DEF BusInv, EndStates
<1>6. CASE SendResponse
  <2>1. /\ test_engine_reg = "TEST_SEND_RESPONSE"
        /\ test_engine_reg' \in {"TEST_IDLE", "TEST_SEND_RESPONSE"}
        /\ UNCHANGED <<core_reset_n_reg, core_cs_reg, core_we_reg>>
    BY <1>6 DEF SendResponse, busRegs
  <2> QED BY <2>1 DEF BusInv
<1> QED BY <1>1, <1>2, <1>3, <1>4, <1>5, <1>6 DEF TestEngine, Access, Respond

-----------------------------------------------------------------------------
(* With one command at a time of a length coretest knows, the receive      *)
(* buffer holds at most one byte, and only for one clock.                  *)
RingInv ==
    /\ rx_buffer_ctr_reg \in {0, 1}
    /\ unread = rx_buffer_ctr_reg
    /\ rx_buffer_ctr_reg = 0 => rx_buffer_wr_ptr_reg = rx_buffer_rd_ptr_reg
    /\ rx_buffer_ctr_reg = 1 =>
          /\ rx_buffer_wr_ptr_reg = Wrap(rx_buffer_rd_ptr_reg + 1)
          /\ Taken /\ rx_syn
          /\ test_engine_reg \in TakingStates

\* A byte is between the host and the parser, and which one it is.
InFlight == rx_buffer_ctr_reg = 1 \/ Stored \/ Offered
Flying == CASE rx_buffer_ctr_reg = 1             -> rx_byte
            [] rx_buffer_ctr_reg # 1 /\ Stored   -> rx_buffer[rx_buffer_wr_ptr_reg]
            [] rx_buffer_ctr_reg # 1 /\ ~Stored  -> rx_data

(* The parser has taken the first k bytes of e: the next one is in flight, *)
(* and the host still has to send the others.                              *)
StreamInv(e, k) ==
    /\ k + (IF InFlight THEN 1 ELSE 0) + Len(to_send) = Len(e)
    /\ InFlight => Flying = e[k + 1]
    /\ \A j \in 1 .. Len(to_send) : to_send[j] = e[Len(e) - Len(to_send) + j]

\* One byte in the buffer at most, for one clock.
LEMMA RingMoves ==
    ASSUME TypeInv, LineInv, RingInv, RxEngine(rx_data), RxBufferPointers, History,
           HostSends, rx_syn_reg' = rx_syn
    PROVE  /\ rx_buffer_ctr_reg' \in {0, 1} /\ unread' = rx_buffer_ctr_reg'
           /\ rx_buffer_ctr_reg' = 0 => rx_buffer_wr_ptr_reg' = rx_buffer_rd_ptr_reg'
           /\ rx_buffer_ctr_reg' = 1 =>
                 rx_buffer_wr_ptr_reg' = Wrap(rx_buffer_rd_ptr_reg' + 1)
           /\ rx_buffer_ctr_reg' = 1 <=> Stored
           /\ rx_buffer_ctr_reg = 0 => rx_buffer_rd_ptr_reg' = rx_buffer_rd_ptr_reg
           /\ ~Stored => rx_buffer_wr_ptr_reg' = rx_buffer_wr_ptr_reg
           /\ rx_buffer_ctr_reg = 1 => Taken' /\ ~Stored /\ ~Offered
<1>0. LinkTypes /\ PointerTypes
  BY DEF TypeInv
<1>1. \A n \in RxSlots : Wrap(n) = n
  BY BufferMaxAssumption DEF Wrap, RxSlots
<1>2. 1 \in RxSlots /\ 0 \in RxSlots
  BY BufferMaxAssumption DEF RxSlots
<1>3. rx_buffer_rd_ptr_inc <=> rx_buffer_ctr_reg = 1
  BY DEF RingInv, rx_buffer_rd_ptr_inc, rx_buffer_empty
<1>4. rx_buffer_wr_ptr_inc <=> Stored
  BY DEF LineInv, Free, Offered, Stored, Taken, rx_buffer_wr_ptr_inc
<1>5. rx_buffer_ctr_reg = 1 => Taken /\ rx_syn /\ ~Stored /\ ~Offered
  BY DEF RingInv, Taken, Stored, Offered
<1>6. rx_buffer_ctr_reg = 1 => Taken'
  BY <1>0, <1>5, LineMoves
<1>7. CASE rx_buffer_ctr_reg = 1
  <2>1. rx_buffer_ctr_reg' = Wrap(rx_buffer_ctr_reg - 1)
    BY <1>3, <1>4, <1>5, <1>7 DEF RxBufferPointers
  <2>2. rx_buffer_ctr_reg' = 0
    BY <1>1, <1>2, <1>7, <2>1
  <2>3. unread' = unread + 0 - 1
    BY <1>3, <1>4, <1>5, <1>7 DEF History
  <2>4. /\ rx_buffer_rd_ptr_reg' = Wrap(rx_buffer_rd_ptr_reg + 1)
        /\ rx_buffer_wr_ptr_reg' = rx_buffer_wr_ptr_reg
    BY <1>3, <1>4, <1>5, <1>7 DEF RxBufferPointers
  <2>5. rx_buffer_wr_ptr_reg = Wrap(rx_buffer_rd_ptr_reg + 1) /\ unread = 1
    BY <1>7 DEF RingInv
  <2> QED BY <1>5, <1>6, <1>7, <2>2, <2>3, <2>4, <2>5
<1>8. CASE rx_buffer_ctr_reg = 0 /\ Stored
  <2>1. rx_buffer_ctr_reg' = Wrap(rx_buffer_ctr_reg + 1)
    BY <1>4, <1>8 DEF RxBufferPointers
  <2>2. rx_buffer_ctr_reg' = 1
    BY <1>1, <1>2, <1>8, <2>1
  <2>3. unread' = unread + 1 - 0
    BY <1>3, <1>4, <1>8 DEF History
  <2>4. /\ rx_buffer_rd_ptr_reg' = rx_buffer_rd_ptr_reg
        /\ rx_buffer_wr_ptr_reg' = Wrap(rx_buffer_wr_ptr_reg + 1)
    BY <1>3, <1>4, <1>8 DEF RxBufferPointers
  <2>5. rx_buffer_wr_ptr_reg = rx_buffer_rd_ptr_reg /\ unread = 0
    BY <1>8 DEF RingInv
  <2> QED BY <1>8, <2>2, <2>3, <2>4, <2>5
<1>9. CASE rx_buffer_ctr_reg = 0 /\ ~Stored
  <2>1. rx_buffer_ctr_reg' = 0
    BY <1>3, <1>4, <1>9 DEF RxBufferPointers
  <2>2. unread' = unread + 0 - 0
    BY <1>3, <1>4, <1>9 DEF History
  <2>3. /\ rx_buffer_rd_ptr_reg' = rx_buffer_rd_ptr_reg
        /\ rx_buffer_wr_ptr_reg' = rx_buffer_wr_ptr_reg
    BY <1>3, <1>4, <1>9 DEF RxBufferPointers
  <2>4. rx_buffer_wr_ptr_reg = rx_buffer_rd_ptr_reg /\ unread = 0
    BY <1>9 DEF RingInv
  <2> QED BY <1>9, <2>1, <2>2, <2>3, <2>4
<1> QED BY <1>7, <1>8, <1>9 DEF RingInv

\* The first byte of a sequence goes, the others stay in place.
LEMMA HeadGoes ==
    ASSUME NEW s \in Seq(Byte), s # <<>>
    PROVE  /\ Tail(s) \in Seq(Byte) /\ Len(Tail(s)) = Len(s) - 1
           /\ Head(s) = s[1] /\ Len(s) \in Nat \ {0}
           /\ \A j \in 1 .. Len(Tail(s)) : Tail(s)[j] = s[j + 1]
<1>1. Len(s) \in Nat \ {0}
  BY EmptySeq
<1>2. /\ Tail(s) \in Seq(Byte) /\ Len(Tail(s)) = Len(s) - 1
      /\ \A j \in 1 .. Len(Tail(s)) : Tail(s)[j] = s[j + 1]
  BY HeadTailProperties
<1> QED BY <1>1, <1>2

\* Without a take or a new command, the stream stays where it is.
LEMMA StreamWaits ==
    ASSUME TypeInv, LineInv, RingInv, RxEngine(rx_data), RxBufferPointers, History,
           HostSends, rx_syn_reg' = rx_syn,
           rx_buffer_ctr_reg = 0, ~HostIssues,
           NEW e \in Seq(Byte), NEW k \in Nat, StreamInv(e, k)
    PROVE  StreamInv(e, k)'
<1>0. LinkTypes /\ to_send \in Seq(Byte)
  BY DEF TypeInv, LinkTypes
<1>1. /\ rx_buffer_ctr_reg' = 1 <=> Stored
      /\ rx_buffer_rd_ptr_reg' = rx_buffer_rd_ptr_reg
      /\ ~Stored => rx_buffer_wr_ptr_reg' = rx_buffer_wr_ptr_reg
      /\ rx_buffer_wr_ptr_reg = rx_buffer_rd_ptr_reg
      /\ rx_buffer_ctr_reg' \in {0, 1}
  BY RingMoves DEF RingInv
<1>2. to_send' = to_send \/ HostRaises
  BY DEF HostSends, HostLowers, HostWaits
<1>3. CASE Free
  <2>1. ~InFlight /\ ~Stored
    BY <1>3 DEF InFlight, Free, Stored, Offered
  <2>2. CASE HostRaises
    <3>1. /\ Len(to_send) \in Nat \ {0} /\ Len(to_send') = Len(to_send) - 1
          /\ rx_data' = to_send[1]
          /\ \A j \in 1 .. Len(to_send') : to_send'[j] = to_send[j + 1]
      BY <1>0, <2>2, HeadGoes DEF HostRaises
    <3>2. Offered'
      BY <1>0, <1>3, <2>2, LineMoves DEF HostRaises, Free, Offered
    <3>3. InFlight' /\ Flying' = rx_data'
      BY <1>1, <2>1, <3>2 DEF InFlight, Flying, Offered, Stored
    <3>4. k + Len(to_send) = Len(e)
      BY <2>1 DEF StreamInv
    <3>5. rx_data' = e[k + 1]
      <4>1. 1 \in 1 .. Len(to_send)
        BY <3>1
      <4>2. to_send[1] = e[Len(e) - Len(to_send) + 1]
        BY <4>1 DEF StreamInv
      <4>3. Len(e) - Len(to_send) = k
        BY <3>1, <3>4
      <4> QED BY <3>1, <4>2, <4>3
    <3>6. \A j \in 1 .. Len(to_send') : to_send'[j] = e[Len(e) - Len(to_send') + j]
      <4> SUFFICES ASSUME NEW j \in 1 .. Len(to_send')
                    PROVE  to_send'[j] = e[Len(e) - Len(to_send') + j]
        OBVIOUS
      <4>1. j + 1 \in 1 .. Len(to_send)
        BY <3>1
      <4>2. to_send[j + 1] = e[Len(e) - Len(to_send) + (j + 1)]
        BY <4>1 DEF StreamInv
      <4>3. Len(e) - Len(to_send) + (j + 1) = Len(e) - Len(to_send') + j
        <5>1. /\ Len(to_send) \in Nat /\ Len(to_send') = Len(to_send) - 1
              /\ Len(e) \in Nat /\ j \in Nat
          BY <3>1
        <5> QED BY <5>1
      <4> QED BY <3>1, <4>2, <4>3
    <3>7. k + 1 + Len(to_send') = Len(e)
      <4>1. Len(to_send) \in Nat /\ Len(to_send') = Len(to_send) - 1
        BY <3>1
      <4> QED BY <3>4, <4>1
    <3> QED BY <3>3, <3>5, <3>6, <3>7 DEF StreamInv
  <2>3. CASE ~HostRaises
    <3>1. Free' /\ to_send' = to_send
      BY <1>0, <1>2, <1>3, <2>3, LineMoves
    <3>2. ~InFlight'
      BY <1>1, <2>1, <3>1 DEF InFlight, Free, Stored, Offered
    <3> QED BY <2>1, <3>1, <3>2 DEF StreamInv
  <2> QED BY <2>2, <2>3
<1>4. CASE Offered
  <2>1. InFlight /\ ~Stored /\ Flying = rx_data
    BY <1>4 DEF InFlight, Stored, Offered, Flying
  <2>2. rx_data' = rx_data /\ to_send' = to_send
    BY <1>0, <1>2, <1>4, LineMoves
  <2>3. CASE Offered'
    <3>1. InFlight' /\ Flying' = rx_data'
      BY <1>1, <2>1, <2>3 DEF InFlight, Stored, Offered, Flying
    <3> QED BY <2>1, <2>2, <3>1 DEF StreamInv
  <2>4. CASE Stored' /\ RxStore(rx_data)
    <3>1. rx_buffer'[rx_buffer_wr_ptr_reg'] = rx_data
      <4>1. rx_buffer' = [rx_buffer EXCEPT ![rx_buffer_wr_ptr_reg] = rx_data]
        BY <2>4 DEF RxStore
      <4>2. rx_buffer \in [RxSlots -> Byte] /\ rx_buffer_wr_ptr_reg \in RxSlots
        BY DEF TypeInv, RxTypes, PointerTypes
      <4> QED BY <1>1, <2>1, <4>1, <4>2
    <3>2. InFlight' /\ Flying' = rx_data
      BY <1>1, <2>1, <2>4, <3>1 DEF InFlight, Flying
    <3> QED BY <2>1, <2>2, <3>2 DEF StreamInv
  <2> QED BY <1>0, <1>4, <2>3, <2>4, LineMoves
<1>5. CASE Stored
  <2>1. InFlight /\ Flying = rx_buffer[rx_buffer_wr_ptr_reg]
    BY <1>5 DEF InFlight, Flying
  <2>2. to_send' = to_send
    BY <1>0, <1>2, <1>5, LineMoves
  <2>3. rx_buffer' = rx_buffer
    BY <1>5 DEF Stored, RxEngine, RxStore, RxAck, RxRelease, RxWait
  <2>4. InFlight' /\ Flying' = Flying
    BY <1>1, <1>5, <2>1, <2>3 DEF InFlight, Flying, rx_byte
  <2> QED BY <2>1, <2>2, <2>4 DEF StreamInv
<1>6. CASE Taken
  <2>1. ~InFlight /\ ~Stored
    BY <1>6 DEF InFlight, Taken, Stored, Offered
  <2>2. to_send' = to_send
    BY <1>0, <1>2, <1>6, LineMoves
  <2>3. Taken' \/ Free'
    BY <1>0, <1>6, LineMoves
  <2>4. ~InFlight'
    BY <1>1, <2>1, <2>3 DEF InFlight, Taken, Free, Stored, Offered
  <2> QED BY <2>1, <2>2, <2>4 DEF StreamInv
<1> QED BY <1>3, <1>4, <1>5, <1>6 DEF LineInv

\* A take moves the stream on by one byte.
LEMMA StreamTakes ==
    ASSUME TypeInv, LineInv, RingInv, RxEngine(rx_data), RxBufferPointers, History,
           HostSends, rx_syn_reg' = rx_syn,
           rx_buffer_ctr_reg = 1,
           NEW e \in Seq(Byte), NEW k \in Nat, StreamInv(e, k)
    PROVE  StreamInv(e, k + 1)' /\ rx_byte = e[k + 1] /\ k < Len(e)
<1>0. LinkTypes /\ to_send \in Seq(Byte)
  BY DEF TypeInv, LinkTypes
<1>1. InFlight /\ Flying = rx_byte
  BY DEF InFlight, Flying
<1>2. Taken /\ rx_syn
  BY DEF RingInv
<1>3. to_send' = to_send
  <2>1. ~HostRaises
    BY <1>0, <1>2, LineMoves
  <2>2. ~HostIssues
    BY <1>2 DEF HostIssues
  <2> QED BY <2>1, <2>2 DEF HostSends, HostLowers, HostWaits
<1>4. Taken' /\ rx_buffer_ctr_reg' # 1
  BY RingMoves
<1>5. ~InFlight'
  BY <1>4 DEF InFlight, Taken, Stored, Offered
<1>6. k + 1 + Len(to_send) = Len(e) /\ rx_byte = e[k + 1]
  BY <1>1 DEF StreamInv
<1>7. StreamInv(e, k + 1)'
  <2>1. Len(to_send) \in Nat
    BY <1>0
  <2>2. (k + 1) + 0 + Len(to_send') = Len(e)
    BY <1>3, <1>6, <2>1
  <2>3. \A j \in 1 .. Len(to_send') : to_send'[j] = e[Len(e) - Len(to_send') + j]
    BY <1>3 DEF StreamInv
  <2> QED BY <1>5, <2>2, <2>3 DEF StreamInv
<1>8. k < Len(e)
  <2>1. Len(to_send) \in Nat
    BY <1>0
  <2> QED BY <1>6, <2>1
<1> QED BY <1>6, <1>7, <1>8

\* A new command is all before the host.
LEMMA StreamStarts ==
    ASSUME TypeInv, LineInv, RingInv, RxEngine(rx_data), RxBufferPointers, History,
           HostSends, rx_syn_reg' = rx_syn,
           HostIssues, NEW e \in Seq(Byte), to_send' = e
    PROVE  StreamInv(e, 0)' /\ ~InFlight'
<1>0. LinkTypes
  BY DEF TypeInv
<1>1. ~rx_syn /\ ~rx_ack_reg /\ rx_syn' = rx_syn
  BY DEF HostIssues
<1>2. Free /\ ~Stored
  BY <1>1 DEF LineInv, Free, Offered, Stored, Taken
<1>3. rx_buffer_ctr_reg' # 1
  BY <1>2, RingMoves
<1>4. ~InFlight'
  BY <1>1, <1>3 DEF InFlight, Offered, Stored
<1>5. Len(e) \in Nat
  OBVIOUS
<1>6. 0 + 0 + Len(to_send') = Len(e)
  BY <1>5
<1>7. \A j \in 1 .. Len(to_send') : to_send'[j] = e[Len(e) - Len(to_send') + j]
  BY <1>5
<1> QED BY <1>4, <1>6, <1>7 DEF StreamInv

\* Nothing to send, nothing under way.
Resting == to_send = <<>> /\ ~InFlight

\* The line rests until the host issues a command.
LEMMA RestingStays ==
    ASSUME TypeInv, LineInv, RingInv, RxEngine(rx_data), RxBufferPointers, History,
           HostSends, rx_syn_reg' = rx_syn, Resting, ~HostIssues
    PROVE  Resting'
<1>0. LinkTypes
  BY DEF TypeInv
<1>1. ~HostRaises
  BY DEF Resting, HostRaises
<1>2. to_send' = <<>>
  BY <1>1 DEF HostSends, HostLowers, HostWaits, Resting
<1>3. Free \/ Taken
  BY DEF LineInv, Resting, InFlight
<1>4. Free' \/ Taken'
  BY <1>0, <1>1, <1>3, LineMoves
<1>5. rx_buffer_ctr_reg' # 1
  BY RingMoves DEF Resting, InFlight
<1>6. ~InFlight'
  BY <1>4, <1>5 DEF InFlight, Free, Taken, Offered, Stored
<1> QED BY <1>2, <1>6 DEF Resting

\* A stream at its end rests.
LEMMA StreamEnds ==
    ASSUME TypeInv, NEW e \in Seq(Byte), StreamInv(e, Len(e))
    PROVE  Resting
<1>1. to_send \in Seq(Byte) /\ Len(to_send) \in Nat /\ Len(e) \in Nat
  BY DEF TypeInv, LinkTypes
<1>2. Len(e) + (IF InFlight THEN 1 ELSE 0) + Len(to_send) = Len(e)
  BY DEF StreamInv
<1>3. ~InFlight /\ Len(to_send) = 0
  <2>1. CASE InFlight
    BY <1>1, <1>2, <2>1
  <2>2. CASE ~InFlight
    BY <1>1, <1>2, <2>2
  <2> QED BY <2>1, <2>2
<1>4. to_send = <<>>
  BY <1>1, <1>3, EmptySeq
<1> QED BY <1>3, <1>4 DEF Resting

-----------------------------------------------------------------------------
\* test_engine carries command c out.
Carrying(c) ==
    \/ /\ c.op = "reset"
       /\ test_engine_reg \in {"TEST_RST_START", "TEST_RST_WAIT", "TEST_RST_END"}
    \/ /\ c.op = "read"
       /\ test_engine_reg \in {"TEST_RD_START", "TEST_RD_WAIT", "TEST_RD_END"}
    \/ /\ c.op = "write"
       /\ test_engine_reg \in {"TEST_WR_START", "TEST_WR_WAIT", "TEST_WR_END"}
    \/ c.op = "garbled" /\ test_engine_reg = "TEST_CMD_ERROR"

(* How far the parser is in command c when it has taken k of its bytes.    *)
ParserAt(c, k) ==
    \/ k = 0 /\ test_engine_reg = "TEST_IDLE"
    \/ k = 0 /\ test_engine_reg = "TEST_SEND_RESPONSE" /\ Trailing
    \/ k = 1 /\ test_engine_reg = "TEST_GET_CMD"
    \/ k = 2 /\ test_engine_reg = "TEST_PARSE_CMD"
    \/ k = 2 /\ test_engine_reg = "TEST_GET_EOC"   /\ c.op = "reset"
    \/ k = 2 /\ test_engine_reg = "TEST_GET_ADDR0" /\ c.op # "reset"
    \/ k = 3 /\ test_engine_reg = "TEST_GET_ADDR1" /\ c.op # "reset"
    \/ k = 4 /\ test_engine_reg = "TEST_GET_EOC"   /\ c.op \in {"read", "garbled"}
    \/ k = 4 /\ test_engine_reg = "TEST_GET_DATA0" /\ c.op = "write"
    \/ k = 5 /\ test_engine_reg = "TEST_GET_DATA1" /\ c.op = "write"
    \/ k = 6 /\ test_engine_reg = "TEST_GET_DATA2" /\ c.op = "write"
    \/ k = 7 /\ test_engine_reg = "TEST_GET_DATA3" /\ c.op = "write"
    \/ k = 8 /\ test_engine_reg = "TEST_GET_EOC"   /\ c.op = "write"
    \/ k = Len(Encode(c)) /\ Carrying(c)
    \/ k = Len(Encode(c)) /\ test_engine_reg = "TEST_SEND_RESPONSE" /\ ~Trailing

\* The code of a command.
CodeOf(c) == CASE c.op = "reset" -> RESET_CMD
               [] c.op \in {"read", "garbled"} -> READ_CMD
               [] OTHER -> WRITE_CMD

(* What the registers hold of command c after k of its bytes.              *)
Parsed(c, k) ==
    /\ k >= 2 => cmd_reg = CodeOf(c)
    /\ k >= 3 /\ c.op # "reset" => core_addr_reg[1] = c.addr[1]
    /\ k >= 4 /\ c.op # "reset" => core_addr_reg[2] = c.addr[2]
    /\ k >= 5 /\ c.op = "write" => core_wr_data_reg[1] = c.data[1]
    /\ k >= 6 /\ c.op = "write" => core_wr_data_reg[2] = c.data[2]
    /\ k >= 7 /\ c.op = "write" => core_wr_data_reg[3] = c.data[3]
    /\ k >= 8 /\ c.op = "write" => core_wr_data_reg[4] = c.data[4]

\* What test_engine does with a byte, state by state.
LEMMA ByteTaken ==
    ASSUME TestEngine(core_read_data, core_error), test_engine_reg \in TakingStates,
           ~rx_buffer_empty
    PROVE  /\ test_engine_reg = "TEST_IDLE" =>
                 /\ test_engine_reg' = IF rx_byte = SOC THEN "TEST_GET_CMD" ELSE "TEST_IDLE"
                 /\ UNCHANGED <<cmd_reg, core_addr_reg, core_wr_data_reg>>
           /\ test_engine_reg = "TEST_GET_CMD" =>
                 /\ test_engine_reg' = "TEST_PARSE_CMD" /\ cmd_reg' = rx_byte
                 /\ UNCHANGED <<core_addr_reg, core_wr_data_reg>>
           /\ test_engine_reg = "TEST_GET_ADDR0" =>
                 /\ test_engine_reg' = "TEST_GET_ADDR1"
                 /\ core_addr_reg' = [core_addr_reg EXCEPT ![1] = rx_byte]
                 /\ UNCHANGED <<cmd_reg, core_wr_data_reg>>
           /\ test_engine_reg = "TEST_GET_ADDR1" =>
                 /\ test_engine_reg' = (CASE cmd_reg = READ_CMD  -> "TEST_GET_EOC"
                                          [] cmd_reg = WRITE_CMD -> "TEST_GET_DATA0"
                                          [] OTHER               -> "TEST_CMD_UNKNOWN")
                 /\ core_addr_reg' = [core_addr_reg EXCEPT ![2] = rx_byte]
                 /\ UNCHANGED <<cmd_reg, core_wr_data_reg>>
           /\ \A i \in 1 .. 4 : test_engine_reg = DataStates[i] =>
                 /\ test_engine_reg' = (IF i < 4 THEN DataStates[i + 1] ELSE "TEST_GET_EOC")
                 /\ core_wr_data_reg' = [core_wr_data_reg EXCEPT ![i] = rx_byte]
                 /\ UNCHANGED <<cmd_reg, core_addr_reg>>
           /\ test_engine_reg = "TEST_GET_EOC" =>
                 /\ test_engine_reg' =
                       (CASE rx_byte # EOC        -> "TEST_CMD_ERROR"
                          [] rx_byte = EOC /\ cmd_reg = RESET_CMD -> "TEST_RST_START"
                          [] rx_byte = EOC /\ cmd_reg = READ_CMD  -> "TEST_RD_START"
                          [] rx_byte = EOC /\ cmd_reg = WRITE_CMD -> "TEST_WR_START"
                          [] OTHER                -> "TEST_CMD_UNKNOWN")
                 /\ UNCHANGED <<cmd_reg, core_addr_reg, core_wr_data_reg>>
<1>1. TestIdle \/ GetCmd \/ GetAddr \/ GetData \/ GetEoc
  <2>1. ~Access(core_read_data, core_error) /\ ~Respond
    BY DEF Access, CoreReset, AccessStart, AccessWait, Respond, BuildResponse,
           SendResponse, TakingStates, EndStates
  <2>2. ~TestStarves /\ ~ParseCmd
    BY DEF TestStarves, ParseCmd, TakingStates
  <2> QED BY <2>1, <2>2 DEF TestEngine, Parse
<1>2. DataStates[1] = "TEST_GET_DATA0" /\ DataStates[2] = "TEST_GET_DATA1"
      /\ DataStates[3] = "TEST_GET_DATA2" /\ DataStates[4] = "TEST_GET_DATA3"
  BY DEF DataStates
<1>3. \A i, j \in 1 .. 4 : DataStates[i] = DataStates[j] => i = j
  BY <1>2
<1>4. \A i \in 1 .. 4 : DataStates[i] \notin {"TEST_IDLE", "TEST_GET_CMD", "TEST_GET_ADDR0",
                                              "TEST_GET_ADDR1", "TEST_GET_EOC"}
  BY <1>2
<1>5. CASE TestIdle
  BY <1>4, <1>5 DEF TestIdle, commandRegs
<1>6. CASE GetCmd
  BY <1>4, <1>6 DEF GetCmd
<1>7. CASE GetAddr
  BY <1>4, <1>7 DEF GetAddr
<1>8. CASE GetData
  <2>1. PICK j \in 1 .. 4 :
           /\ test_engine_reg = DataStates[j]
           /\ core_wr_data_reg' = [core_wr_data_reg EXCEPT ![j] = rx_byte]
           /\ test_engine_reg' = IF j < 4 THEN DataStates[j + 1] ELSE "TEST_GET_EOC"
           /\ UNCHANGED <<cmd_reg, core_addr_reg>>
    BY <1>8 DEF GetData
  <2> QED BY <1>3, <1>4, <2>1
<1>9. CASE GetEoc
  BY <1>4, <1>9 DEF GetEoc, commandRegs
<1> QED BY <1>1, <1>5, <1>6, <1>7, <1>8, <1>9

\* A byte of the command brings the parser one byte further.
LEMMA ParserTakes ==
    ASSUME TypeInv, TestEngine(core_read_data, core_error),
           NEW c \in Commands, c.op # "unknown", NEW k \in Nat,
           ParserAt(c, k), Parsed(c, k),
           test_engine_reg \in TakingStates, ~rx_buffer_empty, rx_byte = Encode(c)[k + 1]
    PROVE  ParserAt(c, k + 1)' /\ Parsed(c, k + 1)'
           /\ (test_engine_reg' = "TEST_PARSE_CMD" => test_engine_reg = "TEST_GET_CMD")
<1>0. /\ core_addr_reg \in Byte \X Byte /\ core_wr_data_reg \in Word
      /\ rx_byte \in Byte /\ cmd_reg \in Byte
  BY RxByteType DEF TypeInv, ParserTypes
<1> DEFINE e == Encode(c)
<1>1. /\ e \in Seq(Byte) /\ Len(e) \in {3, 5, 9} /\ e[1] = SOC
      /\ c.op = "reset" => Len(e) = 3 /\ e[2] = RESET_CMD /\ e[3] = EOC
      /\ c.op \in {"read", "garbled"} =>
            /\ Len(e) = 5 /\ e[2] = READ_CMD
            /\ e[3] = c.addr[1] /\ e[4] = c.addr[2]
            /\ e[5] = (IF c.op = "read" THEN EOC ELSE Garbage)
      /\ c.op = "write" =>
            /\ Len(e) = 9 /\ e[2] = WRITE_CMD
            /\ e[3] = c.addr[1] /\ e[4] = c.addr[2]
            /\ e[5] = c.data[1] /\ e[6] = c.data[2]
            /\ e[7] = c.data[3] /\ e[8] = c.data[4]
            /\ e[9] = EOC
  BY CommandBytes
<1>2. c.op \in {"reset", "read", "garbled", "write"}
  BY CommandShape
<1>3. rx_byte = e[k + 1]
  OBVIOUS
<1>4. Garbage # EOC
  BY CodesAreBytes
<1> HIDE DEF e
<1>15. /\ c.op = "reset" => Len(e) = 3
       /\ c.op \in {"read", "garbled"} => Len(e) = 5
       /\ c.op = "write" => Len(e) = 9
  BY <1>1
<1>5. CASE k = 0 /\ test_engine_reg = "TEST_IDLE"
  <2>1. rx_byte = SOC
    BY <1>1, <1>3, <1>5
  <2>2. test_engine_reg' = "TEST_GET_CMD"
    BY <1>5, <2>1, ByteTaken
  <2> QED BY <1>5, <2>2 DEF ParserAt, Parsed
<1>6. CASE k = 1 /\ test_engine_reg = "TEST_GET_CMD"
  <2>1. rx_byte = CodeOf(c)
    BY <1>1, <1>2, <1>3, <1>6 DEF CodeOf
  <2>2. test_engine_reg' = "TEST_PARSE_CMD" /\ cmd_reg' = rx_byte
    BY <1>6, ByteTaken
  <2> QED BY <1>6, <2>1, <2>2 DEF ParserAt, Parsed
<1>7. CASE k = 2 /\ test_engine_reg = "TEST_GET_ADDR0" /\ c.op # "reset"
  <2>1. rx_byte = c.addr[1]
    BY <1>1, <1>2, <1>3, <1>7
  <2>2. /\ test_engine_reg' = "TEST_GET_ADDR1"
        /\ core_addr_reg' = [core_addr_reg EXCEPT ![1] = rx_byte]
        /\ cmd_reg' = cmd_reg
    BY <1>7, ByteTaken
  <2>3. core_addr_reg'[1] = c.addr[1]
    BY <1>0, <2>1, <2>2
  <2> QED BY <1>7, <2>2, <2>3 DEF ParserAt, Parsed
<1>8. CASE k = 3 /\ test_engine_reg = "TEST_GET_ADDR1" /\ c.op # "reset"
  <2>1. rx_byte = c.addr[2] /\ cmd_reg = CodeOf(c)
    BY <1>1, <1>2, <1>3, <1>8 DEF Parsed
  <2>2. /\ core_addr_reg' = [core_addr_reg EXCEPT ![2] = rx_byte]
        /\ cmd_reg' = cmd_reg
    BY <1>8, ByteTaken
  <2>3. core_addr_reg'[1] = c.addr[1] /\ core_addr_reg'[2] = c.addr[2]
    BY <1>0, <1>8, <2>1, <2>2 DEF Parsed
  <2>4. test_engine_reg' = IF c.op = "write" THEN "TEST_GET_DATA0" ELSE "TEST_GET_EOC"
    <3>1. test_engine_reg' = CASE cmd_reg = READ_CMD  -> "TEST_GET_EOC"
                               [] cmd_reg = WRITE_CMD -> "TEST_GET_DATA0"
                               [] OTHER               -> "TEST_CMD_UNKNOWN"
      BY <1>8, ByteTaken
    <3> QED BY <1>2, <1>8, <2>1, <3>1
               DEF CodeOf, READ_CMD, WRITE_CMD, RESET_CMD
  <2> QED BY <1>2, <1>8, <2>1, <2>2, <2>3, <2>4 DEF ParserAt, Parsed
<1>9. ASSUME NEW i \in 1 .. 4, k = i + 3, test_engine_reg = DataStates[i], c.op = "write"
      PROVE  /\ test_engine_reg' = (IF i < 4 THEN DataStates[i + 1] ELSE "TEST_GET_EOC")
             /\ UNCHANGED <<cmd_reg, core_addr_reg>>
             /\ core_wr_data_reg'[i] = c.data[i]
             /\ \A j \in 1 .. 4 : j # i => core_wr_data_reg'[j] = core_wr_data_reg[j]
  <2>1. rx_byte = c.data[i]
    <3>1. e[5] = c.data[1] /\ e[6] = c.data[2] /\ e[7] = c.data[3] /\ e[8] = c.data[4]
      BY <1>1, <1>9
    <3>2. rx_byte = e[i + 4]
      <4>1. k + 1 = i + 4
        BY <1>9
      <4> QED BY <1>3, <4>1
    <3> QED BY <3>1, <3>2
  <2>2. /\ test_engine_reg' = (IF i < 4 THEN DataStates[i + 1] ELSE "TEST_GET_EOC")
        /\ core_wr_data_reg' = [core_wr_data_reg EXCEPT ![i] = rx_byte]
        /\ UNCHANGED <<cmd_reg, core_addr_reg>>
    BY <1>9, ByteTaken
  <2>3. \A j \in 1 .. 4 :
           core_wr_data_reg'[j] = IF j = i THEN rx_byte ELSE core_wr_data_reg[j]
    BY <1>0, <2>2 DEF Word
  <2> QED BY <2>1, <2>2, <2>3
<1>10. CASE k = 4 /\ test_engine_reg = "TEST_GET_DATA0" /\ c.op = "write"
  <2>1. /\ test_engine_reg' = "TEST_GET_DATA1" /\ UNCHANGED <<cmd_reg, core_addr_reg>>
        /\ core_wr_data_reg'[1] = c.data[1]
    <3>1. /\ 1 \in 1 .. 4 /\ k = 1 + 3
          /\ DataStates[1] = "TEST_GET_DATA0" /\ DataStates[1 + 1] = "TEST_GET_DATA1"
      BY <1>10 DEF DataStates
    <3> QED BY <1>9, <1>10, <3>1
  <2> QED BY <1>10, <2>1 DEF ParserAt, Parsed
<1>11. CASE k = 5 /\ test_engine_reg = "TEST_GET_DATA1" /\ c.op = "write"
  <2>1. /\ test_engine_reg' = "TEST_GET_DATA2" /\ UNCHANGED <<cmd_reg, core_addr_reg>>
        /\ core_wr_data_reg'[1] = core_wr_data_reg[1] /\ core_wr_data_reg'[2] = c.data[2]
    <3>1. /\ 1 \in 1 .. 4 /\ 2 \in 1 .. 4 /\ k = 2 + 3
          /\ DataStates[2] = "TEST_GET_DATA1" /\ DataStates[2 + 1] = "TEST_GET_DATA2"
      BY <1>11 DEF DataStates
    <3> QED BY <1>9, <1>11, <3>1
  <2> QED BY <1>11, <2>1 DEF ParserAt, Parsed
<1>12. CASE k = 6 /\ test_engine_reg = "TEST_GET_DATA2" /\ c.op = "write"
  <2>1. /\ test_engine_reg' = "TEST_GET_DATA3" /\ UNCHANGED <<cmd_reg, core_addr_reg>>
        /\ core_wr_data_reg'[1] = core_wr_data_reg[1]
        /\ core_wr_data_reg'[2] = core_wr_data_reg[2]
        /\ core_wr_data_reg'[3] = c.data[3]
    <3>1. 1 \in 1 .. 4 /\ 2 \in 1 .. 4 /\ 3 \in 1 .. 4 /\ k = 3 + 3
          /\ DataStates[3] = "TEST_GET_DATA2" /\ DataStates[3 + 1] = "TEST_GET_DATA3"
      BY <1>12 DEF DataStates
    <3> QED BY <1>9, <1>12, <3>1
  <2> QED BY <1>12, <2>1 DEF ParserAt, Parsed
<1>13. CASE k = 7 /\ test_engine_reg = "TEST_GET_DATA3" /\ c.op = "write"
  <2>1. /\ test_engine_reg' = "TEST_GET_EOC" /\ UNCHANGED <<cmd_reg, core_addr_reg>>
        /\ core_wr_data_reg'[1] = core_wr_data_reg[1]
        /\ core_wr_data_reg'[2] = core_wr_data_reg[2]
        /\ core_wr_data_reg'[3] = core_wr_data_reg[3] /\ core_wr_data_reg'[4] = c.data[4]
    <3>1. 1 \in 1 .. 4 /\ 2 \in 1 .. 4 /\ 3 \in 1 .. 4 /\ 4 \in 1 .. 4 /\ k = 4 + 3
          /\ DataStates[4] = "TEST_GET_DATA3"
      BY <1>13 DEF DataStates
    <3> QED BY <1>9, <1>13, <3>1
  <2> QED BY <1>13, <2>1 DEF ParserAt, Parsed
<1>14. CASE test_engine_reg = "TEST_GET_EOC" /\ k \in {2, 4, 8} /\ k + 1 = Len(e)
  <2>1. /\ cmd_reg = CodeOf(c)
        /\ rx_byte = IF c.op = "garbled" THEN Garbage ELSE EOC
    <3>1. cmd_reg = CodeOf(c)
      BY <1>14 DEF Parsed
    <3>2. rx_byte = e[Len(e)]
      BY <1>3, <1>14
    <3> QED BY <1>1, <1>2, <3>1, <3>2
  <2>2. UNCHANGED <<cmd_reg, core_addr_reg, core_wr_data_reg>>
    BY <1>14, ByteTaken
  <2>3. Carrying(c)'
    <3>1. test_engine_reg' =
             CASE rx_byte # EOC        -> "TEST_CMD_ERROR"
               [] rx_byte = EOC /\ cmd_reg = RESET_CMD -> "TEST_RST_START"
               [] rx_byte = EOC /\ cmd_reg = READ_CMD  -> "TEST_RD_START"
               [] rx_byte = EOC /\ cmd_reg = WRITE_CMD -> "TEST_WR_START"
               [] OTHER                -> "TEST_CMD_UNKNOWN"
      BY <1>14, ByteTaken
    <3> HIDE DEF Carrying
    <3>2. CASE c.op = "garbled"
      <4>1. test_engine_reg' = "TEST_CMD_ERROR"
        BY <1>4, <2>1, <3>1, <3>2
      <4> QED BY <3>2, <4>1 DEF Carrying
    <3>3. CASE c.op = "reset"
      <4>1. rx_byte = EOC /\ cmd_reg = RESET_CMD
        BY <2>1, <3>3 DEF CodeOf
      <4>2. test_engine_reg' = "TEST_RST_START"
        BY <3>1, <4>1 DEF RESET_CMD, READ_CMD, WRITE_CMD
      <4> QED BY <3>3, <4>2 DEF Carrying
    <3>4. CASE c.op = "read"
      <4>1. rx_byte = EOC /\ cmd_reg = READ_CMD
        BY <2>1, <3>4 DEF CodeOf
      <4>2. test_engine_reg' = "TEST_RD_START"
        BY <3>1, <4>1 DEF RESET_CMD, READ_CMD, WRITE_CMD
      <4> QED BY <3>4, <4>2 DEF Carrying
    <3>5. CASE c.op = "write"
      <4>1. rx_byte = EOC /\ cmd_reg = WRITE_CMD
        BY <2>1, <3>5 DEF CodeOf
      <4>2. test_engine_reg' = "TEST_WR_START"
        BY <3>1, <4>1 DEF RESET_CMD, READ_CMD, WRITE_CMD
      <4> QED BY <3>5, <4>2 DEF Carrying
    <3> QED BY <1>2, <3>2, <3>3, <3>4, <3>5
  <2>4. ParserAt(c, k + 1)'
    BY <1>14, <2>3 DEF ParserAt, e
  <2>5. Parsed(c, k + 1)'
    <3>1. k = 2 => c.op = "reset"
      BY <1>2, <1>14, <1>15
    <3>2. k = 4 => c.op # "write" /\ c.op # "reset"
      BY <1>2, <1>14, <1>15
    <3> QED BY <1>14, <2>2, <3>1, <3>2 DEF Parsed
  <2>6. test_engine_reg' # "TEST_PARSE_CMD"
    BY <2>3 DEF Carrying
  <2> QED BY <2>4, <2>5, <2>6
<1> QED
  <2>1. test_engine_reg # "TEST_SEND_RESPONSE" /\ test_engine_reg # "TEST_PARSE_CMD"
        /\ ~Carrying(c)
    BY DEF TakingStates, Carrying
  <2>2. test_engine_reg = "TEST_GET_EOC" => k \in {2, 4, 8} /\ k + 1 = Len(e)
    <3>1. CASE k = 2 /\ c.op = "reset"
      BY <1>15, <3>1
    <3>2. CASE k = 4 /\ c.op \in {"read", "garbled"}
      BY <1>15, <3>2
    <3>3. CASE k = 8 /\ c.op = "write"
      BY <1>15, <3>3
    <3> QED BY <2>1, <3>1, <3>2, <3>3 DEF ParserAt
  <2> QED BY <2>1, <2>2, <1>5, <1>6, <1>7, <1>8, <1>10, <1>11, <1>12, <1>13,
             <1>14 DEF ParserAt

-----------------------------------------------------------------------------
(* The host waits for the answer before it sends the next command, and     *)
(* sends only commands whose length coretest knows.                        *)
Paced == Window = 1 /\ \A c \in Commands : c.op # "unknown"

(* Either no command is outstanding and the line rests, or the parser has  *)
(* taken the first bytes of the outstanding command and the others are on  *)
(* their way.                                                              *)
CommandInv ==
    \/ /\ outstanding = <<>> /\ Resting
       /\ \/ test_engine_reg = "TEST_IDLE"
          \/ test_engine_reg = "TEST_SEND_RESPONSE" /\ Trailing
    \/ \E c \in Commands, k \in 0 .. 9 :
          /\ outstanding = <<c>>
          /\ StreamInv(Encode(c), k) /\ ParserAt(c, k) /\ Parsed(c, k)

(* A byte needs longer to the buffer than test_engine to where it can take *)
(* it: to decode the command byte, or to come back from the response.      *)
RaceInv ==
    /\ test_engine_reg = "TEST_PARSE_CMD" => Taken
    /\ Trailing =>
          /\ tx_engine_reg = "TX_NOACK" => ~InFlight /\ (tx_ack_reg => outstanding = <<>>)
          /\ tx_engine_reg = "TX_NEXT" => ~(Offered /\ rx_syn_reg) /\ ~Stored
          /\ tx_engine_reg = "TX_SENT" => ~Stored

\* When no byte is taken the registers of the command stay as they are.
LEMMA NothingTaken ==
    ASSUME TestEngine(core_read_data, core_error), rx_buffer_empty
    PROVE  /\ UNCHANGED <<cmd_reg, core_addr_reg, core_wr_data_reg>>
           /\ test_engine_reg \in TakingStates => test_engine_reg' = test_engine_reg
<1>1. CASE Parse
  <2>1. ParseCmd \/ TestStarves
    BY <1>1 DEF Parse, TestIdle, GetCmd, GetAddr, GetData, GetEoc
  <2> QED BY <2>1 DEF ParseCmd, TestStarves, commandRegs, TakingStates
<1>2. CASE Access(core_read_data, core_error) \/ Respond
  BY <1>2
     DEF Access, CoreReset, AccessStart, AccessWait, Respond, BuildResponse,
         SendResponse, commandRegs, TakingStates, EndStates
<1> QED BY <1>1, <1>2 DEF TestEngine

\* Without a byte the parser stays where it is in the command.
LEMMA ParserWaits ==
    ASSUME TypeInv, EngineInv, TxLineInv, GotInv, MessageInv,
           TxEngine, TestEngine(core_read_data, core_error), HostReceives,
           NEW c \in Commands, c.op # "unknown", NEW k \in Nat,
           ParserAt(c, k), Parsed(c, k), rx_buffer_empty, ~Answered
    PROVE  ParserAt(c, k)' /\ Parsed(c, k)'
<1>0. c.op \in {"reset", "read", "garbled", "write"}
  BY CommandShape
<1>1. UNCHANGED <<cmd_reg, core_addr_reg, core_wr_data_reg>>
  BY NothingTaken
<1>2. Parsed(c, k)'
  BY <1>1 DEF Parsed
<1>3. response_sent_reg <=> tx_engine_reg = "TX_DONE"
  BY DEF EngineInv
<1>4. CASE test_engine_reg \in TakingStates
  <2>1. test_engine_reg' = test_engine_reg
    BY <1>4, NothingTaken
  <2>2. ~Carrying(c) /\ test_engine_reg # "TEST_SEND_RESPONSE"
    BY <1>4 DEF Carrying, TakingStates
  <2> QED BY <1>2, <2>1, <2>2 DEF ParserAt
<1>5. CASE test_engine_reg = "TEST_PARSE_CMD"
  <2>1. k = 2
    BY <1>5 DEF ParserAt, Carrying
  <2>2. cmd_reg = CodeOf(c)
    BY <2>1 DEF Parsed
  <2>3. ParseCmd
    BY <1>5, EngineStates DEF TestEngine, Respond, TakingStates, EndStates
  <2>4. test_engine_reg' = IF c.op = "reset" THEN "TEST_GET_EOC" ELSE "TEST_GET_ADDR0"
    BY <1>0, <2>2, <2>3 DEF ParseCmd, CodeOf, RESET_CMD, READ_CMD, WRITE_CMD
  <2> QED BY <1>2, <2>1, <2>4 DEF ParserAt
<1>6. CASE Carrying(c)
  <2>1. k = Len(Encode(c))
    BY <1>6 DEF ParserAt, Carrying
  <2>2. ~Parse /\ ~SendResponse
    BY <1>6, EngineStates DEF Carrying, TakingStates
  <2>3. CASE Access(core_read_data, core_error)
    <3>1. Carrying(c)'
      BY <1>6, <2>3 DEF Carrying, Access, CoreReset, AccessStart, AccessWait
    <3> QED BY <1>2, <2>1, <3>1 DEF ParserAt
  <2>4. CASE BuildResponse
    <3>1. test_engine_reg \in EndStates /\ test_engine_reg' = "TEST_SEND_RESPONSE"
      BY <2>4 DEF BuildResponse
    <3>2. tx_engine_reg = "TX_IDLE" /\ ~send_response_reg
      BY <3>1 DEF EngineInv, EndStates
    <3>3. tx_engine_reg' = "TX_IDLE"
      BY <3>2, TxMoves
    <3>4. ~Trailing'
      BY <3>3 DEF Trailing
    <3> QED BY <1>2, <2>1, <3>1, <3>4 DEF ParserAt
  <2> QED BY <2>2, <2>3, <2>4 DEF TestEngine, Respond
<1>7. CASE test_engine_reg = "TEST_SEND_RESPONSE"
  <2>1. SendResponse
    BY <1>7, EngineStates DEF TestEngine, Respond, TakingStates, EndStates
  <2>2. test_engine_reg' = IF response_sent_reg THEN "TEST_IDLE" ELSE "TEST_SEND_RESPONSE"
    BY <2>1 DEF SendResponse
  <2>3. CASE Trailing
    <3>1. k = 0
      BY <1>7, <2>3 DEF ParserAt, Carrying
    <3>2. CASE tx_engine_reg = "TX_DONE"
      BY <1>2, <1>3, <2>2, <3>1, <3>2 DEF ParserAt
    <3>3. CASE tx_engine_reg # "TX_DONE"
      <4>1. Trailing'
        BY <2>3, <3>3, TrailingMoves
      <4> QED BY <1>2, <1>3, <2>2, <3>1, <3>3, <4>1 DEF ParserAt
    <3> QED BY <3>2, <3>3
  <2>4. CASE ~Trailing
    <3>1. k = Len(Encode(c))
      BY <1>7, <2>4 DEF ParserAt, Carrying
    <3>2. tx_engine_reg # "TX_DONE"
      BY <2>4 DEF Trailing
    <3>3. ~Trailing'
      BY <2>4, TrailingMoves
    <3> QED BY <1>2, <1>3, <2>2, <3>1, <3>2, <3>3 DEF ParserAt
  <2> QED BY <2>3, <2>4
<1> QED BY <1>2, <1>4, <1>5, <1>6, <1>7 DEF ParserAt, TakingStates

\* The length of a command.
LEMMA CommandLengths ==
    \A c \in Commands : Encode(c) \in Seq(Byte) /\ Len(Encode(c)) \in {3, 5, 9}
BY CommandBytes

\* A byte is stored only where test_engine will take it.
LEMMA WhenStored ==
    ASSUME TypeInv, EngineInv, CommandInv, RaceInv, Stored
    PROVE  \/ test_engine_reg \in TakingStates
           \/ test_engine_reg = "TEST_SEND_RESPONSE" /\ tx_engine_reg = "TX_DONE"
<1>1. ~Resting
  BY DEF Resting, InFlight
<1>2. PICK c \in Commands, k \in 0 .. 9 :
         StreamInv(Encode(c), k) /\ ParserAt(c, k)
  BY <1>1 DEF CommandInv
<1>3. k # Len(Encode(c))
  BY <1>1, <1>2, StreamEnds, CommandLengths
<1>4. test_engine_reg # "TEST_PARSE_CMD"
  BY DEF RaceInv, Stored, Taken
<1>5. CASE test_engine_reg = "TEST_SEND_RESPONSE" /\ Trailing
  <2>1. InFlight
    BY DEF InFlight
  <2> QED BY <1>5, <2>1 DEF RaceInv, Trailing
<1> QED BY <1>2, <1>3, <1>4, <1>5 DEF ParserAt, TakingStates

\* What a step of the engines and the host assumes and does, in one place.
StepOf ==
    /\ RxEngine(rx_data) /\ TxEngine /\ TestEngine(core_read_data, core_error)
    /\ RxBufferPointers /\ rx_syn_reg' = rx_syn /\ tx_ack_reg' = tx_ack
    /\ HostReceives /\ HostSends /\ CoreClock /\ History

\* The invariant of the paced host, without the types.
MemoryInv == LineInv /\ TxLineInv /\ GotInv /\ MessageInv /\ ExecInv /\ BusInv
             /\ RingInv /\ CommandInv /\ RaceInv

(* The buffer holds at most one byte, and a byte is taken in the clock     *)
(* after it was counted.                                                   *)
LEMMA RingKept ==
    ASSUME TypeInv, EngineInv, MemoryInv, StepOf
    PROVE  RingInv'
<1>1. LineInv /\ RingInv /\ CommandInv /\ RaceInv /\ LinkTypes
  BY DEF MemoryInv, TypeInv
<1>2. /\ rx_buffer_ctr_reg' \in {0, 1} /\ unread' = rx_buffer_ctr_reg'
      /\ rx_buffer_ctr_reg' = 0 => rx_buffer_wr_ptr_reg' = rx_buffer_rd_ptr_reg'
      /\ rx_buffer_ctr_reg' = 1 =>
            rx_buffer_wr_ptr_reg' = Wrap(rx_buffer_rd_ptr_reg' + 1)
      /\ rx_buffer_ctr_reg' = 1 => Stored
  BY <1>1, RingMoves DEF StepOf
<1>3. ASSUME Stored PROVE Taken' /\ rx_syn' /\ test_engine_reg' \in TakingStates
  <2>1. Taken' /\ rx_syn'
    BY <1>1, <1>3, LineMoves DEF StepOf
  <2>2. rx_buffer_empty
    BY <1>1, <1>3 DEF RingInv, Taken, Stored, rx_buffer_empty
  <2>3. CASE test_engine_reg \in TakingStates
    <3>1. test_engine_reg' = test_engine_reg
      BY <2>2, <2>3, NothingTaken DEF StepOf
    <3> QED BY <2>1, <2>3, <3>1
  <2>4. CASE test_engine_reg = "TEST_SEND_RESPONSE" /\ tx_engine_reg = "TX_DONE"
    <3>1. SendResponse
      BY <2>4, MessageFixed DEF StepOf
    <3>2. response_sent_reg
      BY <2>4 DEF EngineInv
    <3>3. test_engine_reg' = "TEST_IDLE"
      BY <3>1, <3>2 DEF SendResponse
    <3> QED BY <2>1, <3>3 DEF TakingStates
  <2> QED BY <1>1, <1>3, <2>3, <2>4, WhenStored
<1>4. Wrap(rx_buffer_rd_ptr_reg + 1)' = Wrap(rx_buffer_rd_ptr_reg' + 1)
  BY DEF Wrap
<1> QED BY <1>2, <1>3, <1>4 DEF RingInv

-----------------------------------------------------------------------------
(* A byte needs longer on the line than test_engine needs to be where it   *)
(* can take it, after a command byte and after a response.                 *)
LEMMA RaceKept ==
    ASSUME TypeInv, EngineInv, MemoryInv, StepOf, Window = 1
    PROVE  RaceInv'
<1>1. /\ LineInv /\ TxLineInv /\ GotInv /\ MessageInv /\ RingInv /\ CommandInv /\ RaceInv
      /\ LinkTypes
  BY DEF MemoryInv, TypeInv
<1>2. ASSUME test_engine_reg' = "TEST_PARSE_CMD" PROVE Taken'
  <2>1. GetCmd
    BY <1>2, EngineStates DEF StepOf, TestEngine, TakingStates, Respond
  <2>2. rx_buffer_ctr_reg = 1
    BY <1>1, <2>1 DEF GetCmd, rx_buffer_empty, RingInv
  <2> QED BY <1>1, <2>2, RingMoves DEF StepOf
<1>3. CASE Answered
  <2>1. ~Trailing /\ SendResponse /\ tx_engine_reg' = "TX_NOACK"
    BY <1>1, <1>3, TrailingMoves DEF StepOf
  <2>2. test_engine_reg = "TEST_SEND_RESPONSE"
    BY <2>1 DEF SendResponse
  <2>3. PICK c \in Commands, k \in 0 .. 9 :
           /\ outstanding = <<c>> /\ StreamInv(Encode(c), k) /\ ParserAt(c, k)
    BY <1>1, <2>1, <2>2 DEF CommandInv
  <2>4. k = Len(Encode(c))
    BY <2>1, <2>2, <2>3 DEF ParserAt, Carrying
  <2>5. Resting
    BY <2>3, <2>4, StreamEnds, CommandLengths
  <2>6. Len(outstanding) = 1
    BY <2>3
  <2>7. ~HostIssues
    BY <2>6 DEF HostIssues
  <2>8. ~InFlight'
    BY <1>1, <2>5, <2>7, RestingStays DEF StepOf, Resting
  <2>9. outstanding' = <<>>
    <3>1. outstanding' = StillOutstanding
      BY <2>7 DEF StepOf, HostSends, HostRaises, HostLowers, HostWaits
    <3>2. StillOutstanding = SubSeq(<<c>>, 2, 1)
      BY <1>3, <2>3, <2>6 DEF StillOutstanding
    <3> QED BY <3>1, <3>2, SubSeqEmpty
  <2> QED BY <1>2, <2>1, <2>8, <2>9 DEF RaceInv
<1>4. CASE ~Answered /\ Trailing /\ tx_engine_reg # "TX_DONE"
  <2>1. ~tx_ack
    BY <1>1, <1>4 DEF Trailing, TxLineInv
  <2>2. CASE tx_engine_reg = "TX_NOACK" /\ tx_ack_reg
    <3>1. tx_engine_reg' = "TX_NOACK"
      BY <2>2, TxMoves DEF StepOf
    <3>2. ~tx_ack_reg'
      BY <2>1 DEF StepOf
    <3>3. outstanding = <<>>
      BY <1>1, <1>4, <2>2 DEF RaceInv
    <3>4. Resting
      BY <1>1, <3>3 DEF CommandInv
    <3>5. ~InFlight'
      <4>1. CASE HostIssues
        <5>2. PICK c \in Commands : to_send' = Encode(c)
          BY <4>1 DEF HostIssues
        <5> QED BY <1>1, <4>1, <5>2, StreamStarts, CommandLengths DEF StepOf
      <4>2. CASE ~HostIssues
        BY <1>1, <3>4, <4>2, RestingStays DEF StepOf, Resting
      <4> QED BY <4>1, <4>2
    <3> QED BY <1>2, <3>1, <3>2, <3>5 DEF RaceInv
  <2>3. CASE tx_engine_reg = "TX_NOACK" /\ ~tx_ack_reg
    <3>1. tx_engine_reg' = "TX_NEXT"
      BY <2>3, TxMoves DEF StepOf
    <3>2. Free \/ Taken
      BY <1>1, <1>4, <2>3 DEF RaceInv, LineInv, InFlight
    <3>3. Free' \/ Taken' \/ (Offered' /\ ~rx_syn_reg')
      BY <1>1, <3>2, LineMoves DEF StepOf
    <3>4. ~(Offered /\ rx_syn_reg)' /\ ~Stored'
      BY <3>3 DEF Free, Taken, Offered, Stored
    <3> QED BY <1>2, <3>1, <3>4 DEF RaceInv
  <2>4. CASE tx_engine_reg = "TX_NEXT"
    <3>1. tx_engine_reg' = "TX_SENT"
      BY <1>4, <2>4, TxMoves DEF Trailing, StepOf
    <3>2. Free \/ (Offered /\ ~rx_syn_reg) \/ Taken
      BY <1>1, <1>4, <2>4 DEF RaceInv, LineInv
    <3>3. Free' \/ Taken' \/ Offered'
      BY <1>1, <3>2, LineMoves DEF StepOf
    <3>4. ~Stored'
      BY <3>3 DEF Free, Taken, Offered, Stored
    <3> QED BY <1>2, <3>1, <3>4 DEF RaceInv
  <2>5. CASE tx_engine_reg = "TX_SENT"
    <3>1. tx_engine_reg' = "TX_DONE"
      BY <2>5, TxMoves DEF StepOf
    <3> QED BY <1>2, <3>1 DEF RaceInv
  <2> QED BY <1>4, <2>2, <2>3, <2>4, <2>5 DEF Trailing
<1>5. CASE ~Answered /\ (~Trailing \/ tx_engine_reg = "TX_DONE")
  <2>1. ~Trailing'
    <3>1. CASE ~Trailing
      BY <1>1, <1>5, <3>1, TrailingMoves DEF StepOf
    <3>2. CASE tx_engine_reg = "TX_DONE"
      <4>1. Trailing
        BY <3>2 DEF Trailing
      <4> QED BY <1>1, <3>2, <4>1, TrailingMoves DEF StepOf
    <3> QED BY <1>5, <3>1, <3>2
  <2> QED BY <1>2, <2>1 DEF RaceInv
<1> QED BY <1>3, <1>4, <1>5

\* The command is taken byte by byte, carried out and answered.
LEMMA CommandKept ==
    ASSUME TypeInv, EngineInv, MemoryInv, StepOf, Paced
    PROVE  CommandInv'
<1>1. /\ LineInv /\ TxLineInv /\ GotInv /\ MessageInv /\ RingInv /\ CommandInv /\ RaceInv
      /\ LinkTypes
  BY DEF MemoryInv, TypeInv
<1>2. rx_buffer_ctr_reg # 1 => rx_buffer_ctr_reg = 0 /\ rx_buffer_empty
  BY <1>1 DEF RingInv, rx_buffer_empty
<1>3. response_sent_reg <=> tx_engine_reg = "TX_DONE"
  BY DEF EngineInv
<1>4. CASE /\ outstanding = <<>> /\ Resting
           /\ \/ test_engine_reg = "TEST_IDLE"
              \/ test_engine_reg = "TEST_SEND_RESPONSE" /\ Trailing
  <2>1. rx_buffer_ctr_reg = 0 /\ rx_buffer_empty
    BY <1>2, <1>4 DEF Resting, InFlight
  <2>2. ~Answered
    <3>1. Answered => ~Trailing /\ SendResponse
      BY <1>1, TrailingMoves DEF StepOf
    <3> QED BY <1>4, <3>1 DEF SendResponse
  <2>3. \/ test_engine_reg' = "TEST_IDLE"
        \/ test_engine_reg' = "TEST_SEND_RESPONSE" /\ Trailing'
    <3>1. CASE test_engine_reg = "TEST_IDLE"
      <4>1. test_engine_reg' = test_engine_reg
        BY <2>1, <3>1, NothingTaken DEF StepOf, TakingStates
      <4> QED BY <3>1, <4>1
    <3>2. CASE Trailing
      <4>1. SendResponse
        BY <3>2, MessageFixed DEF StepOf, Trailing
      <4>2. test_engine_reg' = IF response_sent_reg THEN "TEST_IDLE" ELSE "TEST_SEND_RESPONSE"
        BY <4>1 DEF SendResponse
      <4>3. tx_engine_reg # "TX_DONE" => Trailing'
        BY <1>1, <3>2, TrailingMoves DEF StepOf
      <4> QED BY <1>3, <4>2, <4>3
    <3> QED BY <1>4, <3>1, <3>2
  <2>4. CASE HostIssues
    <3>1. PICK c \in Commands : to_send' = Encode(c) /\ outstanding' = Append(StillOutstanding, c)
      BY <2>4 DEF HostIssues
    <3>2. outstanding' = <<c>>
      BY <1>4, <2>2, <3>1 DEF StillOutstanding
    <3>3. StreamInv(Encode(c), 0)'
      BY <1>1, <2>4, <3>1, StreamStarts, CommandLengths DEF StepOf
    <3>4. ParserAt(c, 0)' /\ Parsed(c, 0)'
      BY <2>3 DEF ParserAt, Parsed
    <3>5. 0 \in 0 .. 9
      OBVIOUS
    <3> QED BY <3>2, <3>3, <3>4, <3>5 DEF CommandInv
  <2>5. CASE ~HostIssues
    <3>1. Resting'
      BY <1>1, <1>4, <2>5, RestingStays DEF StepOf
    <3>2. outstanding' = <<>>
      BY <1>4, <2>2, <2>5
         DEF StepOf, HostSends, HostRaises, HostLowers, HostWaits,
             StillOutstanding
    <3> QED BY <2>3, <3>1, <3>2 DEF CommandInv
  <2> QED BY <2>4, <2>5
<1>5. ASSUME NEW c \in Commands, NEW k \in 0 .. 9,
             outstanding = <<c>>, StreamInv(Encode(c), k), ParserAt(c, k), Parsed(c, k)
      PROVE  CommandInv'
  <2>1. /\ c.op # "unknown" /\ Window = 1 /\ k \in Nat
        /\ Encode(c) \in Seq(Byte) /\ Len(Encode(c)) \in {3, 5, 9}
    BY CommandLengths DEF Paced
  <2>2. ~HostIssues
    <3>1. Len(outstanding) = 1
      BY <1>5
    <3> QED BY <2>1, <3>1 DEF HostIssues
  <2>3. outstanding' = StillOutstanding
    BY <2>2 DEF StepOf, HostSends, HostRaises, HostLowers, HostWaits
  <2>4. CASE Answered
    <3>1. ~Trailing /\ Trailing' /\ SendResponse
      BY <1>1, <2>4, TrailingMoves DEF StepOf
    <3>2. /\ test_engine_reg = "TEST_SEND_RESPONSE"
          /\ test_engine_reg' = "TEST_SEND_RESPONSE"
      <4>1. tx_engine_reg # "TX_DONE"
        BY <3>1 DEF Trailing
      <4> QED BY <1>3, <3>1, <4>1 DEF SendResponse
    <3>3. k = Len(Encode(c))
      BY <1>5, <3>1, <3>2 DEF ParserAt, Carrying
    <3>4. Resting
      BY <1>5, <2>1, <3>3, StreamEnds
    <3>5. Resting'
      BY <1>1, <2>2, <3>4, RestingStays DEF StepOf
    <3>6. outstanding' = <<>>
      <4>1. StillOutstanding = SubSeq(<<c>>, 2, 1)
        BY <1>5, <2>4 DEF StillOutstanding
      <4> QED BY <2>3, <4>1, SubSeqEmpty
    <3> QED BY <3>1, <3>2, <3>5, <3>6 DEF CommandInv
  <2>5. CASE ~Answered /\ rx_buffer_ctr_reg = 1
    <3>1. outstanding' = <<c>>
      BY <1>5, <2>3, <2>5 DEF StillOutstanding
    <3>2. /\ StreamInv(Encode(c), k + 1)' /\ rx_byte = Encode(c)[k + 1]
          /\ k < Len(Encode(c))
      BY <1>1, <1>5, <2>1, <2>5, StreamTakes DEF StepOf
    <3>3. test_engine_reg \in TakingStates /\ ~rx_buffer_empty
      BY <1>1, <2>5 DEF RingInv, rx_buffer_empty
    <3>4. ParserAt(c, k + 1)' /\ Parsed(c, k + 1)'
      BY <1>5, <2>1, <3>2, <3>3, ParserTakes DEF StepOf
    <3>5. k + 1 \in 0 .. 9
      BY <2>1, <3>2
    <3> QED BY <3>1, <3>2, <3>4, <3>5 DEF CommandInv
  <2>6. CASE ~Answered /\ rx_buffer_ctr_reg # 1
    <3>1. outstanding' = <<c>>
      BY <1>5, <2>3, <2>6 DEF StillOutstanding
    <3>2. rx_buffer_ctr_reg = 0 /\ rx_buffer_empty
      BY <1>2, <2>6
    <3>3. StreamInv(Encode(c), k)'
      BY <1>1, <1>5, <2>1, <2>2, <3>2, StreamWaits DEF StepOf
    <3>4. ParserAt(c, k)' /\ Parsed(c, k)'
      BY <1>1, <1>5, <2>1, <2>6, <3>2, ParserWaits DEF StepOf
    <3> QED BY <3>1, <3>3, <3>4 DEF CommandInv
  <2> QED BY <2>4, <2>5, <2>6
<1> QED BY <1>1, <1>4, <1>5 DEF CommandInv

\* At reset nothing is under way.
LEMMA InitMemory == Init => MemoryInv
<1> SUFFICES ASSUME Init PROVE MemoryInv
  OBVIOUS
<1> USE DEF Init, CoretestInit
<1>1. LineInv /\ TxLineInv
  BY DEF LineInv, Free, TxLineInv
<1>2. GotInv
  <2>1. got = <<>> /\ got \in Seq(Byte) /\ Len(got) = 0
    BY EmptySeq
  <2> QED BY <2>1 DEF GotInv, Trailing
<1>3. MessageInv /\ ExecInv /\ BusInv
  BY DEF MessageInv, ExecInv, BusInv, EndStates
<1>4. RingInv
  BY DEF RingInv
<1>5. ~Stored /\ ~Offered /\ ~Trailing
  BY DEF Stored, Offered, Trailing
<1>6. CommandInv
  BY <1>5 DEF CommandInv, Resting, InFlight
<1>7. RaceInv
  BY <1>5 DEF RaceInv
<1> QED BY <1>1, <1>2, <1>3, <1>4, <1>6, <1>7 DEF MemoryInv

(* A step of the system, or a stutter, keeps the invariant of the paced    *)
(* host.                                                                   *)
LEMMA MemoryKept ==
    ASSUME Paced, TypeInv, BufferInv, EngineInv, MemoryInv, [Next]_vars
    PROVE  MemoryInv'
<1>1. CASE Next
  <2>1. StepOf
    BY <1>1, StepParts DEF StepOf
  <2>2. /\ LineInv /\ TxLineInv /\ GotInv /\ MessageInv /\ ExecInv /\ BusInv /\ LinkTypes /\ TxTypes
    BY DEF MemoryInv, TypeInv
  <2>3. TxTypes' /\ MessageTypes'
    BY TypesKept DEF TypeInv
  <2>4. LineInv'
    BY <2>1, <2>2, LineKept DEF StepOf
  <2>5. TxLineInv'
    BY <2>1, <2>2, TxLineKept DEF StepOf
  <2>6. GotInv'
    BY <2>1, <2>2, <2>3, <2>5, GotKept DEF StepOf
  <2>7. MessageInv'
    BY <2>1, <2>2, MessageKept DEF StepOf
  <2>8. ExecInv'
    BY <2>1, <2>2, ExecKept DEF StepOf
  <2>9. BusInv'
    BY <2>1, <2>2, BusKept DEF StepOf
  <2>10. RingInv'
    BY <2>1, RingKept
  <2>11. CommandInv'
    BY <2>1, CommandKept
  <2>12. RaceInv'
    BY <2>1, RaceKept DEF Paced
  <2> QED BY <2>4, <2>5, <2>6, <2>7, <2>8, <2>9, <2>10, <2>11, <2>12
             DEF MemoryInv
<1>2. CASE UNCHANGED vars
  <2> USE <1>2 DEF vars, coretestVars, linkVars, hostVars, historyVars, rxRegs,
                     pointers, txRegs, commandRegs, busRegs, sampleRegs,
                     messageRegs
  <2>1. LineInv'
    BY DEF MemoryInv, LineInv, Free, Offered, Stored, Taken
  <2>2. TxLineInv' /\ GotInv' /\ MessageInv'
    BY DEF MemoryInv, TxLineInv, GotInv, Trailing, MessageInv
  <2>3. ExecInv' /\ BusInv'
    BY DEF MemoryInv, ExecInv, Trailing, BusInv, Accepted
  <2>4. RingInv'
    BY DEF MemoryInv, RingInv, Wrap, Taken
  <2>5. RaceInv'
    BY DEF MemoryInv, RaceInv, Taken, Trailing, Stored, Offered, InFlight
  <2>6. CommandInv'
    <3>1. (Resting' <=> Resting) /\ (Trailing' <=> Trailing)
      BY DEF Resting, InFlight, Stored, Offered, Trailing
    <3>2. ASSUME NEW c \in Commands, NEW k \in 0 .. 9
          PROVE  /\ StreamInv(Encode(c), k) => StreamInv(Encode(c), k)'
                 /\ ParserAt(c, k) /\ Parsed(c, k) => ParserAt(c, k)' /\ Parsed(c, k)'
      <4>1. (InFlight' <=> InFlight) /\ Flying' = Flying
        BY DEF InFlight, Flying, Stored, Offered, rx_byte
      <4>2. StreamInv(Encode(c), k) => StreamInv(Encode(c), k)'
        BY <4>1 DEF StreamInv
      <4>3. Carrying(c)' <=> Carrying(c)
        BY DEF Carrying
      <4> QED BY <3>1, <4>2, <4>3 DEF ParserAt, Parsed
    <3> QED BY <3>1, <3>2 DEF MemoryInv, CommandInv
  <2> QED BY <2>1, <2>2, <2>3, <2>4, <2>5, <2>6 DEF MemoryInv
<1> QED BY <1>1, <1>2

(* The inductive invariant of a host that waits for each answer: where the *)
(* command is on its way through the line, the buffer, the parser, the     *)
(* core and tx_engine, and what the registers hold of it.                  *)
THEOREM PacedInvariant ==
    ASSUME Paced PROVE Spec => [](TypeInv /\ EngineInv /\ MemoryInv)
<1>1. Init => TypeInv /\ MemoryInv
  BY InitTypes, InitMemory
<1>2. TypeInv /\ BufferInv /\ EngineInv /\ MemoryInv /\ [Next]_vars => TypeInv' /\ MemoryInv'
  BY TypesKept, MemoryKept
<1> QED BY <1>1, <1>2, BufferBookkeeping, EngineLockstep, PTL DEF Spec

(* A host that waits for its answers never meets the decrement that        *)
(* coretest.v:633-664 loses: the counter is the number of bytes in the     *)
(* buffer, and test_engine never reads a byte that is not there.           *)
THEOREM CounterCounts ==
    ASSUME Paced PROVE Spec => []CounterCountsElements
<1>1. MemoryInv => CounterCountsElements
  BY DEF MemoryInv, RingInv, CounterCountsElements
<1> QED BY <1>1, PacedInvariant, PTL

-----------------------------------------------------------------------------
(* The answer that is being prepared after a step is the one that the      *)
(* registers mean.                                                         *)
LEMMA NextReply ==
    ASSUME TypeInv', executed', (test_engine_reg \in EndStates)'
    PROVE  Reply' = Meaning(response_type', core_addr_reg', core_read_data_reg')
<1>1. /\ core_addr_reg' \in Byte \X Byte /\ core_read_data_reg' \in Word /\ cmd_reg' \in Byte
  BY DEF TypeInv, ParserTypes, BusTypes
<1>2. Reply' = Decode(Message(response_type)')
  BY DEF Reply
<1>3. /\ Message(response_type)' =
            MessageOf(response_type', core_addr_reg', core_read_data_reg', cmd_reg')
      /\ response_type' \in ResponseTypes
  BY MessageOfRegisters
<1>4. Decode(MessageOf(response_type', core_addr_reg', core_read_data_reg', cmd_reg'))
         = Meaning(response_type', core_addr_reg', core_read_data_reg')
  BY <1>1, <1>3, ResponseBytes
<1> QED BY <1>2, <1>3, <1>4

\* No response says nothing.
LEMMA DecodeSays == \A m : Decode(m) # [type |-> "none"]
<1> SUFFICES ASSUME NEW m PROVE Decode(m).type # "none"
  OBVIOUS
<1> QED BY DEF Decode

\* When its state is not that of an access, the core keeps its contents.
LEMMA CoreRests ==
    ASSUME TypeInv, MemoryInv, StepOf, test_engine_reg \notin {"TEST_RST_WAIT", "TEST_WR_WAIT"}
    PROVE  mem' = mem
<1>1. BusInv
  BY DEF MemoryInv
<1>2. test_engine_reg \in {"TEST_WR_END", "TEST_RST_END"} => mem' = mem
  BY <1>1, CoreMoves DEF StepOf
<1>3. test_engine_reg \notin {"TEST_RST_WAIT", "TEST_RST_END",
                               "TEST_WR_WAIT", "TEST_WR_END"} => mem' = mem
  BY <1>1, CoreMoves DEF StepOf
<1> QED BY <1>2, <1>3

\* The host takes note of a response only when it is complete.
LEMMA NotAnswered ==
    ASSUME TypeInv, StepOf, ~Answered
    PROVE  /\ received' = received
           /\ outstanding' = outstanding \/ (HostIssues /\ \E c \in Commands :
                                                outstanding' = Append(outstanding, c))
<1>1. LinkTypes
  BY DEF TypeInv
<1>2. received' = received
  <2>1. CASE HostTakes
    BY <2>1 DEF HostTakes
  <2>2. CASE HostReleases /\ ~Complete(got)
    BY <2>2 DEF HostReleases
  <2> QED BY <1>1, <2>1, <2>2, HostAck DEF StepOf
<1>3. StillOutstanding = outstanding
  BY DEF StillOutstanding
<1> QED BY <1>2, <1>3
           DEF StepOf, HostSends, HostIssues, HostRaises, HostLowers, HostWaits

\* What a filled buffer sends is what it was filled with.
LEMMA BufferSends ==
    ASSUME NEW m \in Seq(Byte), Len(m) \in {3, 4, 5, 9}
    PROVE  LET b == [s \in TxSlots |-> IF s < Len(m) THEN m[s + 1] ELSE Zero]
           IN  [i \in 1 .. (Len(m) - 1) + 1 |-> b[i - 1]] = m
<1>9. Len(m) \in Nat
  BY LenProperties
<1>10. Len(m) <= 9
  <2>1. \A n \in {3, 4, 5, 9} : n <= 9
    OBVIOUS
  <2> QED BY <2>1
<1>0. ASSUME NEW i \in 1 .. Len(m)
      PROVE  i - 1 \in TxSlots /\ i - 1 < Len(m) /\ (i - 1) + 1 = i
  <2>1. Len(m) \in Nat /\ Len(m) <= 9
    BY <1>9, <1>10
  <2>2. i \in Int /\ 1 <= i /\ i <= Len(m)
    BY <2>1
  <2>3. \A n \in Nat : n <= 9 /\ i <= n => i - 1 \in 0 .. 8 /\ i - 1 < n /\ (i - 1) + 1 = i
    BY <2>2
  <2> QED BY <2>1, <2>2, <2>3 DEF TxSlots
<1> DEFINE b == [s \in TxSlots |-> IF s < Len(m) THEN m[s + 1] ELSE Zero]
            t == [i \in 1 .. (Len(m) - 1) + 1 |-> b[i - 1]]
<1>1. \A i \in 1 .. Len(m) : b[i - 1] = m[i]
  <2> SUFFICES ASSUME NEW i \in 1 .. Len(m) PROVE b[i - 1] = m[i]
    OBVIOUS
  <2>1. i - 1 \in TxSlots /\ i - 1 < Len(m) /\ (i - 1) + 1 = i
    BY <1>0
  <2> QED BY <2>1
<1> HIDE DEF b
<1>2. (Len(m) - 1) + 1 = Len(m)
  OBVIOUS
<1>3. t = [i \in 1 .. Len(m) |-> m[i]]
  BY <1>1, <1>2
<1>4. m = [i \in 1 .. Len(m) |-> m[i]]
  <2>1. m \in [1 .. Len(m) -> Byte]
    BY LenProperties
  <2> HIDE DEF t
  <2> QED BY <2>1
<1> QED BY <1>3, <1>4 DEF b

(* The clock in which a command takes effect: the core has the reset, the  *)
(* access or nothing behind it, and the answer that is prepared is the one *)
(* the remote memory gives.                                                *)
LEMMA ExecuteStep ==
    ASSUME Paced, TypeInv, EngineInv, MemoryInv, StepOf, TypeInv', MemoryInv',
           ~executed, executed'
    PROVE  Remote!Execute
<1>1. /\ LineInv /\ TxLineInv /\ GotInv /\ MessageInv /\ ExecInv /\ BusInv /\ RingInv
      /\ CommandInv /\ RaceInv /\ BusInv' /\ CommandInv' /\ ExecInv'
  BY DEF MemoryInv
<1>2. Executes /\ ~Answered
  BY DEF StepOf, History
<1>3. test_engine_reg' # "TEST_CMD_UNKNOWN"
  BY <1>1 DEF CommandInv, ParserAt, Carrying
<1>4. \/ test_engine_reg = "TEST_RST_WAIT" /\ test_engine_reg' = "TEST_RST_END"
      \/ test_engine_reg = "TEST_RD_WAIT" /\ test_engine_reg' = "TEST_RD_END"
      \/ test_engine_reg = "TEST_WR_WAIT" /\ test_engine_reg' = "TEST_WR_END"
      \/ test_engine_reg' = "TEST_CMD_ERROR"
  <2>1. CASE test_engine_reg' \in {"TEST_CMD_ERROR", "TEST_CMD_UNKNOWN"}
    BY <1>3, <2>1
  <2>2. CASE test_engine_reg \in {"TEST_RST_WAIT", "TEST_RD_WAIT", "TEST_WR_WAIT"}
    <3>1. Access(core_read_data, core_error)
      BY <2>2, EngineStates
         DEF StepOf, TestEngine, TakingStates, Respond, EndStates
    <3> QED BY <2>2, <3>1 DEF Access, CoreReset, AccessStart, AccessWait
  <2> QED BY <1>2, <2>1, <2>2 DEF Executes
<1>5. test_engine_reg' \in EndStates
  BY <1>4 DEF EndStates
<1>6. PICK c \in Commands, k \in 0 .. 9 :
         outstanding' = <<c>> /\ ParserAt(c, k)' /\ Parsed(c, k)'
  BY <1>1, <1>5 DEF CommandInv, EndStates
<1>7. Carrying(c)' /\ k = Len(Encode(c))
  BY <1>5, <1>6 DEF ParserAt, EndStates
<1>8. outstanding = <<c>> /\ outstanding' = outstanding /\ received' = received
  <2>1. ~HostIssues
    <3>1. outstanding # <<>>
      <4>1. CASE outstanding = <<>>
        <5>1. test_engine_reg \in {"TEST_IDLE", "TEST_SEND_RESPONSE"}
          BY <1>1, <4>1 DEF CommandInv
        <5>2. test_engine_reg' = "TEST_CMD_ERROR"
          BY <1>4, <5>1
        <5>3. Resting
          BY <1>1, <4>1 DEF CommandInv
        <5>4. rx_buffer_empty
          BY <1>1, <5>3 DEF Resting, InFlight, RingInv, rx_buffer_empty
        <5>5. test_engine_reg = "TEST_IDLE" => test_engine_reg' = "TEST_IDLE"
          BY <5>4, NothingTaken DEF StepOf, TakingStates
        <5>6. test_engine_reg = "TEST_SEND_RESPONSE" => SendResponse
          BY EngineStates
             DEF StepOf, TestEngine, Respond, TakingStates, EndStates
        <5> QED BY <5>1, <5>2, <5>5, <5>6 DEF SendResponse
      <4> QED BY <4>1
    <3>2. \A d : Len(<<d>>) = 1
      OBVIOUS
    <3>3. Len(outstanding) = 1
      BY <1>1, <3>1, <3>2 DEF CommandInv
    <3> QED BY <3>3 DEF HostIssues, Paced
  <2> QED BY <1>2, <1>6, <2>1, NotAnswered
<1>9. /\ c.op \in {"reset", "read", "garbled", "write"}
      /\ Head(outstanding) = c /\ outstanding # <<>>
  BY <1>8, CommandShape DEF Paced
<1>10. Reply' = Meaning(response_type', core_addr_reg', core_read_data_reg')
  BY <1>5, NextReply
<1>11. Reply = [type |-> "none"]
  BY DEF Reply
<1>12. /\ c.op = "reset" => Len(Encode(c)) = 3
       /\ c.op \in {"read", "garbled"} => Len(Encode(c)) = 5
       /\ c.op = "write" => Len(Encode(c)) = 9
  BY CommandBytes
<1>13. c.op \in {"read", "write"} => core_addr_reg' = c.addr
  <2> SUFFICES ASSUME c.op \in {"read", "write"} PROVE core_addr_reg' = c.addr
    OBVIOUS
  <2>0. k >= 4
    BY <1>7, <1>12
  <2>1. core_addr_reg'[1] = c.addr[1] /\ core_addr_reg'[2] = c.addr[2]
    BY <1>6, <2>0 DEF Parsed
  <2>2. core_addr_reg' \in Byte \X Byte /\ c.addr \in Byte \X Byte
    BY CommandShape DEF TypeInv, ParserTypes
  <2> QED BY <2>1, <2>2
<1>14. c.op = "write" => core_wr_data_reg' = c.data
  <2> SUFFICES ASSUME c.op = "write" PROVE core_wr_data_reg' = c.data
    OBVIOUS
  <2>0. k = 9
    BY <1>7, <1>12
  <2>1. /\ core_wr_data_reg'[1] = c.data[1] /\ core_wr_data_reg'[2] = c.data[2]
        /\ core_wr_data_reg'[3] = c.data[3] /\ core_wr_data_reg'[4] = c.data[4]
    BY <1>6, <2>0 DEF Parsed
  <2>2. core_wr_data_reg' \in Word /\ c.data \in Word
    BY CommandShape DEF TypeInv, ParserTypes
  <2> QED BY <2>1, <2>2 DEF Word
<1>15. mem' = Remote!Effect(c) /\ Reply' = Remote!Answer(c)
  <2>1. CASE test_engine_reg = "TEST_RST_WAIT" /\ test_engine_reg' = "TEST_RST_END"
    <3>1. c.op = "reset"
      BY <1>7, <2>1 DEF Carrying
    <3>2. mem' = [a \in Addresses |-> ZeroWord]
      BY <1>1, <2>1, CoreMoves DEF StepOf
    <3>3. response_type' = RESET_OK
      BY <2>1 DEF response_type
    <3>4. Reply' = [type |-> "reset_ok"]
      BY <1>10, <3>3 DEF Meaning, READ_OK, WRITE_OK, RESET_OK, ERROR, UNKNOWN
    <3> QED BY <3>1, <3>2, <3>4 DEF Remote!Effect, Remote!Answer
  <2>2. CASE test_engine_reg = "TEST_RD_WAIT" /\ test_engine_reg' = "TEST_RD_END"
    <3>1. c.op = "read" /\ core_addr_reg' = c.addr
      BY <1>7, <1>13, <2>2 DEF Carrying
    <3>2. mem' = mem
      BY <2>2, CoreRests
    <3>3. /\ core_error_reg' <=> c.addr \notin Addresses
          /\ c.addr \in Addresses => core_read_data_reg' = mem[c.addr]
      BY <1>1, <2>2, <3>1, <3>2 DEF BusInv, Accepted
    <3>4. response_type' = IF c.addr \in Addresses THEN READ_OK ELSE ERROR
      BY <2>2, <3>3 DEF response_type
    <3>5. Reply' = IF c.addr \in Addresses
                   THEN [type |-> "read_ok", addr |-> c.addr, data |-> mem[c.addr]]
                   ELSE [type |-> "error"]
      BY <1>10, <3>1, <3>3, <3>4
         DEF Meaning, READ_OK, WRITE_OK, RESET_OK, ERROR, UNKNOWN
    <3> QED BY <3>1, <3>2, <3>5 DEF Remote!Effect, Remote!Answer
  <2>3. CASE test_engine_reg = "TEST_WR_WAIT" /\ test_engine_reg' = "TEST_WR_END"
    <3>1. c.op = "write" /\ core_addr_reg' = c.addr /\ core_wr_data_reg' = c.data
      BY <1>7, <1>13, <1>14, <2>3 DEF Carrying
    <3>2. core_addr_reg' = core_addr_reg /\ core_wr_data_reg' = core_wr_data_reg
      <4>1. Access(core_read_data, core_error)
        BY <2>3, EngineStates
           DEF StepOf, TestEngine, TakingStates, Respond, EndStates
      <4> QED BY <4>1 DEF Access, commandRegs
    <3>3. mem' = IF c.addr \in Addresses THEN [mem EXCEPT ![c.addr] = c.data] ELSE mem
      <4>1. core_addr_reg = c.addr /\ core_wr_data_reg = c.data
        BY <3>1, <3>2
      <4>2. CASE c.addr \in Addresses
        <5>1. mem' = [mem EXCEPT ![core_addr_reg] = core_wr_data_reg]
          BY <1>1, <2>3, <4>1, <4>2, CoreMoves DEF StepOf, Accepted
        <5> QED BY <4>1, <4>2, <5>1
      <4>3. CASE c.addr \notin Addresses
        BY <1>1, <2>3, <4>1, <4>3, CoreMoves DEF StepOf, Accepted
      <4> QED BY <4>2, <4>3
    <3>4. core_error_reg' <=> c.addr \notin Addresses
      BY <1>1, <2>3, <3>1 DEF BusInv, Accepted
    <3>5. response_type' = IF c.addr \in Addresses THEN WRITE_OK ELSE ERROR
      BY <2>3, <3>4 DEF response_type
    <3>6. Reply' = IF c.addr \in Addresses THEN [type |-> "write_ok", addr |-> c.addr]
                                           ELSE [type |-> "error"]
      BY <1>10, <3>1, <3>5
         DEF Meaning, READ_OK, WRITE_OK, RESET_OK, ERROR, UNKNOWN
    <3> QED BY <3>1, <3>3, <3>6 DEF Remote!Effect, Remote!Answer
  <2>4. CASE test_engine_reg' = "TEST_CMD_ERROR"
    <3>1. c.op = "garbled"
      BY <1>7, <2>4 DEF Carrying
    <3>2. test_engine_reg \notin {"TEST_RST_WAIT", "TEST_WR_WAIT"}
      BY <2>4, EngineStates
         DEF StepOf, TestEngine, TakingStates, Respond, EndStates
    <3>3. mem' = mem
      BY <3>2, CoreRests
    <3>4. response_type' = ERROR
      BY <2>4 DEF response_type
    <3>5. Reply' = [type |-> "error"]
      BY <1>10, <3>4 DEF Meaning, READ_OK, WRITE_OK, RESET_OK, ERROR, UNKNOWN
    <3> QED BY <3>1, <3>3, <3>5 DEF Remote!Effect, Remote!Answer
  <2> QED BY <1>4, <2>1, <2>2, <2>3, <2>4
<1> QED BY <1>8, <1>9, <1>11, <1>15 DEF Remote!Execute, Remote!NoReply

(* Every step is a step of the remote memory or changes nothing of it: a   *)
(* command is issued, carried out, or its answer delivered with the last   *)
(* byte.                                                                   *)
LEMMA RemoteStep ==
    ASSUME Paced, TypeInv, EngineInv, MemoryInv, StepOf, TypeInv', MemoryInv'
    PROVE  \/ Remote!MemoryNext
           \/ UNCHANGED <<mem, outstanding, Reply, received>>
<1>1. /\ LineInv /\ TxLineInv /\ GotInv /\ MessageInv /\ ExecInv /\ BusInv /\ RingInv
      /\ CommandInv /\ RaceInv /\ ExecInv'
  BY DEF MemoryInv
<1>2. executed' <=> (executed \/ Executes) /\ ~Answered
  BY DEF StepOf, History
<1>3. Answered => ~Trailing /\ SendResponse
  BY <1>1, TrailingMoves DEF StepOf
<1>4. Answered => executed
  BY <1>1, <1>3 DEF SendResponse, ExecInv
<1>5. CASE ~executed /\ executed'
  <2>1. Remote!Execute
    BY <1>5, ExecuteStep
  <2> QED BY <2>1 DEF Remote!MemoryNext
<1>6. CASE ~executed /\ ~executed'
  <2>1. ~Answered /\ ~Executes
    BY <1>2, <1>4, <1>6
  <2>2. mem' = mem
    BY <2>1, CoreRests DEF Executes
  <2>3. Reply = [type |-> "none"] /\ Reply' = [type |-> "none"]
    BY <1>6 DEF Reply
  <2>4. /\ received' = received
        /\ \/ outstanding' = outstanding
           \/ HostIssues /\ \E c \in Commands : outstanding' = Append(outstanding, c)
    BY <2>1, NotAnswered
  <2>5. HostIssues => Len(outstanding) < Window
    BY DEF HostIssues
  <2> QED BY <2>2, <2>3, <2>4, <2>5 DEF Remote!MemoryNext, Remote!Issue
<1>7. ASSUME executed
      PROVE  /\ mem' = mem
             /\ outstanding # <<>> /\ Len(outstanding) = 1 /\ \E c : outstanding = <<c>>
             /\ ~HostIssues
  <2>1. \/ test_engine_reg \in EndStates
        \/ test_engine_reg = "TEST_SEND_RESPONSE" /\ ~Trailing
    BY <1>1, <1>7 DEF ExecInv
  <2>2. mem' = mem
    BY <2>1, CoreRests DEF EndStates
  <2>3. \E c : outstanding = <<c>>
    BY <1>1, <2>1 DEF CommandInv, EndStates
  <2>4. \A c : Len(<<c>>) = 1 /\ <<c>> # <<>>
    OBVIOUS
  <2>5. Len(outstanding) = 1 /\ outstanding # <<>>
    BY <2>3, <2>4
  <2>6. ~HostIssues
    BY <2>5 DEF HostIssues, Paced
  <2> QED BY <2>2, <2>3, <2>5, <2>6
<1>8. CASE executed /\ executed'
  <2>1. ~Answered
    BY <1>2, <1>8
  <2>2. received' = received /\ outstanding' = outstanding
    BY <1>7, <1>8, <2>1, NotAnswered
  <2>3. Reply' = Reply
    <3>1. CASE test_engine_reg \in EndStates
      <4>1. BuildResponse
        BY <3>1, EngineStates
           DEF StepOf, TestEngine, TakingStates, Respond, EndStates
      <4> DEFINE m == Message(response_type)
      <4>2. Reply = Decode(m)
        BY <1>8, <3>1 DEF Reply
      <4>3. m \in Seq(Byte) /\ Len(m) \in {3, 4, 5, 9}
        BY MessageOfRegisters, ResponseBytes DEF TypeInv, ParserTypes, BusTypes
      <4>4. /\ tx_buffer' = [s \in TxSlots |-> IF s < Len(m) THEN m[s + 1] ELSE Zero]
            /\ tx_msg_len_reg' = Len(m) - 1
            /\ test_engine_reg' = "TEST_SEND_RESPONSE"
        BY <4>1 DEF BuildResponse, UpdateTxBuffer
      <4> HIDE DEF m
      <4>5. TxMessage' = m
        <5>1. TxMessage' = [i \in 1 .. (Len(m) - 1) + 1 |-> tx_buffer'[i - 1]]
          BY <4>4 DEF TxMessage
        <5> QED BY <4>3, <4>4, <5>1, BufferSends
      <4>6. Reply' = Decode(TxMessage')
        BY <1>8, <4>4 DEF Reply, EndStates
      <4> QED BY <4>2, <4>5, <4>6
    <3>2. CASE test_engine_reg = "TEST_SEND_RESPONSE" /\ ~Trailing
      <4>1. SendResponse
        BY <3>2, EngineStates
           DEF StepOf, TestEngine, Respond, TakingStates, EndStates
      <4>2. TxMessage' = TxMessage /\ test_engine_reg' \notin EndStates
        BY <4>1 DEF SendResponse, messageRegs, TxMessage, EndStates
      <4>3. Reply = Decode(TxMessage)
        BY <1>8, <3>2 DEF Reply, EndStates
      <4>4. Reply' = Decode(TxMessage')
        BY <1>8, <4>2 DEF Reply
      <4> QED BY <4>2, <4>3, <4>4
    <3> QED BY <1>1, <1>8, <3>1, <3>2 DEF ExecInv
  <2> QED BY <1>7, <1>8, <2>2, <2>3
<1>9. CASE executed /\ ~executed'
  <2>1. Answered
    BY <1>2, <1>9
  <2>2. /\ tx_engine_reg = "TX_NOACK" /\ tx_ack /\ tx_ack' = FALSE
        /\ tx_buffer_ptr_reg = tx_msg_len_reg
    BY <1>1, <2>1, WhenAnswered DEF StepOf
  <2>3. got = TxMessage
    <3>1. got \in Seq(Byte) /\ Len(got) = tx_msg_len_reg + 1
      BY <1>1, <2>2 DEF GotInv, Trailing
    <3>2. \A j \in 1 .. Len(got) : got[j] = tx_buffer[j - 1]
      BY <1>1 DEF GotInv
    <3>3. got = [j \in 1 .. Len(got) |-> got[j]]
      BY <3>1, LenProperties
    <3> QED BY <3>1, <3>2, <3>3 DEF TxMessage
  <2>4. Reply = Decode(TxMessage)
    BY <1>3, <1>9, <2>1 DEF Reply, SendResponse, EndStates
  <2>5. received' = Decode(got)
    <3>1. LinkTypes
      BY DEF TypeInv
    <3>2. HostReleases /\ Complete(got)
      BY <2>1, <3>1, HostAck DEF StepOf
    <3> QED BY <3>2 DEF HostReleases
  <2>6. Reply' = [type |-> "none"]
    BY <1>9 DEF Reply
  <2>7. outstanding' = Tail(outstanding)
    <3>1. PICK c : outstanding = <<c>>
      BY <1>7, <1>9
    <3>2. outstanding' = StillOutstanding
      BY <1>7, <1>9 DEF StepOf, HostSends, HostRaises, HostLowers, HostWaits
    <3>3. StillOutstanding = SubSeq(<<c>>, 2, 1)
      BY <1>7, <1>9, <2>1, <3>1 DEF StillOutstanding
    <3>4. SubSeq(<<c>>, 2, 1) = <<>>
      BY SubSeqEmpty
    <3>5. Tail(<<c>>) = <<>>
      OBVIOUS
    <3> QED BY <3>1, <3>2, <3>3, <3>4, <3>5
  <2>8. Reply # [type |-> "none"]
    BY <2>4, DecodeSays
  <2> QED BY <1>7, <1>9, <2>3, <2>4, <2>5, <2>6, <2>7, <2>8
             DEF Remote!MemoryNext, Remote!Deliver, Remote!NoReply
<1> QED BY <1>5, <1>6, <1>8, <1>9

(* Coretest with its core is a remote memory to a host that waits for its  *)
(* answers: each command takes effect once, in one step, and the answer    *)
(* the host assembles from the bytes it acknowledged says what that step   *)
(* did.                                                                    *)
THEOREM CoretestIsRemoteMemory ==
    ASSUME Paced PROVE Spec => IsRemoteMemory
<1>1. Init => Remote!MemoryInit
  BY DEF Init, CoretestInit, Reply, Remote!MemoryInit, Remote!NoReply
<1>2. /\ Paced /\ [Next]_vars
      /\ TypeInv /\ EngineInv /\ MemoryInv /\ (TypeInv /\ EngineInv /\ MemoryInv)'
      => [Remote!MemoryNext]_<<mem, outstanding, Reply, received>>
  <2> SUFFICES ASSUME Paced, [Next]_vars, TypeInv, EngineInv, MemoryInv,
                       TypeInv', MemoryInv'
                PROVE  [Remote!MemoryNext]_<<mem, outstanding, Reply, received>>
    OBVIOUS
  <2>1. CASE Next
    <3>1. StepOf
      BY <2>1, StepParts DEF StepOf
    <3> QED BY <3>1, RemoteStep
  <2>2. CASE UNCHANGED vars
    <3> USE <2>2 DEF vars, coretestVars, linkVars, hostVars, historyVars, rxRegs,
                     pointers, txRegs, commandRegs, busRegs, sampleRegs,
                     messageRegs
    <3>1. Reply' = Reply
      BY DEF Reply, TxMessage, Message, response_type
    <3> QED BY <3>1
  <2> QED BY <2>1, <2>2
<1> QED BY <1>1, <1>2, PacedInvariant, PTL
           DEF Spec, IsRemoteMemory, Remote!MemorySpec, Remote!memoryVars
=============================================================================
