--------------------------- MODULE CoretestProofs ---------------------------
(***************************************************************************)
(* Proofs about CoretestSystem, for every buffer size, command set, window *)
(* and core.  BufferInv is the bookkeeping of the receive buffer, EngineInv*)
(* the lockstep of test_engine with the bus and with tx_engine, TypeInv    *)
(* the width of every register.  The second part is about the protocol:    *)
(* which bytes a command and a response consist of.                        *)
(***************************************************************************)
EXTENDS CoretestSystem, SequenceTheorems, TLAPS

(* The counter may count bytes that are not there, and never misses one;   *)
(* when rx_engine has stored a byte there is room to count it.             *)
BufferInv ==
    /\ rx_buffer_ctr_reg \in RxSlots
    /\ unread \in Int
    /\ unread <= rx_buffer_ctr_reg
    /\ rx_engine_reg = "RX_ACK" => rx_buffer_ctr_reg < BUFFER_MAX

(* The core is selected only between the start and the end of an access,   *)
(* and tx_engine runs only while test_engine waits for it.                 *)
EngineInv ==
    /\ core_cs_reg \in BOOLEAN
    /\ core_cs_reg => test_engine_reg \in {"TEST_RD_WAIT", "TEST_RD_END",
                                           "TEST_WR_WAIT", "TEST_WR_END"}
    /\ {send_response_reg, response_sent_reg} \subseteq BOOLEAN
    /\ send_response_reg => test_engine_reg = "TEST_SEND_RESPONSE"
    /\ tx_engine_reg # "TX_IDLE" => send_response_reg
    /\ response_sent_reg <=> tx_engine_reg = "TX_DONE"

-----------------------------------------------------------------------------
(* The buffer's counter never falls below the number of bytes in it, and    *)
(* rx_engine acknowledges a byte only after it found room for it           *)
(* (coretest.v:571-664).                                                   *)
THEOREM BufferBookkeeping == Spec => []BufferInv
<1>1. Init => BufferInv
  BY BufferMaxAssumption
     DEF Init, CoretestInit, BufferInv, RxSlots
<1>2. BufferInv /\ [Next]_vars => BufferInv'
  <2> SUFFICES ASSUME BufferInv, [Next]_vars PROVE BufferInv'
    OBVIOUS
  <2> USE BufferMaxAssumption DEF BufferInv, RxSlots
  <2>1. CASE Next
    <3>1. /\ RxEngine(rx_data)
          /\ RxBufferPointers
          /\ History
      BY <2>1 DEF Next, CoretestClock
    <3>2. rx_engine_reg' = "RX_ACK" =>
             rx_engine_reg = "RX_IDLE" /\ rx_buffer_ctr_reg # BUFFER_MAX
      BY <3>1 DEF RxEngine, RxStore, RxAck, RxRelease, RxWait, rxRegs,
                  rx_buffer_full
    <3>3. CASE rx_buffer_wr_ptr_inc
      <4>1. rx_buffer_ctr_reg < BUFFER_MAX /\ rx_engine_reg' # "RX_ACK"
        BY <3>2, <3>3 DEF rx_buffer_wr_ptr_inc
      <4>2. rx_buffer_ctr_reg' = Wrap(rx_buffer_ctr_reg + 1)
        BY <3>1, <3>3 DEF RxBufferPointers
      <4>3. rx_buffer_ctr_reg' = rx_buffer_ctr_reg + 1
        BY <4>1, <4>2 DEF Wrap
      <4>4. unread' = unread + 1 \/ unread' = unread + 1 - 1
        BY <3>1, <3>3 DEF History
      <4> QED BY <4>1, <4>3, <4>4
    <3>4. CASE ~rx_buffer_wr_ptr_inc /\ rx_buffer_rd_ptr_inc
      <4>1. rx_buffer_ctr_reg' = Wrap(rx_buffer_ctr_reg - 1)
        BY <3>1, <3>4 DEF RxBufferPointers
      <4>2. rx_buffer_ctr_reg # 0
        BY <3>4 DEF rx_buffer_rd_ptr_inc, rx_buffer_empty
      <4>3. rx_buffer_ctr_reg' = rx_buffer_ctr_reg - 1
        BY <4>1, <4>2 DEF Wrap
      <4>4. unread' = unread + 0 - 1
        BY <3>1, <3>4 DEF History
      <4> QED BY <3>2, <4>2, <4>3, <4>4
    <3>5. CASE ~rx_buffer_wr_ptr_inc /\ ~rx_buffer_rd_ptr_inc
      <4>1. rx_buffer_ctr_reg' = rx_buffer_ctr_reg
        BY <3>1, <3>5 DEF RxBufferPointers
      <4>2. unread' = unread + 0 - 0
        BY <3>1, <3>5 DEF History
      <4> QED BY <3>2, <4>1, <4>2
    <3> QED BY <3>3, <3>4, <3>5
  <2>2. CASE UNCHANGED vars
    BY <2>2 DEF vars, coretestVars, rxRegs, pointers, historyVars
  <2> QED BY <2>1, <2>2
<1> QED BY <1>1, <1>2, PTL DEF Spec

(* Whatever the host sends and however fast, a byte is stored only where   *)
(* test_engine has taken the one before (rx_buffer_full, coretest.v:642):  *)
(* losing a decrement errs on the safe side.                               *)
THEOREM ReceiveBufferSafe == Spec => []NeverOverrun
<1>1. BufferInv => NeverOverrun
  BY BufferMaxAssumption DEF BufferInv, RxSlots, NeverOverrun
<1> QED BY <1>1, BufferBookkeeping, PTL

-----------------------------------------------------------------------------
(* The three engines of coretest.v hand over to each other: the core is    *)
(* selected only in the states of an access, and tx_engine runs only while *)
(* test_engine waits in TEST_SEND_RESPONSE for response_sent_reg           *)
(* (coretest.v:671-838, 1040-1214).                                        *)
THEOREM EngineLockstep == Spec => []EngineInv
<1>1. Init => EngineInv
  BY DEF Init, CoretestInit, EngineInv
<1>2. EngineInv /\ [Next]_vars => EngineInv'
  <2> SUFFICES ASSUME EngineInv, [Next]_vars PROVE EngineInv'
    OBVIOUS
  <2>1. CASE Next
    <3>1. TxEngine /\ TestEngine(core_read_data, core_error)
      BY <2>1 DEF Next, CoretestClock
    <3>2. /\ tx_engine_reg' # "TX_IDLE" => send_response_reg
          /\ response_sent_reg' <=> tx_engine_reg' = "TX_DONE"
          /\ response_sent_reg' \in BOOLEAN
          /\ tx_engine_reg = "TX_DONE" => tx_engine_reg' = "TX_IDLE"
      <4>1. CASE TxStart
        BY <4>1 DEF TxStart, EngineInv
      <4>2. CASE TxAcked
        BY <4>2 DEF TxAcked, EngineInv
      <4>3. CASE TxReleased
        BY <4>3 DEF TxReleased, EngineInv
      <4>4. CASE TxNext
        BY <4>4 DEF TxNext, EngineInv
      <4>5. CASE TxSent
        BY <4>5 DEF TxSent, EngineInv
      <4>6. CASE TxDone
        BY <4>6 DEF TxDone, EngineInv
      <4>7. CASE TxWait
        BY <4>7 DEF TxWait, txRegs, EngineInv
      <4> QED BY <3>1, <4>1, <4>2, <4>3, <4>4, <4>5, <4>6, <4>7 DEF TxEngine
    <3>3. CASE Parse
      <4>1. /\ test_engine_reg \in TakingStates \cup {"TEST_PARSE_CMD"}
            /\ UNCHANGED <<core_cs_reg, send_response_reg>>
        BY <3>3 DEF Parse, Parsing, busRegs, TestIdle, GetCmd, ParseCmd,
                    GetAddr, GetData, DataStates, GetEoc, TestStarves,
                    TakingStates
      <4>2. ~core_cs_reg /\ ~send_response_reg
        BY <4>1 DEF EngineInv, TakingStates
      <4> QED BY <3>2, <4>1, <4>2 DEF EngineInv
    <3>4. CASE Access(core_read_data, core_error)
      <4>1. UNCHANGED send_response_reg
        BY <3>4 DEF Access
      <4>2. test_engine_reg # "TEST_SEND_RESPONSE"
        BY <3>4 DEF Access, CoreReset, AccessStart, AccessWait
      <4>3. ~send_response_reg
        BY <4>2 DEF EngineInv
      <4>4. /\ core_cs_reg' \in BOOLEAN
            /\ core_cs_reg' => test_engine_reg' \in
                  {"TEST_RD_WAIT", "TEST_RD_END", "TEST_WR_WAIT", "TEST_WR_END"}
        <5>1. CASE CoreReset
          <6>1. /\ test_engine_reg \in {"TEST_RST_START", "TEST_RST_WAIT"}
                /\ core_cs_reg' = core_cs_reg
            BY <5>1 DEF CoreReset
          <6>2. ~core_cs_reg /\ core_cs_reg \in BOOLEAN
            BY <6>1 DEF EngineInv
          <6> QED BY <6>1, <6>2
        <5>2. CASE AccessStart
          BY <5>2 DEF AccessStart
        <5>3. CASE AccessWait(core_read_data, core_error)
          <6>1. /\ test_engine_reg' \in {"TEST_RD_END", "TEST_WR_END"}
                /\ core_cs_reg' = core_cs_reg
            BY <5>3 DEF AccessWait, busRegs
          <6> QED BY <6>1 DEF EngineInv
        <5> QED BY <3>4, <5>1, <5>2, <5>3 DEF Access
      <4> QED BY <3>2, <4>1, <4>3, <4>4 DEF EngineInv
    <3>5. CASE BuildResponse
      <4>1. /\ test_engine_reg \in EndStates
            /\ UNCHANGED send_response_reg
            /\ core_cs_reg' = (core_cs_reg /\ test_engine_reg \notin
                                               {"TEST_RD_END", "TEST_WR_END"})
        BY <3>5 DEF BuildResponse
      <4>2. ~core_cs_reg' /\ core_cs_reg' \in BOOLEAN
        BY <4>1 DEF EngineInv, EndStates
      <4>3. ~send_response_reg
        BY <4>1 DEF EngineInv, EndStates
      <4> QED BY <3>2, <4>1, <4>2, <4>3 DEF EngineInv
    <3>6. CASE SendResponse
      <4>1. /\ test_engine_reg = "TEST_SEND_RESPONSE"
            /\ send_response_reg' = ~response_sent_reg
            /\ test_engine_reg' = IF response_sent_reg THEN "TEST_IDLE"
                                                       ELSE "TEST_SEND_RESPONSE"
            /\ UNCHANGED core_cs_reg
        BY <3>6 DEF SendResponse, busRegs
      <4>2. ~core_cs_reg
        BY <4>1 DEF EngineInv
      <4>3. CASE response_sent_reg
        <5>1. tx_engine_reg' = "TX_IDLE"
          BY <3>2, <4>3 DEF EngineInv
        <5> QED BY <3>2, <4>1, <4>2, <4>3, <5>1 DEF EngineInv
      <4>4. CASE ~response_sent_reg
        BY <3>2, <4>1, <4>2, <4>4 DEF EngineInv
      <4> QED BY <4>3, <4>4
    <3> QED BY <3>1, <3>3, <3>4, <3>5, <3>6 DEF TestEngine, Respond
  <2>2. CASE UNCHANGED vars
    BY <2>2 DEF vars, coretestVars, txRegs, busRegs, EngineInv
  <2> QED BY <2>1, <2>2
<1> QED BY <1>1, <1>2, PTL DEF Spec

(* The address, the data and the write enable a core sees do not change    *)
(* while it is selected (coretest.v:1048-1141), however many commands wait *)
(* in the receive buffer.                                                  *)
THEOREM CoreSeesStableBus == Spec => BusStable
<1>1. EngineInv /\ [Next]_vars =>
         [core_cs_reg => /\ UNCHANGED <<core_addr_reg, core_wr_data_reg>>
                         /\ core_cs_reg' => UNCHANGED core_we_reg]_vars
  <2> SUFFICES ASSUME EngineInv, Next, core_cs_reg
               PROVE  /\ UNCHANGED <<core_addr_reg, core_wr_data_reg>>
                      /\ core_cs_reg' => UNCHANGED core_we_reg
    OBVIOUS
  <2>1. test_engine_reg \in {"TEST_RD_WAIT", "TEST_RD_END",
                             "TEST_WR_WAIT", "TEST_WR_END"}
    BY DEF EngineInv
  <2>2. TestEngine(core_read_data, core_error)
    BY DEF Next, CoretestClock
  <2>3. ~Parse
    BY <2>1 DEF Parse, TestIdle, GetCmd, ParseCmd, GetAddr, GetData,
                DataStates, GetEoc, TestStarves, TakingStates
  <2>4. CASE Access(core_read_data, core_error)
    BY <2>1, <2>4 DEF Access, CoreReset, AccessStart, AccessWait, busRegs,
                      commandRegs
  <2>5. CASE Respond
    <3>1. BuildResponse /\ UNCHANGED commandRegs
      BY <2>1, <2>5 DEF Respond, SendResponse
    <3>2. test_engine_reg \in {"TEST_RD_END", "TEST_WR_END"}
      BY <2>1, <3>1 DEF BuildResponse, EndStates
    <3>3. core_cs_reg' = FALSE
      BY <3>1, <3>2 DEF BuildResponse
    <3> QED BY <3>1, <3>3 DEF commandRegs
  <2> QED BY <2>2, <2>3, <2>4, <2>5 DEF TestEngine
<1> QED BY <1>1, EngineLockstep, PTL DEF Spec, BusStable

(* The message in tx_buffer is not rewritten while tx_engine sends it      *)
(* (coretest.v:735-815): the next command waits for the end of the         *)
(* transmission.                                                           *)
THEOREM ResponseNotRewritten == Spec => ResponseFrozen
<1>1. EngineInv /\ [Next]_vars =>
         [tx_engine_reg # "TX_IDLE" /\ tx_engine_reg' # "TX_IDLE"
             => UNCHANGED messageRegs]_vars
  <2> SUFFICES ASSUME EngineInv, Next, tx_engine_reg # "TX_IDLE"
               PROVE  UNCHANGED messageRegs
    OBVIOUS
  <2>1. test_engine_reg = "TEST_SEND_RESPONSE"
    BY DEF EngineInv
  <2>2. TestEngine(core_read_data, core_error)
    BY DEF Next, CoretestClock
  <2>3. ~Parse
    BY <2>1 DEF Parse, TestIdle, GetCmd, ParseCmd, GetAddr, GetData,
                DataStates, GetEoc, TestStarves, TakingStates
  <2>4. ~Access(core_read_data, core_error) /\ ~BuildResponse
    BY <2>1 DEF Access, CoreReset, AccessStart, AccessWait, BuildResponse,
                EndStates
  <2> QED BY <2>2, <2>3, <2>4 DEF TestEngine, Respond, SendResponse
<1> QED BY <1>1, EngineLockstep, PTL DEF Spec, ResponseFrozen

-----------------------------------------------------------------------------
(* The shape of addresses and words, and of what is built from them.       *)

\* An address is a sequence of two bytes.
LEMMA PairIsSeq ==
    ASSUME NEW p \in Byte \X Byte
    PROVE  p \in Seq(Byte) /\ Len(p) = 2 /\ p[1] \in Byte /\ p[2] \in Byte
<1>1. ASSUME NEW a \in Byte, NEW b \in Byte
      PROVE  <<a, b>> \in Seq(Byte) /\ Len(<<a, b>>) = 2
  OBVIOUS
<1>2. p = <<p[1], p[2]>> /\ p[1] \in Byte /\ p[2] \in Byte
  OBVIOUS
<1>3. PICK a \in Byte, b \in Byte : p = <<a, b>>
  BY <1>2
<1> QED BY <1>1, <1>2, <1>3

\* A word is a sequence of four bytes.
LEMMA WordIsSeq ==
    ASSUME NEW d \in Word
    PROVE  d \in Seq(Byte) /\ Len(d) = 4 /\ \A i \in 1 .. 4 : d[i] \in Byte
<1>1. ASSUME NEW a \in Byte, NEW b \in Byte, NEW c \in Byte, NEW e \in Byte
      PROVE  <<a, b, c, e>> \in Seq(Byte) /\ Len(<<a, b, c, e>>) = 4
  <2>1. <<a, b, c, e>> \in [1 .. 4 -> Byte] /\ Len(<<a, b, c, e>>) = 4
    OBVIOUS
  <2> QED BY <2>1
<1>2. /\ d = <<d[1], d[2], d[3], d[4]>>
      /\ d[1] \in Byte /\ d[2] \in Byte /\ d[3] \in Byte /\ d[4] \in Byte
  BY DEF Word
<1>3. PICK a \in Byte, b \in Byte, c \in Byte, e \in Byte : d = <<a, b, c, e>>
  BY <1>2
<1> QED BY <1>1, <1>2, <1>3

\* The bytes of two sequences of two, one after the other.
LEMMA JoinTwoTwo ==
    ASSUME NEW s \in Seq(Byte), NEW t \in Seq(Byte), Len(s) = 2, Len(t) = 2
    PROVE  /\ s \o t \in Seq(Byte) /\ Len(s \o t) = 4
           /\ (s \o t)[1] = s[1] /\ (s \o t)[2] = s[2]
           /\ (s \o t)[3] = t[1] /\ (s \o t)[4] = t[2]
<1>1. s \o t \in Seq(Byte)
  BY ONLY s \in Seq(Byte), t \in Seq(Byte), ConcatProperties
<1>2. Len(s \o t) = Len(s) + Len(t)
  BY ONLY s \in Seq(Byte), t \in Seq(Byte), ConcatProperties
<1>3. \A i \in 1 .. Len(s) + Len(t) :
         (s \o t)[i] = IF i <= Len(s) THEN s[i] ELSE t[i - Len(s)]
  BY ConcatProperties
<1> QED BY <1>1, <1>2, <1>3

\* The bytes of two sequences of four, one after the other.
LEMMA JoinFourFour ==
    ASSUME NEW s \in Seq(Byte), NEW t \in Seq(Byte), Len(s) = 4, Len(t) = 4
    PROVE  /\ s \o t \in Seq(Byte) /\ Len(s \o t) = 8
           /\ (s \o t)[1] = s[1] /\ (s \o t)[2] = s[2]
           /\ (s \o t)[3] = s[3] /\ (s \o t)[4] = s[4]
           /\ (s \o t)[5] = t[1] /\ (s \o t)[6] = t[2]
           /\ (s \o t)[7] = t[3] /\ (s \o t)[8] = t[4]
<1>1. s \o t \in Seq(Byte)
  BY ONLY s \in Seq(Byte), t \in Seq(Byte), ConcatProperties
<1>2. Len(s \o t) = Len(s) + Len(t)
  BY ONLY s \in Seq(Byte), t \in Seq(Byte), ConcatProperties
<1>3. \A i \in 1 .. Len(s) + Len(t) :
         (s \o t)[i] = IF i <= Len(s) THEN s[i] ELSE t[i - Len(s)]
  BY ConcatProperties
<1> QED BY <1>1, <1>2, <1>3

\* The bytes of a sequence with one more at its end.
LEMMA JoinOne ==
    ASSUME NEW s \in Seq(Byte), NEW b \in Byte
    PROVE  /\ s \o <<b>> \in Seq(Byte) /\ Len(s \o <<b>>) = Len(s) + 1
           /\ \A i \in 1 .. Len(s) : (s \o <<b>>)[i] = s[i]
           /\ (s \o <<b>>)[Len(s) + 1] = b
<1>1. <<b>> \in Seq(Byte) /\ Len(<<b>>) = 1 /\ <<b>>[1] = b
  OBVIOUS
<1>2. s \o <<b>> \in Seq(Byte) /\ Len(s \o <<b>>) = Len(s) + 1
  BY <1>1, ConcatProperties
<1>3. \A i \in 1 .. Len(s) + 1 :
         (s \o <<b>>)[i] = IF i <= Len(s) THEN s[i] ELSE <<b>>[i - Len(s)]
  BY <1>1, ConcatProperties
<1>4. Len(s) \in Nat
  OBVIOUS
<1> QED BY <1>1, <1>2, <1>3, <1>4

(* Frames with an address, and with an address and a word: the shapes of   *)
(* the longer commands and responses.                                      *)
ShortFrame(a, b, p, z)   == <<a, b>> \o p \o <<z>>
LongFrame(a, b, p, d, z) == <<a, b>> \o p \o d \o <<z>>

IsShortFrame(m, a, b, p, z) ==
    /\ m \in Seq(Byte) /\ Len(m) = 5
    /\ m[1] = a /\ m[2] = b /\ m[3] = p[1] /\ m[4] = p[2] /\ m[5] = z

IsLongFrame(m, a, b, p, d, z) ==
    /\ m \in Seq(Byte) /\ Len(m) = 9
    /\ m[1] = a /\ m[2] = b /\ m[3] = p[1] /\ m[4] = p[2]
    /\ m[5] = d[1] /\ m[6] = d[2] /\ m[7] = d[3] /\ m[8] = d[4] /\ m[9] = z

\* The bytes of a short frame.
LEMMA ShortFrameBytes ==
    ASSUME NEW a \in Byte, NEW b \in Byte, NEW p \in Seq(Byte), Len(p) = 2,
           NEW z \in Byte
    PROVE  IsShortFrame(ShortFrame(a, b, p, z), a, b, p, z)
<1> DEFINE u == <<a, b>> \o p  m == u \o <<z>>
<1>2. /\ u \in Seq(Byte) /\ Len(u) = 4 /\ u[1] = a /\ u[2] = b /\ u[3] = p[1]
      /\ u[4] = p[2]
  <2> DEFINE ab == <<a, b>>
  <2>1. ab \in Seq(Byte) /\ Len(ab) = 2 /\ ab[1] = a /\ ab[2] = b
    OBVIOUS
  <2> HIDE DEF ab
  <2> DEFINE v == ab \o p
  <2>2. /\ v \in Seq(Byte) /\ Len(v) = 4 /\ v[1] = a /\ v[2] = b /\ v[3] = p[1]
        /\ v[4] = p[2]
    BY <2>1, JoinTwoTwo
  <2> QED BY <2>2 DEF ab
<1> HIDE DEF u
<1>3. /\ m \in Seq(Byte) /\ Len(m) = Len(u) + 1 /\ m[Len(u) + 1] = z
      /\ \A i \in 1 .. Len(u) : m[i] = u[i]
  BY <1>2, JoinOne
<1> HIDE DEF m
<1>4. IsShortFrame(m, a, b, p, z)
  BY <1>2, <1>3 DEF IsShortFrame
<1> QED BY <1>4 DEF u, m, ShortFrame

\* The bytes of a long frame.
LEMMA LongFrameBytes ==
    ASSUME NEW a \in Byte, NEW b \in Byte, NEW p \in Seq(Byte), Len(p) = 2,
           NEW d \in Seq(Byte), Len(d) = 4, NEW z \in Byte
    PROVE  IsLongFrame(LongFrame(a, b, p, d, z), a, b, p, d, z)
<1> DEFINE u == <<a, b>> \o p  v == u \o d  m == v \o <<z>>
<1>2. /\ u \in Seq(Byte) /\ Len(u) = 4 /\ u[1] = a /\ u[2] = b /\ u[3] = p[1]
      /\ u[4] = p[2]
  <2> DEFINE ab == <<a, b>>
  <2>1. ab \in Seq(Byte) /\ Len(ab) = 2 /\ ab[1] = a /\ ab[2] = b
    OBVIOUS
  <2> HIDE DEF ab
  <2> DEFINE w == ab \o p
  <2>2. /\ w \in Seq(Byte) /\ Len(w) = 4 /\ w[1] = a /\ w[2] = b /\ w[3] = p[1]
        /\ w[4] = p[2]
    BY <2>1, JoinTwoTwo
  <2> QED BY <2>2 DEF ab
<1> HIDE DEF u
<1>3. /\ v \in Seq(Byte) /\ Len(v) = 8
      /\ v[1] = u[1] /\ v[2] = u[2] /\ v[3] = u[3] /\ v[4] = u[4]
      /\ v[5] = d[1] /\ v[6] = d[2] /\ v[7] = d[3] /\ v[8] = d[4]
  BY <1>2, JoinFourFour
<1> HIDE DEF v
<1>4. /\ m \in Seq(Byte) /\ Len(m) = Len(v) + 1 /\ m[Len(v) + 1] = z
      /\ \A i \in 1 .. Len(v) : m[i] = v[i]
  BY <1>3, JoinOne
<1> HIDE DEF m
<1>5. IsLongFrame(m, a, b, p, d, z)
  BY <1>2, <1>3, <1>4 DEF IsLongFrame
<1> QED BY <1>5 DEF u, v, m, LongFrame

-----------------------------------------------------------------------------
(* Commands and responses, byte by byte (coretest.v:74-87, 754-812, and    *)
(* the parser of coretest.v:888-1038).                                     *)

\* The protocol's constants are bytes.
LEMMA CodesAreBytes ==
    /\ SOC \in Byte /\ EOC \in Byte /\ SOR \in Byte /\ EOR \in Byte
    /\ RESET_CMD \in Byte /\ READ_CMD \in Byte /\ WRITE_CMD \in Byte
    /\ UNKNOWN \in Byte /\ ERROR \in Byte /\ READ_OK \in Byte
    /\ WRITE_OK \in Byte /\ RESET_OK \in Byte /\ Zero \in Byte
    /\ Garbage \in Data /\ Garbage \in Byte /\ Garbage # EOC
    /\ Garbage \notin {RESET_CMD, READ_CMD, WRITE_CMD}
<1>1. Garbage \in Data
  BY DataAssumption DEF Garbage
<1>2. Garbage \notin Codes
  BY <1>1, DataAssumption
<1> QED BY <1>1, <1>2
           DEF Byte, Codes, SOC, EOC, RESET_CMD, READ_CMD, WRITE_CMD, SOR, EOR,
               UNKNOWN, ERROR, READ_OK, WRITE_OK, RESET_OK, Zero

Resets == [op : {"reset", "unknown"}]
Reads  == [op : {"read", "garbled"}, addr : Byte \X Byte]
Writes == [op : {"write"}, addr : Byte \X Byte, data : Word]

\* What a command looks like, by its operation.
LEMMA CommandShape ==
    ASSUME NEW c \in Commands
    PROVE  /\ c.op \in {"reset", "unknown", "read", "garbled", "write"}
           /\ c.op \in {"read", "garbled", "write"} => c.addr \in Byte \X Byte
           /\ c.op = "write" => c.data \in Word
<1>1. c \in Resets \/ c \in Reads \/ c \in Writes
  BY CommandsAssumption DEF Resets, Reads, Writes
<1>2. c \in Resets => c.op \in {"reset", "unknown"}
  BY DEF Resets
<1>3. c \in Reads => c.op \in {"read", "garbled"} /\ c.addr \in Byte \X Byte
  BY DEF Reads
<1>4. c \in Writes => c.op = "write" /\ c.addr \in Byte \X Byte /\ c.data \in Word
  BY DEF Writes
<1> QED BY <1>1, <1>2, <1>3, <1>4

\* The bytes of a command.
LEMMA CommandBytes ==
    ASSUME NEW c \in Commands
    PROVE  LET e == Encode(c) IN
           /\ e \in Seq(Byte) /\ Len(e) \in {3, 5, 9} /\ e[1] = SOC
           /\ c.op = "reset" => Len(e) = 3 /\ e[2] = RESET_CMD /\ e[3] = EOC
           /\ c.op = "unknown" => Len(e) = 3 /\ e[2] = Garbage /\ e[3] = EOC
           /\ c.op \in {"read", "garbled"} =>
                 /\ Len(e) = 5 /\ e[2] = READ_CMD
                 /\ e[3] = c.addr[1] /\ e[4] = c.addr[2]
                 /\ e[5] = (IF c.op = "read" THEN EOC ELSE Garbage)
           /\ c.op = "write" =>
                 /\ Len(e) = 9 /\ e[2] = WRITE_CMD
                 /\ e[3] = c.addr[1] /\ e[4] = c.addr[2]
                 /\ e[5] = c.data[1] /\ e[6] = c.data[2]
                 /\ e[7] = c.data[3] /\ e[8] = c.data[4]
                 /\ e[9] = EOC
<1> DEFINE e == Encode(c)
<1>1. CASE c.op = "reset"
  <2>1. e = <<SOC, RESET_CMD, EOC>>
    BY <1>1 DEF Encode
  <2>2. <<SOC, RESET_CMD, EOC>> \in Seq(Byte)
    BY CodesAreBytes
  <2> HIDE DEF e
  <2>3. Len(e) = 3 /\ e[1] = SOC /\ e[2] = RESET_CMD /\ e[3] = EOC /\ e \in Seq(Byte)
    BY <2>1, <2>2
  <2> QED BY <2>3, <1>1 DEF e
<1>2. CASE c.op = "unknown"
  <2>1. e = <<SOC, Garbage, EOC>>
    BY <1>2 DEF Encode
  <2>2. <<SOC, Garbage, EOC>> \in Seq(Byte)
    BY CodesAreBytes
  <2> HIDE DEF e
  <2>3. Len(e) = 3 /\ e[1] = SOC /\ e[2] = Garbage /\ e[3] = EOC /\ e \in Seq(Byte)
    BY <2>1, <2>2
  <2> QED BY <2>3, <1>2 DEF e
<1>3. CASE c.op = "read"
  <2>1. e = ShortFrame(SOC, READ_CMD, c.addr, EOC)
    BY <1>3 DEF Encode, ShortFrame
  <2>2. c.addr \in Seq(Byte) /\ Len(c.addr) = 2
    BY <1>3, CommandShape, PairIsSeq
  <2> HIDE DEF e
  <2>3. /\ e \in Seq(Byte) /\ Len(e) = 5 /\ e[1] = SOC /\ e[2] = READ_CMD
        /\ e[3] = c.addr[1] /\ e[4] = c.addr[2] /\ e[5] = EOC
    <3>1. SOC \in Byte /\ READ_CMD \in Byte /\ EOC \in Byte
      BY CodesAreBytes
    <3>2. IsShortFrame(ShortFrame(SOC, READ_CMD, c.addr, EOC), SOC, READ_CMD, c.addr, EOC)
      BY <2>2, <3>1, ShortFrameBytes
    <3> QED BY <2>1, <3>2 DEF IsShortFrame
  <2> QED BY <2>3, <1>3 DEF e
<1>4. CASE c.op = "garbled"
  <2>1. e = ShortFrame(SOC, READ_CMD, c.addr, Garbage)
    BY <1>4 DEF Encode, ShortFrame
  <2>2. c.addr \in Seq(Byte) /\ Len(c.addr) = 2
    BY <1>4, CommandShape, PairIsSeq
  <2> HIDE DEF e
  <2>3. /\ e \in Seq(Byte) /\ Len(e) = 5 /\ e[1] = SOC /\ e[2] = READ_CMD
        /\ e[3] = c.addr[1] /\ e[4] = c.addr[2] /\ e[5] = Garbage
    <3>1. SOC \in Byte /\ READ_CMD \in Byte /\ Garbage \in Byte
      BY CodesAreBytes
    <3>2. IsShortFrame(ShortFrame(SOC, READ_CMD, c.addr, Garbage),
                       SOC, READ_CMD, c.addr, Garbage)
      BY <2>2, <3>1, ShortFrameBytes
    <3> QED BY <2>1, <3>2 DEF IsShortFrame
  <2> QED BY <2>3, <1>4 DEF e
<1>5. CASE c.op = "write"
  <2>1. e = LongFrame(SOC, WRITE_CMD, c.addr, c.data, EOC)
    BY <1>5 DEF Encode, LongFrame
  <2>2. /\ c.addr \in Seq(Byte) /\ Len(c.addr) = 2
        /\ c.data \in Seq(Byte) /\ Len(c.data) = 4
    BY <1>5, CommandShape, PairIsSeq, WordIsSeq
  <2> HIDE DEF e
  <2>3. /\ e \in Seq(Byte) /\ Len(e) = 9 /\ e[1] = SOC /\ e[2] = WRITE_CMD
        /\ e[3] = c.addr[1] /\ e[4] = c.addr[2]
        /\ e[5] = c.data[1] /\ e[6] = c.data[2]
        /\ e[7] = c.data[3] /\ e[8] = c.data[4] /\ e[9] = EOC
    <3>1. SOC \in Byte /\ WRITE_CMD \in Byte /\ EOC \in Byte
      BY CodesAreBytes
    <3>2. IsLongFrame(LongFrame(SOC, WRITE_CMD, c.addr, c.data, EOC),
                      SOC, WRITE_CMD, c.addr, c.data, EOC)
      BY <2>2, <3>1, LongFrameBytes
    <3> QED BY <2>1, <3>2 DEF IsLongFrame
  <2> QED BY <2>3, <1>5 DEF e
<1> QED BY <1>1, <1>2, <1>3, <1>4, <1>5, CommandShape

(* Message, with the registers as parameters.                              *)
MessageOf(type, addr, data, cmd) ==
    CASE type = READ_OK  -> LongFrame(SOR, READ_OK, addr, data, EOR)
      [] type = WRITE_OK -> ShortFrame(SOR, WRITE_OK, addr, EOR)
      [] type = RESET_OK -> <<SOR, RESET_OK, EOR>>
      [] type = ERROR    -> <<SOR, ERROR, cmd, EOR>>
      [] OTHER           -> <<SOR, UNKNOWN, cmd, EOR>>

ResponseTypes == {READ_OK, WRITE_OK, RESET_OK, ERROR, UNKNOWN}

\* What a response says.
Meaning(type, addr, data) ==
    CASE type = READ_OK  -> [type |-> "read_ok", addr |-> addr, data |-> data]
      [] type = WRITE_OK -> [type |-> "write_ok", addr |-> addr]
      [] type = RESET_OK -> [type |-> "reset_ok"]
      [] type = ERROR    -> [type |-> "error"]
      [] OTHER           -> [type |-> "unknown"]

(* The address of a response is in its third and fourth byte, whatever its *)
(* length.                                                                 *)
LEMMA PairFromSeq ==
    ASSUME NEW p \in Byte \X Byte, NEW m \in Seq(Byte), Len(m) = 5 \/ Len(m) = 9,
           m[3] = p[1], m[4] = p[2]
    PROVE  SubSeq(m, 3, 4) = p
<1> DEFINE s == SubSeq(m, 3, 4)
<1>1. p \in Seq(Byte) /\ Len(p) = 2
  BY PairIsSeq
<1>2. s \in Seq(Byte) /\ Len(s) = 2 /\ s[1] = m[3] /\ s[2] = m[4]
  <2>1. CASE Len(m) = 5
    BY <2>1
  <2>2. CASE Len(m) = 9
    BY <2>2
  <2> QED BY <2>1, <2>2
<1> HIDE DEF s
<1>3. \A i \in 1 .. Len(s) : s[i] = p[i]
  BY <1>2
<1>4. s = p
  BY <1>1, <1>2, <1>3, SeqEqual
<1> QED BY <1>4 DEF s

\* Bytes five to eight of a sequence of nine are bytes.
LEMMA NineBytes ==
    ASSUME NEW m \in Seq(Byte), Len(m) = 9
    PROVE  \A i \in 5 .. 8 : m[i] \in Byte
<1>1. m \in [1 .. Len(m) -> Byte]
  BY LenProperties
<1>2. m \in [1 .. 9 -> Byte]
  BY <1>1
<1> QED BY <1>2

\* The word of a response is in its bytes five to eight.
LEMMA WordFromSeq ==
    ASSUME NEW d \in Word, NEW m \in Seq(Byte), Len(m) = 9,
           m[5] = d[1], m[6] = d[2], m[7] = d[3], m[8] = d[4]
    PROVE  SubSeq(m, 5, 8) = d
<1>0. \A i \in 5 .. 8 : m[i] \in Byte
  BY NineBytes
<1> DEFINE s == SubSeq(m, 5, 8)
<1>1. d \in Seq(Byte) /\ Len(d) = 4
  BY WordIsSeq
<1>2. /\ s \in Seq(Byte) /\ Len(s) = 4 /\ s[1] = m[5] /\ s[2] = m[6]
      /\ s[3] = m[7] /\ s[4] = m[8]
  <2>2. /\ s \in Seq(Byte)
        /\ Len(s) = IF 5 <= 8 THEN 8 - 5 + 1 ELSE 0
        /\ \A i \in 1 .. 8 - 5 + 1 : s[i] = m[5 + i - 1]
    BY <1>0, SubSeqProperties
  <2> HIDE DEF s
  <2> QED BY <2>2
<1> HIDE DEF s
<1>3. \A i \in 1 .. Len(s) : s[i] = d[i]
  BY <1>2
<1>4. s = d
  BY <1>1, <1>2, <1>3, SeqEqual
<1> QED BY <1>4 DEF s

\* A response is as long as its second byte says, and says what it means.
LEMMA ResponseBytes ==
    ASSUME NEW type \in ResponseTypes, NEW addr \in Byte \X Byte, NEW data \in Word,
           NEW cmd \in Byte
    PROVE  LET m == MessageOf(type, addr, data, cmd) IN
           /\ m \in Seq(Byte) /\ Len(m) \in {3, 4, 5, 9}
           /\ m[2] = type /\ Len(m) = ResponseLength(type)
           /\ Decode(m) = Meaning(type, addr, data)
<1> DEFINE m == MessageOf(type, addr, data, cmd)
<1>0. addr \in Seq(Byte) /\ Len(addr) = 2 /\ data \in Seq(Byte) /\ Len(data) = 4
  BY PairIsSeq, WordIsSeq
<1>1. CASE type = READ_OK
  <2>1. m = LongFrame(SOR, READ_OK, addr, data, EOR)
    BY <1>1 DEF MessageOf, READ_OK, WRITE_OK, RESET_OK, ERROR, UNKNOWN
  <2> HIDE DEF m
  <2>2. /\ m \in Seq(Byte) /\ Len(m) = 9 /\ m[2] = READ_OK
        /\ m[3] = addr[1] /\ m[4] = addr[2]
        /\ m[5] = data[1] /\ m[6] = data[2] /\ m[7] = data[3] /\ m[8] = data[4]
    <3>1. SOR \in Byte /\ READ_OK \in Byte /\ EOR \in Byte
      BY CodesAreBytes
    <3>2. IsLongFrame(LongFrame(SOR, READ_OK, addr, data, EOR),
                      SOR, READ_OK, addr, data, EOR)
      BY <1>0, <3>1, LongFrameBytes
    <3> QED BY <2>1, <3>2 DEF IsLongFrame
  <2>3. SubSeq(m, 3, 4) = addr /\ SubSeq(m, 5, 8) = data
    BY <2>2, PairFromSeq, WordFromSeq
  <2>4. ResponseLength(type) = 9 /\ Decode(m) = Meaning(type, addr, data)
    BY <1>1, <2>2, <2>3
       DEF ResponseLength, Decode, Meaning, READ_OK, WRITE_OK, RESET_OK, ERROR,
           UNKNOWN
  <2> QED BY <1>1, <2>2, <2>4 DEF m
<1>2. CASE type = WRITE_OK
  <2>1. m = ShortFrame(SOR, WRITE_OK, addr, EOR)
    BY <1>2 DEF MessageOf, READ_OK, WRITE_OK, RESET_OK, ERROR, UNKNOWN
  <2> HIDE DEF m
  <2>2. /\ m \in Seq(Byte) /\ Len(m) = 5 /\ m[2] = WRITE_OK
        /\ m[3] = addr[1] /\ m[4] = addr[2]
    <3>1. SOR \in Byte /\ WRITE_OK \in Byte /\ EOR \in Byte
      BY CodesAreBytes
    <3>2. IsShortFrame(ShortFrame(SOR, WRITE_OK, addr, EOR), SOR, WRITE_OK, addr, EOR)
      BY <1>0, <3>1, ShortFrameBytes
    <3> QED BY <2>1, <3>2 DEF IsShortFrame
  <2>3. SubSeq(m, 3, 4) = addr
    BY <2>2, PairFromSeq
  <2>4. ResponseLength(type) = 5 /\ Decode(m) = Meaning(type, addr, data)
    BY <1>2, <2>2, <2>3
       DEF ResponseLength, Decode, Meaning, READ_OK, WRITE_OK, RESET_OK, ERROR,
           UNKNOWN
  <2> QED BY <1>2, <2>2, <2>4 DEF m
<1>3. CASE type = RESET_OK
  <2>1. m = <<SOR, RESET_OK, EOR>>
    BY <1>3 DEF MessageOf, READ_OK, WRITE_OK, RESET_OK, ERROR, UNKNOWN
  <2>2. <<SOR, RESET_OK, EOR>> \in Seq(Byte)
    BY CodesAreBytes
  <2> HIDE DEF m
  <2>3. m \in Seq(Byte) /\ Len(m) = 3 /\ m[2] = RESET_OK
    BY <2>1, <2>2
  <2>4. ResponseLength(type) = 3 /\ Decode(m) = Meaning(type, addr, data)
    BY <1>3, <2>3
       DEF ResponseLength, Decode, Meaning, READ_OK, WRITE_OK, RESET_OK, ERROR,
           UNKNOWN
  <2> QED BY <1>3, <2>3, <2>4 DEF m
<1>4. CASE type = ERROR
  <2>1. m = <<SOR, ERROR, cmd, EOR>>
    BY <1>4 DEF MessageOf, READ_OK, WRITE_OK, RESET_OK, ERROR, UNKNOWN
  <2>2. /\ <<SOR, ERROR, cmd, EOR>> \in [1 .. 4 -> Byte]
        /\ Len(<<SOR, ERROR, cmd, EOR>>) = 4
    BY CodesAreBytes
  <2>3. <<SOR, ERROR, cmd, EOR>> \in Seq(Byte)
    BY <2>2
  <2> HIDE DEF m
  <2>4. m \in Seq(Byte) /\ Len(m) = 4 /\ m[2] = ERROR
    BY <2>1, <2>3
  <2>5. ResponseLength(type) = 4 /\ Decode(m) = Meaning(type, addr, data)
    BY <1>4, <2>4
       DEF ResponseLength, Decode, Meaning, READ_OK, WRITE_OK, RESET_OK, ERROR,
           UNKNOWN
  <2> QED BY <1>4, <2>4, <2>5 DEF m
<1>5. CASE type = UNKNOWN
  <2>1. m = <<SOR, UNKNOWN, cmd, EOR>>
    BY <1>5 DEF MessageOf, READ_OK, WRITE_OK, RESET_OK, ERROR, UNKNOWN
  <2>2. /\ <<SOR, UNKNOWN, cmd, EOR>> \in [1 .. 4 -> Byte]
        /\ Len(<<SOR, UNKNOWN, cmd, EOR>>) = 4
    BY CodesAreBytes
  <2>3. <<SOR, UNKNOWN, cmd, EOR>> \in Seq(Byte)
    BY <2>2
  <2> HIDE DEF m
  <2>4. m \in Seq(Byte) /\ Len(m) = 4 /\ m[2] = UNKNOWN
    BY <2>1, <2>3
  <2>5. ResponseLength(type) = 4 /\ Decode(m) = Meaning(type, addr, data)
    BY <1>5, <2>4
       DEF ResponseLength, Decode, Meaning, READ_OK, WRITE_OK, RESET_OK, ERROR,
           UNKNOWN
  <2> QED BY <1>5, <2>4, <2>5 DEF m
<1> QED BY <1>1, <1>2, <1>3, <1>4, <1>5 DEF ResponseTypes

\* The message in the registers, now and after a step.
LEMMA MessageOfRegisters ==
    /\ Message(response_type) =
          MessageOf(response_type, core_addr_reg, core_read_data_reg, cmd_reg)
    /\ Message(response_type)' =
          MessageOf(response_type', core_addr_reg', core_read_data_reg', cmd_reg')
    /\ response_type \in ResponseTypes
    /\ response_type' \in ResponseTypes
BY DEF Message, MessageOf, LongFrame, ShortFrame, response_type, ResponseTypes

-----------------------------------------------------------------------------
TestStates == TakingStates \cup EndStates \cup
    {"TEST_PARSE_CMD", "TEST_RST_START", "TEST_RST_WAIT",
     "TEST_RD_START", "TEST_RD_WAIT", "TEST_WR_START", "TEST_WR_WAIT",
     "TEST_SEND_RESPONSE"}

(* The types, part by part; the index of tx_buffer stays inside the        *)
(* message, and is back at its start when tx_engine rests.                 *)
RxTypes  == /\ rx_engine_reg \in {"RX_IDLE", "RX_ACK", "RX_NSYN"}
            /\ rx_ack_reg \in BOOLEAN
            /\ rx_buffer \in [RxSlots -> Byte]
PointerTypes == /\ rx_buffer_rd_ptr_reg \in RxSlots
                /\ rx_buffer_wr_ptr_reg \in RxSlots
                /\ rx_buffer_ctr_reg \in RxSlots
                /\ unread \in Int
TxTypes  == /\ tx_engine_reg \in {"TX_IDLE", "TX_SYN", "TX_NOACK", "TX_NEXT",
                                  "TX_SENT", "TX_DONE"}
            /\ tx_syn_reg \in BOOLEAN /\ response_sent_reg \in BOOLEAN
            /\ tx_buffer_ptr_reg \in TxSlots
            /\ tx_buffer_ptr_reg <= tx_msg_len_reg
            /\ tx_engine_reg = "TX_IDLE" => tx_buffer_ptr_reg = 0
ParserTypes == /\ test_engine_reg \in TestStates
               /\ send_response_reg \in BOOLEAN
               /\ cmd_reg \in Byte
               /\ core_addr_reg \in Byte \X Byte
               /\ core_wr_data_reg \in Word
BusTypes == /\ core_reset_n_reg \in BOOLEAN
            /\ core_cs_reg \in BOOLEAN /\ core_we_reg \in BOOLEAN
            /\ core_read_data_reg \in Word
            /\ core_error_reg \in BOOLEAN
MessageTypes == /\ tx_buffer \in [TxSlots -> Byte]
                /\ tx_msg_len_reg \in {2, 3, 4, 8, 0}
CoreTypes == mem \in [Addresses -> Word]
LinkTypes == /\ rx_syn_reg \in BOOLEAN /\ tx_ack_reg \in BOOLEAN
             /\ rx_syn \in BOOLEAN /\ tx_ack \in BOOLEAN
             /\ rx_data \in Byte
             /\ to_send \in Seq(Byte)

TypeInv == /\ RxTypes /\ PointerTypes /\ TxTypes /\ ParserTypes /\ BusTypes
           /\ MessageTypes /\ CoreTypes /\ LinkTypes

\* The registers come up with values of their types.
LEMMA InitTypes == Init => TypeInv
<1> SUFFICES ASSUME Init PROVE TypeInv
  OBVIOUS
<1>1. Zero \in Byte /\ ZeroWord \in Word /\ <<Zero, Zero>> \in Byte \X Byte
  BY CodesAreBytes DEF ZeroWord, Word
<1>2. 0 \in RxSlots /\ 0 \in TxSlots
  BY BufferMaxAssumption DEF RxSlots, TxSlots
<1>3. RxTypes
  BY <1>1 DEF Init, CoretestInit, RxTypes
<1>8. PointerTypes /\ TxTypes
  BY <1>2 DEF Init, CoretestInit, PointerTypes, TxTypes
<1>4. ParserTypes
  BY <1>1 DEF Init, CoretestInit, ParserTypes, TestStates, TakingStates
<1>5. BusTypes
  BY <1>1 DEF Init, CoretestInit, BusTypes
<1>6. MessageTypes /\ CoreTypes
  BY <1>1 DEF Init, CoretestInit, MessageTypes, CoreTypes
<1>7. LinkTypes
  BY <1>1, EmptySeq DEF Init, CoretestInit, LinkTypes
<1> QED BY <1>3, <1>4, <1>5, <1>6, <1>7, <1>8 DEF TypeInv

(* What the four parts of test_engine do to its state.                     *)
LEMMA EngineStates ==
    /\ Parse =>
          /\ test_engine_reg \in TakingStates \cup {"TEST_PARSE_CMD"}
          /\ test_engine_reg' \in TakingStates \cup
                {"TEST_PARSE_CMD", "TEST_CMD_UNKNOWN", "TEST_CMD_ERROR",
                 "TEST_RST_START", "TEST_RD_START", "TEST_WR_START"}
          /\ test_engine_reg' = "TEST_PARSE_CMD" => GetCmd
          /\ test_engine_reg = "TEST_PARSE_CMD" => ParseCmd
    /\ Access(core_read_data, core_error) =>
          \/ test_engine_reg = "TEST_RST_START" /\ test_engine_reg' = "TEST_RST_WAIT"
          \/ test_engine_reg = "TEST_RST_WAIT"  /\ test_engine_reg' = "TEST_RST_END"
          \/ test_engine_reg = "TEST_RD_START"  /\ test_engine_reg' = "TEST_RD_WAIT"
          \/ test_engine_reg = "TEST_RD_WAIT"   /\ test_engine_reg' = "TEST_RD_END"
          \/ test_engine_reg = "TEST_WR_START"  /\ test_engine_reg' = "TEST_WR_WAIT"
          \/ test_engine_reg = "TEST_WR_WAIT"   /\ test_engine_reg' = "TEST_WR_END"
    /\ BuildResponse => /\ test_engine_reg \in EndStates
                        /\ test_engine_reg' = "TEST_SEND_RESPONSE"
    /\ SendResponse => /\ test_engine_reg = "TEST_SEND_RESPONSE"
                       /\ test_engine_reg' = IF response_sent_reg
                                             THEN "TEST_IDLE" ELSE "TEST_SEND_RESPONSE"
<1>1. ASSUME Parse
      PROVE  /\ test_engine_reg \in TakingStates \cup {"TEST_PARSE_CMD"}
             /\ test_engine_reg' \in TakingStates \cup
                   {"TEST_PARSE_CMD", "TEST_CMD_UNKNOWN", "TEST_CMD_ERROR",
                    "TEST_RST_START", "TEST_RD_START", "TEST_WR_START"}
             /\ test_engine_reg' = "TEST_PARSE_CMD" => GetCmd
             /\ test_engine_reg = "TEST_PARSE_CMD" => ParseCmd
  BY <1>1 DEF Parse, TestIdle, GetCmd, ParseCmd, GetAddr, GetData, DataStates,
              GetEoc, TestStarves, TakingStates
<1>2. ASSUME Access(core_read_data, core_error)
      PROVE
          \/ test_engine_reg = "TEST_RST_START" /\ test_engine_reg' = "TEST_RST_WAIT"
          \/ test_engine_reg = "TEST_RST_WAIT"  /\ test_engine_reg' = "TEST_RST_END"
          \/ test_engine_reg = "TEST_RD_START"  /\ test_engine_reg' = "TEST_RD_WAIT"
          \/ test_engine_reg = "TEST_RD_WAIT"   /\ test_engine_reg' = "TEST_RD_END"
          \/ test_engine_reg = "TEST_WR_START"  /\ test_engine_reg' = "TEST_WR_WAIT"
          \/ test_engine_reg = "TEST_WR_WAIT"   /\ test_engine_reg' = "TEST_WR_END"
  BY <1>2 DEF Access, CoreReset, AccessStart, AccessWait
<1> QED BY <1>1, <1>2 DEF BuildResponse, SendResponse

(* What tx_engine does in each of its states, to its state and to the      *)
(* index of the byte on the line.                                          *)
LEMMA TxMoves ==
    ASSUME TxEngine
    PROVE  /\ tx_engine_reg = "TX_IDLE" =>
                 /\ tx_engine_reg' = IF send_response_reg THEN "TX_SYN" ELSE "TX_IDLE"
                 /\ tx_buffer_ptr_reg' = tx_buffer_ptr_reg
           /\ tx_engine_reg = "TX_SYN" =>
                 /\ tx_engine_reg' = IF tx_ack_reg THEN "TX_NOACK" ELSE "TX_SYN"
                 /\ tx_buffer_ptr_reg' = tx_buffer_ptr_reg
           /\ tx_engine_reg = "TX_NOACK" =>
                 /\ tx_engine_reg' = IF tx_ack_reg THEN "TX_NOACK" ELSE "TX_NEXT"
                 /\ tx_buffer_ptr_reg' = tx_buffer_ptr_reg
           /\ tx_engine_reg = "TX_NEXT" =>
                 IF tx_buffer_ptr_reg = tx_msg_len_reg
                 THEN /\ tx_engine_reg' = "TX_SENT"
                      /\ tx_buffer_ptr_reg' = tx_buffer_ptr_reg
                 ELSE /\ tx_engine_reg' = "TX_SYN"
                      /\ tx_buffer_ptr_reg' = (tx_buffer_ptr_reg + 1) % 16
           /\ tx_engine_reg = "TX_SENT" =>
                 /\ tx_engine_reg' = "TX_DONE"
                 /\ tx_buffer_ptr_reg' = tx_buffer_ptr_reg
           /\ tx_engine_reg = "TX_DONE" => tx_engine_reg' = "TX_IDLE"
BY DEF TxEngine, TxStart, TxAcked, TxReleased, TxNext, TxSent, TxDone, TxWait, txRegs

\* What the parser reads from the receive buffer is a byte.
LEMMA RxByteType == TypeInv => rx_byte \in Byte
BY DEF TypeInv, RxTypes, PointerTypes, rx_byte

\* rx_engine and its pointers keep their types.
LEMMA RxTypesKept ==
    ASSUME TypeInv, BufferInv, RxEngine(rx_data), RxBufferPointers, History
    PROVE  RxTypes' /\ PointerTypes'
<1>1. RxTypes'
  <2> USE DEF TypeInv, RxTypes, PointerTypes, LinkTypes
  <2>1. CASE RxStore(rx_data)
    BY <2>1 DEF RxStore
  <2>2. CASE RxAck
    BY <2>2 DEF RxAck
  <2>3. CASE RxRelease
    BY <2>3 DEF RxRelease
  <2>4. CASE RxWait
    BY <2>4 DEF RxWait, rxRegs
  <2> QED BY <2>1, <2>2, <2>3, <2>4 DEF RxEngine
<1>2. \A n \in Int : Wrap(n) \in RxSlots
  BY BufferMaxAssumption DEF Wrap, RxSlots
<1>3. PointerTypes'
  <2>1. rx_buffer_rd_ptr_reg' \in RxSlots /\ rx_buffer_wr_ptr_reg' \in RxSlots
    BY <1>2 DEF TypeInv, PointerTypes, RxBufferPointers, RxSlots
  <2>2. rx_buffer_ctr_reg' \in RxSlots
    <3>1. rx_buffer_ctr_reg' \in {Wrap(rx_buffer_ctr_reg + 1),
                                  Wrap(rx_buffer_ctr_reg - 1), rx_buffer_ctr_reg}
      BY DEF RxBufferPointers
    <3> QED BY <1>2, <3>1 DEF TypeInv, PointerTypes, RxSlots
  <2>3. unread' \in Int
    BY DEF TypeInv, PointerTypes, History
  <2> QED BY <2>1, <2>2, <2>3 DEF PointerTypes
<1> QED BY <1>1, <1>3

(* test_engine does nothing but wait while tx_engine works: the message    *)
(* and its length stay.                                                    *)
LEMMA MessageFixed ==
    ASSUME EngineInv, TestEngine(core_read_data, core_error), tx_engine_reg # "TX_IDLE"
    PROVE  /\ tx_msg_len_reg' = tx_msg_len_reg /\ tx_buffer' = tx_buffer
           /\ test_engine_reg = "TEST_SEND_RESPONSE"
           /\ SendResponse
<1>1. test_engine_reg = "TEST_SEND_RESPONSE"
  BY DEF EngineInv
<1>2. ~Parse
  BY <1>1, EngineStates DEF TakingStates
<1>3. ~Access(core_read_data, core_error) /\ ~BuildResponse
  BY <1>1
     DEF Access, CoreReset, AccessStart, AccessWait, BuildResponse, EndStates
<1>4. SendResponse
  BY <1>2, <1>3 DEF TestEngine, Respond
<1> QED BY <1>1, <1>4 DEF SendResponse, messageRegs

(* tx_engine keeps its types: the index of the byte on the line stays      *)
(* inside the message, whose length does not change while it is sent.      *)
LEMMA TxTypesKept ==
    ASSUME TypeInv, EngineInv, TxEngine, TestEngine(core_read_data, core_error),
           tx_msg_len_reg' \in {2, 3, 4, 8, 0}
    PROVE  TxTypes'
<1> USE DEF TypeInv, TxTypes, MessageTypes, TxSlots
<1>1. tx_engine_reg # "TX_IDLE" => tx_msg_len_reg' = tx_msg_len_reg
  BY MessageFixed
<1>2. CASE TxStart
  BY <1>2 DEF TxStart
<1>3. CASE TxAcked
  BY <1>1, <1>3 DEF TxAcked
<1>4. CASE TxReleased
  BY <1>1, <1>4 DEF TxReleased
<1>5. CASE TxNext
  <2>1. tx_msg_len_reg' = tx_msg_len_reg /\ tx_engine_reg # "TX_IDLE"
    BY <1>1, <1>5 DEF TxNext
  <2>2. CASE tx_buffer_ptr_reg = tx_msg_len_reg
    BY <1>5, <2>1, <2>2 DEF TxNext
  <2>3. CASE tx_buffer_ptr_reg # tx_msg_len_reg
    <3>1. /\ tx_buffer_ptr_reg' = tx_buffer_ptr_reg + 1
          /\ tx_buffer_ptr_reg < tx_msg_len_reg
      BY <1>5, <2>3 DEF TxNext
    <3>2. /\ tx_syn_reg' = TRUE /\ tx_engine_reg' = "TX_SYN"
          /\ response_sent_reg' = response_sent_reg
      BY <1>5, <2>3 DEF TxNext
    <3> QED BY <2>1, <3>1, <3>2
  <2> QED BY <2>2, <2>3
<1>6. CASE TxSent
  BY <1>1, <1>6 DEF TxSent
<1>7. CASE TxDone
  <2>1. 0 <= tx_msg_len_reg' /\ 0 \in TxSlots
    OBVIOUS
  <2>2. /\ tx_engine_reg' = "TX_IDLE" /\ tx_buffer_ptr_reg' = 0
        /\ response_sent_reg' = FALSE /\ tx_syn_reg' = tx_syn_reg
    BY <1>7 DEF TxDone
  <2> QED BY <2>1, <2>2
<1>8. CASE TxWait
  <2>1. UNCHANGED <<tx_engine_reg, tx_syn_reg, tx_buffer_ptr_reg, response_sent_reg>>
    BY <1>8 DEF TxWait, txRegs
  <2> QED BY <1>1, <2>1
<1> QED BY <1>2, <1>3, <1>4, <1>5, <1>6, <1>7, <1>8 DEF TxEngine

\* The parser keeps its types.
LEMMA ParserTypesKept ==
    ASSUME TypeInv, EngineInv, TestEngine(core_read_data, core_error)
    PROVE  ParserTypes'
<1>0. ParserTypes /\ rx_byte \in Byte
  BY RxByteType DEF TypeInv
<1>1. CASE Parse
  <2>1. send_response_reg' = send_response_reg
    BY <1>1 DEF Parse, Parsing
  <2>2. cmd_reg' \in {cmd_reg, rx_byte}
    BY <1>1
       DEF Parse, TestIdle, GetCmd, ParseCmd, GetAddr, GetData, GetEoc,
           TestStarves, commandRegs
  <2>3. \/ core_addr_reg' = core_addr_reg
        \/ \E i \in {1, 2} : core_addr_reg' = [core_addr_reg EXCEPT ![i] = rx_byte]
    BY <1>1
       DEF Parse, TestIdle, GetCmd, ParseCmd, GetAddr, GetData, GetEoc,
           TestStarves, commandRegs
  <2>4. \/ core_wr_data_reg' = core_wr_data_reg
        \/ \E i \in 1 .. 4 : core_wr_data_reg' = [core_wr_data_reg EXCEPT ![i] = rx_byte]
    BY <1>1
       DEF Parse, TestIdle, GetCmd, ParseCmd, GetAddr, GetData, GetEoc,
           TestStarves, commandRegs
  <2>5. test_engine_reg' \in TestStates
    <3> USE DEF TestStates, TakingStates, EndStates
    <3>1. CASE TestIdle \/ GetCmd \/ TestStarves
      BY <3>1, <1>0 DEF TestIdle, GetCmd, TestStarves, ParserTypes
    <3>2. CASE ParseCmd
      BY <3>2 DEF ParseCmd
    <3>3. CASE GetAddr
      BY <3>3 DEF GetAddr
    <3>4. CASE GetData
      BY <3>4 DEF GetData, DataStates
    <3>5. CASE GetEoc
      BY <3>5 DEF GetEoc
    <3> QED BY <1>1, <3>1, <3>2, <3>3, <3>4, <3>5 DEF Parse
  <2>6. core_addr_reg' \in Byte \X Byte
    BY <1>0, <2>3 DEF ParserTypes
  <2>7. core_wr_data_reg' \in Word
    BY <1>0, <2>4 DEF ParserTypes, Word
  <2> QED BY <1>0, <2>1, <2>2, <2>5, <2>6, <2>7 DEF ParserTypes
<1>2. CASE Access(core_read_data, core_error)
  <2>1. UNCHANGED <<cmd_reg, core_addr_reg, core_wr_data_reg, send_response_reg>>
    BY <1>2 DEF Access, commandRegs
  <2>2. test_engine_reg' \in TestStates
    BY <1>2
       DEF Access, CoreReset, AccessStart, AccessWait, TestStates, EndStates
  <2> QED BY <1>0, <2>1, <2>2 DEF ParserTypes
<1>3. CASE Respond
  <2>1. UNCHANGED <<cmd_reg, core_addr_reg, core_wr_data_reg>>
    BY <1>3 DEF Respond, commandRegs
  <2>2. test_engine_reg' \in TestStates
    BY <1>3 DEF Respond, BuildResponse, SendResponse, TestStates, TakingStates
  <2>3. send_response_reg' \in BOOLEAN
    BY <1>0, <1>3 DEF Respond, BuildResponse, SendResponse, ParserTypes
  <2> QED BY <1>0, <2>1, <2>2, <2>3 DEF ParserTypes
<1> QED BY <1>1, <1>2, <1>3 DEF TestEngine

\* What the core drives is a word and a Boolean.
LEMMA CoreOutputs == TypeInv => core_read_data \in Word /\ core_error \in BOOLEAN
<1>1. ZeroWord \in Word
  BY CodesAreBytes DEF ZeroWord, Word
<1> QED BY <1>1 DEF TypeInv, CoreTypes, BusTypes, core_read_data, core_error

\* The registers towards the core keep their types.
LEMMA BusTypesKept ==
    ASSUME TypeInv, TestEngine(core_read_data, core_error)
    PROVE  BusTypes'
<1>0. BusTypes /\ core_read_data \in Word /\ core_error \in BOOLEAN
  BY CoreOutputs DEF TypeInv
<1>1. CASE Parse
  BY <1>0, <1>1 DEF Parse, Parsing, busRegs, sampleRegs, BusTypes
<1>2. CASE CoreReset
  BY <1>0, <1>2 DEF CoreReset, sampleRegs, BusTypes
<1>3. CASE AccessStart
  BY <1>0, <1>3 DEF AccessStart, sampleRegs, BusTypes
<1>4. CASE AccessWait(core_read_data, core_error)
  BY <1>0, <1>4 DEF AccessWait, busRegs, BusTypes
<1>5. CASE BuildResponse /\ UNCHANGED sampleRegs
  BY <1>0, <1>5 DEF BuildResponse, sampleRegs, BusTypes
<1>6. CASE SendResponse /\ UNCHANGED sampleRegs
  BY <1>0, <1>6 DEF SendResponse, busRegs, sampleRegs, BusTypes
<1> QED BY <1>1, <1>2, <1>3, <1>4, <1>5, <1>6 DEF TestEngine, Access, Respond

\* A sequence of bytes fills the buffer with bytes.
LEMMA FilledBuffer ==
    ASSUME NEW m \in Seq(Byte)
    PROVE  [s \in TxSlots |-> IF s < Len(m) THEN m[s + 1] ELSE Zero] \in [TxSlots -> Byte]
<1>1. Zero \in Byte
  BY CodesAreBytes
<1>2. ASSUME NEW s \in TxSlots, s < Len(m) PROVE m[s + 1] \in Byte
  <2>1. s + 1 \in 1 .. Len(m)
    BY <1>2, LenProperties DEF TxSlots
  <2> QED BY <2>1, ElementOfSeq
<1> QED BY <1>1, <1>2

(* The message in tx_buffer keeps its type: each of the five responses     *)
(* fits and its length is one of four.                                     *)
LEMMA MessageTypesKept ==
    ASSUME TypeInv, TestEngine(core_read_data, core_error)
    PROVE  MessageTypes'
<1>1. CASE BuildResponse
  <2> DEFINE m == Message(response_type)
  <2>1. m \in Seq(Byte) /\ Len(m) \in {3, 4, 5, 9}
    BY MessageOfRegisters, ResponseBytes DEF TypeInv, ParserTypes, BusTypes
  <2>2. /\ tx_buffer' = [s \in TxSlots |-> IF s < Len(m) THEN m[s + 1] ELSE Zero]
        /\ tx_msg_len_reg' = Len(m) - 1
    BY <1>1 DEF BuildResponse, UpdateTxBuffer
  <2> HIDE DEF m
  <2>3. tx_buffer' \in [TxSlots -> Byte]
    BY <2>1, <2>2, FilledBuffer
  <2>4. tx_msg_len_reg' \in {2, 3, 4, 8, 0}
    BY <2>1, <2>2
  <2> QED BY <2>3, <2>4 DEF MessageTypes
<1>2. CASE Parse \/ Access(core_read_data, core_error) \/ SendResponse
  BY <1>2
     DEF Parse, Parsing, Access, SendResponse, messageRegs, TypeInv,
         MessageTypes
<1> QED BY <1>1, <1>2 DEF TestEngine, Respond

\* What a core stores stays a word.
LEMMA CoreTypesKept == TypeInv /\ CoreClock => CoreTypes'
<1>1. ZeroWord \in Word
  BY CodesAreBytes DEF ZeroWord, Word
<1> QED BY <1>1 DEF TypeInv, CoreTypes, ParserTypes, CoreClock

(* The host and its line keep their types: all it sends are bytes of       *)
(* commands.                                                               *)
LEMMA LinkTypesKept ==
    ASSUME TypeInv, HostReceives, HostSends, rx_syn_reg' = rx_syn, tx_ack_reg' = tx_ack
    PROVE  LinkTypes'
<1>0. LinkTypes
  BY DEF TypeInv
<1>1. tx_ack' \in BOOLEAN
  BY <1>0 DEF HostReceives, HostTakes, HostReleases, LinkTypes
<1>2. rx_syn' \in BOOLEAN /\ rx_data' \in Byte /\ to_send' \in Seq(Byte)
  <2>1. CASE HostIssues
    <3>1. PICK c \in Commands : to_send' = Encode(c)
      BY <2>1 DEF HostIssues
    <3>2. Encode(c) \in Seq(Byte)
      BY CommandBytes
    <3> QED BY <1>0, <2>1, <3>1, <3>2 DEF HostIssues, LinkTypes
  <2>2. CASE HostRaises
    <3>1. to_send \in Seq(Byte) /\ to_send # <<>>
      BY <1>0, <2>2 DEF HostRaises, LinkTypes
    <3>2. Head(to_send) \in Byte /\ Tail(to_send) \in Seq(Byte)
      BY <3>1, HeadTailProperties
    <3> QED BY <2>2, <3>2 DEF HostRaises
  <2>3. CASE HostLowers \/ HostWaits
    BY <1>0, <2>3 DEF HostLowers, HostWaits, LinkTypes
  <2> QED BY <2>1, <2>2, <2>3 DEF HostSends
<1> QED BY <1>0, <1>1, <1>2 DEF LinkTypes

(* A step of the system is a step of every engine, of the host and of the  *)
(* core.                                                                   *)
LEMMA StepParts ==
    Next => /\ RxEngine(rx_data) /\ TxEngine /\ TestEngine(core_read_data, core_error)
            /\ RxBufferPointers /\ rx_syn_reg' = rx_syn /\ tx_ack_reg' = tx_ack
            /\ HostReceives /\ HostSends /\ CoreClock /\ History
BY DEF Next, CoretestClock

\* A step of the system, or a stutter, keeps all types.
LEMMA TypesKept == ASSUME TypeInv, BufferInv, EngineInv, [Next]_vars PROVE TypeInv'
<1>1. CASE Next
  <2>1. RxTypes' /\ PointerTypes'
    BY <1>1, StepParts, RxTypesKept
  <2>2. ParserTypes'
    BY <1>1, StepParts, ParserTypesKept
  <2>3. BusTypes'
    BY <1>1, StepParts, BusTypesKept
  <2>4. MessageTypes'
    BY <1>1, StepParts, MessageTypesKept
  <2>5. TxTypes'
    BY <1>1, <2>4, StepParts, TxTypesKept DEF MessageTypes
  <2>6. CoreTypes'
    BY <1>1, StepParts, CoreTypesKept
  <2>7. LinkTypes'
    BY <1>1, StepParts, LinkTypesKept
  <2> QED BY <2>1, <2>2, <2>3, <2>4, <2>5, <2>6, <2>7 DEF TypeInv
<1>2. CASE UNCHANGED vars
  <2>1. UNCHANGED <<rxRegs, pointers, txRegs, test_engine_reg, commandRegs, busRegs,
                    sampleRegs, messageRegs, send_response_reg, rx_syn_reg, tx_ack_reg>>
    BY <1>2 DEF vars, coretestVars
  <2>2. UNCHANGED <<rx_syn, rx_data, tx_ack, to_send, mem, unread>>
    BY <1>2 DEF vars, linkVars, hostVars, historyVars
  <2>3. RxTypes' /\ PointerTypes'
    BY <2>1, <2>2 DEF TypeInv, RxTypes, PointerTypes, rxRegs, pointers
  <2>4. TxTypes' /\ MessageTypes'
    BY <2>1 DEF TypeInv, TxTypes, MessageTypes, txRegs, messageRegs
  <2>5. ParserTypes' /\ BusTypes'
    BY <2>1
       DEF TypeInv, ParserTypes, BusTypes, commandRegs, busRegs, sampleRegs
  <2>6. CoreTypes' /\ LinkTypes'
    BY <2>1, <2>2 DEF TypeInv, CoreTypes, LinkTypes
  <2> QED BY <2>3, <2>4, <2>5, <2>6 DEF TypeInv
<1> QED BY <1>1, <1>2

(* Every register of coretest.v keeps the width the code declares for it,  *)
(* whatever the host sends and however fast; in particular the byte index  *)
(* of tx_engine never leaves the message (coretest.v:671-750).             *)
THEOREM CoretestTypeCorrect == Spec => []TypeOK
<1>1. TypeInv => TypeOK
  BY DEF TypeInv, RxTypes, PointerTypes, TxTypes, ParserTypes, BusTypes,
         MessageTypes, CoreTypes, LinkTypes, TestStates, TypeOK
<1>2. Init => TypeInv
  BY InitTypes
<1>3. TypeInv /\ BufferInv /\ EngineInv /\ [Next]_vars => TypeInv'
  BY TypesKept
<1> QED BY <1>1, <1>2, <1>3, BufferBookkeeping, EngineLockstep, PTL DEF Spec
=============================================================================
