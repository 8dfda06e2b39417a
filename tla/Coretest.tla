------------------------------ MODULE Coretest ------------------------------
(***************************************************************************)
(* The command engine of the test platform,                                *)
(* src/core/comm/coretest/src/rtl/coretest.v.  Three state machines share  *)
(* the clock: rx_engine takes bytes from the link into a ring buffer,      *)
(* test_engine parses commands, accesses the core and builds responses,    *)
(* tx_engine sends them.  One step is one rising edge of clk; the ports    *)
(* are the parameters of CoretestClock.                                    *)
(*                                                                         *)
(* Bytes are strings, so that SOC and EOR are the same byte, and EOC and   *)
(* SOR, as in the code.  Addresses and words are tuples of bytes, the most *)
(* significant first.                                                      *)
(***************************************************************************)
EXTENDS Integers, Sequences

CONSTANTS
    BUFFER_MAX, \* last slot of rx_buffer, and its capacity (15 in the code)
    Data        \* bytes with no meaning in the protocol

ASSUME BufferMaxAssumption == BUFFER_MAX \in Nat \ {0}

SOC == "55"
EOC == "aa"
RESET_CMD == "01"
READ_CMD == "10"
WRITE_CMD == "11"
SOR == "aa"
EOR == "55"
UNKNOWN == "fe"
ERROR == "fd"
READ_OK == "7f"
WRITE_OK == "7e"
RESET_OK == "7d"
Zero == "00"

Codes == {SOC, EOC, RESET_CMD, READ_CMD, WRITE_CMD, UNKNOWN, ERROR, READ_OK,
          WRITE_OK, RESET_OK, Zero}
Byte  == Codes \cup Data
Word == Byte \X Byte \X Byte \X Byte
ZeroWord == <<Zero, Zero, Zero, Zero>>

ASSUME DataAssumption == Data # {} /\ Data \cap Codes = {}

VARIABLES
    rx_syn_reg, tx_ack_reg,                            \* sampled link inputs
    rx_ack_reg, tx_syn_reg,                            \* link outputs
    rx_engine_reg, tx_engine_reg, test_engine_reg,
    rx_buffer, rx_buffer_rd_ptr_reg, rx_buffer_wr_ptr_reg, rx_buffer_ctr_reg,
    tx_buffer, tx_buffer_ptr_reg, tx_msg_len_reg,
    send_response_reg, response_sent_reg,
    cmd_reg, core_addr_reg, core_wr_data_reg,          \* the parsed command
    core_reset_n_reg, core_cs_reg, core_we_reg,        \* core outputs
    core_read_data_reg, core_error_reg                 \* sampled core inputs

rxRegs      == <<rx_engine_reg, rx_ack_reg, rx_buffer>>
pointers    == <<rx_buffer_rd_ptr_reg, rx_buffer_wr_ptr_reg, rx_buffer_ctr_reg>>
txRegs      == <<tx_engine_reg, tx_syn_reg, tx_buffer_ptr_reg, response_sent_reg>>
commandRegs == <<cmd_reg, core_addr_reg, core_wr_data_reg>>
busRegs     == <<core_reset_n_reg, core_cs_reg, core_we_reg>>
sampleRegs  == <<core_read_data_reg, core_error_reg>>
messageRegs == <<tx_buffer, tx_msg_len_reg>>

coretestVars == <<rx_syn_reg, tx_ack_reg, rxRegs, pointers, txRegs,
                  test_engine_reg, commandRegs, busRegs, sampleRegs,
                  messageRegs, send_response_reg>>

RxSlots == 0 .. BUFFER_MAX
TxSlots == 0 .. 8

CoretestInit ==
    /\ rx_syn_reg = FALSE /\ tx_ack_reg = FALSE
    /\ rx_ack_reg = FALSE /\ tx_syn_reg = FALSE
    /\ rx_engine_reg = "RX_IDLE"
    /\ tx_engine_reg = "TX_IDLE"
    /\ test_engine_reg = "TEST_IDLE"
    /\ rx_buffer = [s \in RxSlots |-> Zero]
    /\ rx_buffer_rd_ptr_reg = 0
    /\ rx_buffer_wr_ptr_reg = 0
    /\ rx_buffer_ctr_reg = 0
    /\ tx_buffer = [s \in TxSlots |-> Zero]
    /\ tx_buffer_ptr_reg = 0
    /\ tx_msg_len_reg = 0
    /\ send_response_reg = FALSE /\ response_sent_reg = FALSE
    /\ cmd_reg = Zero
    /\ core_addr_reg = <<Zero, Zero>>
    /\ core_wr_data_reg = ZeroWord
    /\ core_reset_n_reg = TRUE
    /\ core_cs_reg = FALSE /\ core_we_reg = FALSE
    /\ core_read_data_reg = ZeroWord /\ core_error_reg = FALSE

-----------------------------------------------------------------------------
(* The receive buffer.                                                     *)

\* Mutant of rx_buffer_full: the link is never held up.
NeverFull == FALSE

rx_byte         == rx_buffer[rx_buffer_rd_ptr_reg]
rx_buffer_empty == rx_buffer_ctr_reg = 0
rx_buffer_full  == rx_buffer_ctr_reg = BUFFER_MAX

\* States of test_engine that take the byte at the read pointer.
TakingStates ==
    {"TEST_IDLE", "TEST_GET_CMD", "TEST_GET_ADDR0", "TEST_GET_ADDR1",
     "TEST_GET_DATA0", "TEST_GET_DATA1", "TEST_GET_DATA2", "TEST_GET_DATA3",
     "TEST_GET_EOC"}

\* Mutant of rx_buffer_rd_ptr_inc: EOC is looked at and left in the buffer.
EocStays == /\ test_engine_reg \in TakingStates \ {"TEST_GET_EOC"}
            /\ ~rx_buffer_empty

rx_buffer_rd_ptr_inc == test_engine_reg \in TakingStates /\ ~rx_buffer_empty
rx_buffer_wr_ptr_inc == rx_engine_reg = "RX_ACK"

\* Registers of BUFFER_MAX + 1 values wrap.
Wrap(n) == n % (BUFFER_MAX + 1)

\* An increment hides a decrement of the same cycle.
RxBufferPointers ==
    /\ rx_buffer_rd_ptr_reg' = IF rx_buffer_rd_ptr_inc
                               THEN Wrap(rx_buffer_rd_ptr_reg + 1)
                               ELSE rx_buffer_rd_ptr_reg
    /\ rx_buffer_wr_ptr_reg' = IF rx_buffer_wr_ptr_inc
                               THEN Wrap(rx_buffer_wr_ptr_reg + 1)
                               ELSE rx_buffer_wr_ptr_reg
    /\ rx_buffer_ctr_reg' =
          CASE rx_buffer_wr_ptr_inc -> Wrap(rx_buffer_ctr_reg + 1)
            [] ~rx_buffer_wr_ptr_inc /\ rx_buffer_rd_ptr_inc
                                    -> Wrap(rx_buffer_ctr_reg - 1)
            [] OTHER                -> rx_buffer_ctr_reg

-----------------------------------------------------------------------------
(* rx_engine: one byte per syn-ack handshake.                              *)

RxStore(rx_data) ==
    /\ rx_engine_reg = "RX_IDLE"
    /\ rx_syn_reg /\ ~rx_buffer_full
    /\ rx_buffer' = [rx_buffer EXCEPT ![rx_buffer_wr_ptr_reg] = rx_data]
    /\ rx_engine_reg' = "RX_ACK"
    /\ UNCHANGED rx_ack_reg

RxAck ==
    /\ rx_engine_reg = "RX_ACK"
    /\ rx_ack_reg' = TRUE
    /\ rx_engine_reg' = "RX_NSYN"
    /\ UNCHANGED rx_buffer

RxRelease ==
    /\ rx_engine_reg = "RX_NSYN"
    /\ ~rx_syn_reg
    /\ rx_ack_reg' = FALSE
    /\ rx_engine_reg' = "RX_IDLE"
    /\ UNCHANGED rx_buffer

RxWait ==
    /\ \/ rx_engine_reg = "RX_IDLE" /\ ~(rx_syn_reg /\ ~rx_buffer_full)
       \/ rx_engine_reg = "RX_NSYN" /\ rx_syn_reg
    /\ UNCHANGED rxRegs

RxEngine(rx_data) == RxStore(rx_data) \/ RxAck \/ RxRelease \/ RxWait

-----------------------------------------------------------------------------
(* tx_engine: sends tx_buffer[0 .. tx_msg_len_reg].                        *)

tx_data == tx_buffer[tx_buffer_ptr_reg]

TxStart ==
    /\ tx_engine_reg = "TX_IDLE"
    /\ send_response_reg
    /\ tx_syn_reg' = TRUE
    /\ tx_engine_reg' = "TX_SYN"
    /\ UNCHANGED <<tx_buffer_ptr_reg, response_sent_reg>>

TxAcked ==
    /\ tx_engine_reg = "TX_SYN"
    /\ tx_ack_reg
    /\ tx_syn_reg' = FALSE
    /\ tx_engine_reg' = "TX_NOACK"
    /\ UNCHANGED <<tx_buffer_ptr_reg, response_sent_reg>>

TxReleased ==
    /\ tx_engine_reg = "TX_NOACK"
    /\ ~tx_ack_reg
    /\ tx_engine_reg' = "TX_NEXT"
    /\ UNCHANGED <<tx_syn_reg, tx_buffer_ptr_reg, response_sent_reg>>

TxNext ==
    /\ tx_engine_reg = "TX_NEXT"
    /\ IF tx_buffer_ptr_reg = tx_msg_len_reg
       THEN /\ tx_engine_reg' = "TX_SENT"
            /\ UNCHANGED <<tx_syn_reg, tx_buffer_ptr_reg>>
       ELSE /\ tx_buffer_ptr_reg' = (tx_buffer_ptr_reg + 1) % 16
            /\ tx_syn_reg' = TRUE
            /\ tx_engine_reg' = "TX_SYN"
    /\ UNCHANGED response_sent_reg

\* Mutant of TxSent: test_engine is not told.
TxSentSilently ==
    /\ tx_engine_reg = "TX_SENT"
    /\ tx_engine_reg' = "TX_DONE"
    /\ UNCHANGED <<tx_syn_reg, tx_buffer_ptr_reg, response_sent_reg>>

TxSent ==
    /\ tx_engine_reg = "TX_SENT"
    /\ response_sent_reg' = TRUE
    /\ tx_engine_reg' = "TX_DONE"
    /\ UNCHANGED <<tx_syn_reg, tx_buffer_ptr_reg>>

TxDone ==
    /\ tx_engine_reg = "TX_DONE"
    /\ response_sent_reg' = FALSE
    /\ tx_buffer_ptr_reg' = 0
    /\ tx_engine_reg' = "TX_IDLE"
    /\ UNCHANGED tx_syn_reg

TxWait ==
    /\ \/ tx_engine_reg = "TX_IDLE"  /\ ~send_response_reg
       \/ tx_engine_reg = "TX_SYN"   /\ ~tx_ack_reg
       \/ tx_engine_reg = "TX_NOACK" /\ tx_ack_reg
    /\ UNCHANGED txRegs

TxEngine == TxStart \/ TxAcked \/ TxReleased \/ TxNext \/ TxSent \/ TxDone
            \/ TxWait

-----------------------------------------------------------------------------
(* test_engine: the parser.                                                *)

Parsing == UNCHANGED <<busRegs, sampleRegs, messageRegs, send_response_reg>>

\* Bytes that do not start a command are dropped.
TestIdle ==
    /\ test_engine_reg = "TEST_IDLE"
    /\ ~rx_buffer_empty
    /\ test_engine_reg' = IF rx_byte = SOC THEN "TEST_GET_CMD" ELSE "TEST_IDLE"
    /\ UNCHANGED commandRegs

GetCmd ==
    /\ test_engine_reg = "TEST_GET_CMD"
    /\ ~rx_buffer_empty
    /\ cmd_reg' = rx_byte
    /\ test_engine_reg' = "TEST_PARSE_CMD"
    /\ UNCHANGED <<core_addr_reg, core_wr_data_reg>>

\* Mutant of ParseCmd: a reset command is parsed like a read.
ParseCmdAddressed ==
    /\ test_engine_reg = "TEST_PARSE_CMD"
    /\ test_engine_reg' = IF cmd_reg \in {RESET_CMD, READ_CMD, WRITE_CMD}
                          THEN "TEST_GET_ADDR0" ELSE "TEST_CMD_UNKNOWN"
    /\ UNCHANGED commandRegs

ParseCmd ==
    /\ test_engine_reg = "TEST_PARSE_CMD"
    /\ test_engine_reg' =
          CASE cmd_reg = RESET_CMD                -> "TEST_GET_EOC"
            [] cmd_reg \in {READ_CMD, WRITE_CMD}  -> "TEST_GET_ADDR0"
            [] OTHER                              -> "TEST_CMD_UNKNOWN"
    /\ UNCHANGED commandRegs

GetAddr ==
    /\ test_engine_reg \in {"TEST_GET_ADDR0", "TEST_GET_ADDR1"}
    /\ ~rx_buffer_empty
    /\ IF test_engine_reg = "TEST_GET_ADDR0"
       THEN /\ core_addr_reg' = [core_addr_reg EXCEPT ![1] = rx_byte]
            /\ test_engine_reg' = "TEST_GET_ADDR1"
       ELSE /\ core_addr_reg' = [core_addr_reg EXCEPT ![2] = rx_byte]
            /\ test_engine_reg' =
                  CASE cmd_reg = READ_CMD  -> "TEST_GET_EOC"
                    [] cmd_reg = WRITE_CMD -> "TEST_GET_DATA0"
                    [] OTHER               -> "TEST_CMD_UNKNOWN"
    /\ UNCHANGED <<cmd_reg, core_wr_data_reg>>

DataStates == <<"TEST_GET_DATA0", "TEST_GET_DATA1", "TEST_GET_DATA2",
                "TEST_GET_DATA3">>

GetData ==
    \E i \in 1 .. 4 :
        /\ test_engine_reg = DataStates[i]
        /\ ~rx_buffer_empty
        /\ core_wr_data_reg' = [core_wr_data_reg EXCEPT ![i] = rx_byte]
        /\ test_engine_reg' = IF i < 4 THEN DataStates[i + 1]
                                       ELSE "TEST_GET_EOC"
        /\ UNCHANGED <<cmd_reg, core_addr_reg>>

GetEoc ==
    /\ test_engine_reg = "TEST_GET_EOC"
    /\ ~rx_buffer_empty
    /\ test_engine_reg' =
          CASE rx_byte # EOC        -> "TEST_CMD_ERROR"
            [] rx_byte = EOC /\ cmd_reg = RESET_CMD -> "TEST_RST_START"
            [] rx_byte = EOC /\ cmd_reg = READ_CMD  -> "TEST_RD_START"
            [] rx_byte = EOC /\ cmd_reg = WRITE_CMD -> "TEST_WR_START"
            [] OTHER                -> "TEST_CMD_UNKNOWN"
    /\ UNCHANGED commandRegs

\* Nothing to take: wait for the link.
TestStarves ==
    /\ test_engine_reg \in TakingStates
    /\ rx_buffer_empty
    /\ UNCHANGED <<test_engine_reg, commandRegs>>

Parse == /\ \/ TestIdle \/ GetCmd \/ ParseCmd \/ GetAddr \/ GetData \/ GetEoc
            \/ TestStarves
         /\ Parsing

-----------------------------------------------------------------------------
(* test_engine: access to the core.                                        *)

CoreReset ==
    /\ \/ /\ test_engine_reg = "TEST_RST_START"
          /\ core_reset_n_reg' = FALSE
          /\ test_engine_reg' = "TEST_RST_WAIT"
       \/ /\ test_engine_reg = "TEST_RST_WAIT"
          /\ test_engine_reg' = "TEST_RST_END"
          /\ UNCHANGED core_reset_n_reg
    /\ UNCHANGED <<core_cs_reg, core_we_reg, sampleRegs>>

AccessStart ==
    /\ test_engine_reg \in {"TEST_RD_START", "TEST_WR_START"}
    /\ core_cs_reg' = TRUE
    /\ IF test_engine_reg = "TEST_WR_START"
       THEN core_we_reg' = TRUE  /\ test_engine_reg' = "TEST_WR_WAIT"
       ELSE UNCHANGED core_we_reg /\ test_engine_reg' = "TEST_RD_WAIT"
    /\ UNCHANGED <<core_reset_n_reg, sampleRegs>>

\* Mutant of AccessWait: the core's outputs are not sampled.
AccessWaitBlind(core_read_data, core_error) ==
    /\ test_engine_reg \in {"TEST_RD_WAIT", "TEST_WR_WAIT"}
    /\ test_engine_reg' = IF test_engine_reg = "TEST_RD_WAIT"
                          THEN "TEST_RD_END" ELSE "TEST_WR_END"
    /\ UNCHANGED <<busRegs, sampleRegs>>

\* The core answers in the cycle after the select, and is sampled then.
AccessWait(core_read_data, core_error) ==
    /\ test_engine_reg \in {"TEST_RD_WAIT", "TEST_WR_WAIT"}
    /\ core_read_data_reg' = core_read_data
    /\ core_error_reg' = core_error
    /\ test_engine_reg' = IF test_engine_reg = "TEST_RD_WAIT"
                          THEN "TEST_RD_END" ELSE "TEST_WR_END"
    /\ UNCHANGED busRegs

Access(core_read_data, core_error) ==
    /\ CoreReset \/ AccessStart \/ AccessWait(core_read_data, core_error)
    /\ UNCHANGED <<commandRegs, messageRegs, send_response_reg>>

-----------------------------------------------------------------------------
(* test_engine: the response.                                              *)

\* What tx_buffer is filled with for a type of response.
Message(type) ==
    CASE type = READ_OK
            -> <<SOR, READ_OK>> \o core_addr_reg \o core_read_data_reg \o <<EOR>>
      [] type = WRITE_OK -> <<SOR, WRITE_OK>> \o core_addr_reg \o <<EOR>>
      [] type = RESET_OK -> <<SOR, RESET_OK, EOR>>
      [] type = ERROR    -> <<SOR, ERROR, cmd_reg, EOR>>
      [] OTHER                    -> <<SOR, UNKNOWN, cmd_reg, EOR>>

\* Mutant of UpdateTxBuffer: the length counts the bytes.
UpdateTxBufferLong(type) ==
    LET m == Message(type)
    IN  /\ tx_buffer' = [s \in TxSlots |-> IF s < Len(m) THEN m[s + 1] ELSE Zero]
        /\ tx_msg_len_reg' = Len(m)

UpdateTxBuffer(type) ==
    LET m == Message(type)
    IN  /\ tx_buffer' = [s \in TxSlots |-> IF s < Len(m) THEN m[s + 1] ELSE Zero]
        /\ tx_msg_len_reg' = Len(m) - 1

EndStates == {"TEST_RST_END", "TEST_RD_END", "TEST_WR_END",
              "TEST_CMD_UNKNOWN", "TEST_CMD_ERROR"}

response_type ==
    CASE test_engine_reg = "TEST_RST_END"                   -> RESET_OK
      [] test_engine_reg = "TEST_RD_END" /\ ~core_error_reg -> READ_OK
      [] test_engine_reg = "TEST_WR_END" /\ ~core_error_reg -> WRITE_OK
      [] test_engine_reg = "TEST_CMD_UNKNOWN"               -> UNKNOWN
      [] OTHER                                              -> ERROR

\* Mutant of BuildResponse: a read leaves the core selected.
BuildResponseSelected ==
    /\ test_engine_reg \in EndStates
    /\ UpdateTxBuffer(response_type)
    /\ core_reset_n_reg' = (core_reset_n_reg \/ test_engine_reg = "TEST_RST_END")
    /\ core_cs_reg' = (core_cs_reg /\ test_engine_reg # "TEST_WR_END")
    /\ core_we_reg' = (core_we_reg /\ test_engine_reg # "TEST_WR_END")
    /\ test_engine_reg' = "TEST_SEND_RESPONSE"
    /\ UNCHANGED send_response_reg

\* The end of an access also releases the core.
BuildResponse ==
    /\ test_engine_reg \in EndStates
    /\ UpdateTxBuffer(response_type)
    /\ core_reset_n_reg' = (core_reset_n_reg \/ test_engine_reg = "TEST_RST_END")
    /\ core_cs_reg' = (core_cs_reg /\ test_engine_reg \notin
                                       {"TEST_RD_END", "TEST_WR_END"})
    /\ core_we_reg' = (core_we_reg /\ test_engine_reg # "TEST_WR_END")
    /\ test_engine_reg' = "TEST_SEND_RESPONSE"
    /\ UNCHANGED send_response_reg

\* Mutant of SendResponse: the engine does not wait for the transmission.
SendResponseEarly ==
    /\ test_engine_reg = "TEST_SEND_RESPONSE"
    /\ send_response_reg' = ~send_response_reg
    /\ test_engine_reg' = IF send_response_reg THEN "TEST_IDLE"
                                               ELSE "TEST_SEND_RESPONSE"
    /\ UNCHANGED <<busRegs, messageRegs>>

\* The request stays up until tx_engine says that the response is out.
SendResponse ==
    /\ test_engine_reg = "TEST_SEND_RESPONSE"
    /\ send_response_reg' = ~response_sent_reg
    /\ test_engine_reg' = IF response_sent_reg THEN "TEST_IDLE"
                                               ELSE "TEST_SEND_RESPONSE"
    /\ UNCHANGED <<busRegs, messageRegs>>

Respond == /\ BuildResponse \/ SendResponse
           /\ UNCHANGED <<commandRegs, sampleRegs>>

TestEngine(core_read_data, core_error) ==
    Parse \/ Access(core_read_data, core_error) \/ Respond

-----------------------------------------------------------------------------
CoretestClock(rx_syn, rx_data, tx_ack, core_read_data, core_error) ==
    /\ RxEngine(rx_data)
    /\ TxEngine
    /\ TestEngine(core_read_data, core_error)
    /\ RxBufferPointers
    /\ rx_syn_reg' = rx_syn
    /\ tx_ack_reg' = tx_ack
=============================================================================
