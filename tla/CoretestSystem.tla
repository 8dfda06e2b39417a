--------------------------- MODULE CoretestSystem ---------------------------
(***************************************************************************)
(* Coretest between a host and a core.  The host issues commands over the  *)
(* receive half of the link and takes responses from the transmit half;    *)
(* every line of the link is moved by a four-phase handshake of its own,   *)
(* as send_byte and receive_logic of tb_coretest.v do it, after any delay. *)
(* The core is the memory-like core the README of coretest asks for: it    *)
(* answers in the cycle it is selected in, and writes at the clock edge.   *)
(***************************************************************************)
EXTENDS Coretest

CONSTANTS
    Addresses,  \* addresses the core accepts
    Commands,   \* commands the host may issue
    Window,     \* commands the host may have outstanding
    MaxCommands \* bound: commands issued in a behaviour

ASSUME CommandsAssumption ==
    Commands \subseteq [op : {"reset", "unknown"}]
                  \cup [op : {"read", "garbled"}, addr : Byte \X Byte]
                  \cup [op : {"write"}, addr : Byte \X Byte, data : Word]
ASSUME WindowAssumption      == Window \in Nat \ {0}
ASSUME MaxCommandsAssumption == MaxCommands \in Nat

VARIABLES
    rx_syn, rx_data, tx_ack, \* link lines driven by the host
    to_send,                 \* bytes of the command being sent
    budget,                  \* commands the host may still issue
    outstanding,             \* commands issued and not answered yet
    got,                     \* bytes of the response being received
    received,                \* the last complete response, decoded
    mem,                     \* contents of the core
    executed,   \* history: the oldest outstanding command was carried out
    unread      \* history: bytes stored in rx_buffer and not taken from it

linkVars    == <<rx_syn, rx_data, tx_ack>>
hostVars    == <<to_send, budget, outstanding, got, received>>
historyVars == <<executed, unread>>
vars == <<coretestVars, linkVars, hostVars, mem, historyVars>>

-----------------------------------------------------------------------------
(* The protocol as the host sees it.                                       *)

Garbage == CHOOSE b \in Data : TRUE

\* The bytes of a command.
Encode(c) ==
    CASE c.op = "reset"   -> <<SOC, RESET_CMD, EOC>>
      [] c.op = "read"    -> <<SOC, READ_CMD>> \o c.addr \o <<EOC>>
      [] c.op = "write"   -> <<SOC, WRITE_CMD>> \o c.addr \o c.data \o <<EOC>>
      [] c.op = "garbled" -> <<SOC, READ_CMD>> \o c.addr \o <<Garbage>>
      [] c.op = "unknown" -> <<SOC, Garbage, EOC>>

\* Length of a response, by its second byte.
ResponseLength(code) ==
    CASE code = READ_OK  -> 9
      [] code = WRITE_OK -> 5
      [] code = RESET_OK -> 3
      [] OTHER           -> 4

Decode(m) ==
    CASE m[2] = READ_OK  -> [type |-> "read_ok", addr |-> SubSeq(m, 3, 4),
                             data |-> SubSeq(m, 5, 8)]
      [] m[2] = WRITE_OK -> [type |-> "write_ok", addr |-> SubSeq(m, 3, 4)]
      [] m[2] = RESET_OK -> [type |-> "reset_ok"]
      [] m[2] = ERROR    -> [type |-> "error"]
      [] m[2] = UNKNOWN  -> [type |-> "unknown"]
      [] OTHER           -> [type |-> "not a response"]

Complete(m) == Len(m) >= 2 /\ Len(m) = ResponseLength(m[2])

-----------------------------------------------------------------------------
(* The host.                                                               *)

\* A complete response is accounted for when its last byte is released.
Answered == tx_ack /\ ~tx_syn_reg /\ tx_ack' = FALSE /\ Complete(got)

StillOutstanding == IF Answered THEN SubSeq(outstanding, 2, Len(outstanding))
                                ELSE outstanding

HostTakes ==
    /\ tx_syn_reg /\ ~tx_ack
    /\ tx_ack' = TRUE
    /\ got' = Append(got, tx_data)
    /\ UNCHANGED received

HostReleases ==
    /\ ~tx_syn_reg /\ tx_ack
    /\ tx_ack' = FALSE
    /\ IF Complete(got) THEN got' = <<>> /\ received' = Decode(got)
                        ELSE UNCHANGED <<got, received>>

HostReceives ==
    HostTakes \/ HostReleases \/ UNCHANGED <<tx_ack, got, received>>

HostIssues ==
    /\ to_send = <<>> /\ ~rx_syn /\ ~rx_ack_reg
    /\ budget > 0
    /\ Len(outstanding) < Window
    /\ \E c \in Commands :
          /\ to_send' = Encode(c)
          /\ outstanding' = Append(StillOutstanding, c)
    /\ budget' = budget - 1
    /\ UNCHANGED <<rx_syn, rx_data>>

HostRaises ==
    /\ to_send # <<>> /\ ~rx_syn /\ ~rx_ack_reg
    /\ rx_syn' = TRUE
    /\ rx_data' = Head(to_send)
    /\ to_send' = Tail(to_send)
    /\ outstanding' = StillOutstanding
    /\ UNCHANGED budget

HostLowers ==
    /\ rx_syn /\ rx_ack_reg
    /\ rx_syn' = FALSE
    /\ outstanding' = StillOutstanding
    /\ UNCHANGED <<rx_data, to_send, budget>>

HostWaits ==
    /\ outstanding' = StillOutstanding
    /\ UNCHANGED <<rx_syn, rx_data, to_send, budget>>

HostSends == HostIssues \/ HostRaises \/ HostLowers \/ HostWaits

-----------------------------------------------------------------------------
(* The core, and the bookkeeping of the history variables.                 *)

core_read_data == IF core_cs_reg /\ core_addr_reg \in Addresses
                  THEN mem[core_addr_reg] ELSE ZeroWord
core_error     == core_cs_reg /\ core_addr_reg \notin Addresses

CoreClock ==
    mem' = CASE ~core_reset_n_reg -> [a \in Addresses |-> ZeroWord]
             [] core_reset_n_reg /\ core_cs_reg /\ core_we_reg
                /\ core_addr_reg \in Addresses
                                  -> [mem EXCEPT ![core_addr_reg] = core_wr_data_reg]
             [] OTHER             -> mem

\* A command takes effect when the core sees it, or when it is refused.
Executes ==
    \/ test_engine_reg \in {"TEST_RST_WAIT", "TEST_RD_WAIT", "TEST_WR_WAIT"}
    \/ test_engine_reg' \in {"TEST_CMD_ERROR", "TEST_CMD_UNKNOWN"}

History ==
    /\ executed' = ((executed \/ Executes) /\ ~Answered)
    /\ unread' = unread + (IF rx_buffer_wr_ptr_inc THEN 1 ELSE 0)
                        - (IF rx_buffer_rd_ptr_inc THEN 1 ELSE 0)

-----------------------------------------------------------------------------
Init ==
    /\ CoretestInit
    /\ rx_syn = FALSE /\ rx_data = Zero /\ tx_ack = FALSE
    /\ to_send = <<>> /\ budget = MaxCommands
    /\ outstanding = <<>>
    /\ got = <<>> /\ received = [type |-> "none"]
    /\ mem = [a \in Addresses |-> ZeroWord]
    /\ executed = FALSE /\ unread = 0

Next ==
    /\ CoretestClock(rx_syn, rx_data, tx_ack, core_read_data, core_error)
    /\ HostReceives
    /\ HostSends
    /\ CoreClock
    /\ History

\* The clock runs.  The host finishes the handshakes it takes part in and
\* the command it has begun; it need not begin one.
Fairness ==
    /\ WF_vars(Next)
    /\ WF_vars(Next /\ tx_ack' # tx_ack)
    /\ WF_vars(Next /\ rx_syn' # rx_syn)

Spec == Init /\ [][Next]_vars /\ Fairness
-----------------------------------------------------------------------------
TypeOK ==
    /\ rx_engine_reg \in {"RX_IDLE", "RX_ACK", "RX_NSYN"}
    /\ tx_engine_reg \in {"TX_IDLE", "TX_SYN", "TX_NOACK", "TX_NEXT",
                          "TX_SENT", "TX_DONE"}
    /\ test_engine_reg \in TakingStates \cup EndStates \cup
          {"TEST_PARSE_CMD", "TEST_RST_START", "TEST_RST_WAIT",
           "TEST_RD_START", "TEST_RD_WAIT", "TEST_WR_START", "TEST_WR_WAIT",
           "TEST_SEND_RESPONSE"}
    /\ rx_buffer \in [RxSlots -> Byte]
    /\ {rx_buffer_rd_ptr_reg, rx_buffer_wr_ptr_reg, rx_buffer_ctr_reg}
          \subseteq RxSlots
    /\ tx_buffer \in [TxSlots -> Byte]
    /\ tx_buffer_ptr_reg \in TxSlots
    /\ tx_msg_len_reg \in {0, 2, 3, 4, 8}
    /\ {rx_syn_reg, tx_ack_reg, rx_ack_reg, tx_syn_reg, send_response_reg,
        response_sent_reg, core_reset_n_reg, core_cs_reg, core_we_reg,
        core_error_reg} \subseteq BOOLEAN
    /\ cmd_reg \in Byte
    /\ core_addr_reg \in Byte \X Byte
    /\ {core_wr_data_reg, core_read_data_reg} \subseteq Word
    /\ mem \in [Addresses -> Word]
    /\ unread \in Int

\* The element counter of the receive buffer counts its elements.
CounterCountsElements == rx_buffer_ctr_reg = unread

\* Whatever the host sends and however fast, no byte is stored over one that
\* test_engine has not taken: the counter never counts too few.
NeverOverrun == unread <= rx_buffer_ctr_reg /\ unread <= BUFFER_MAX

\* While the core is selected its address, data and write enable are stable
\* up to the edge that deselects it.
BusStable ==
    [][core_cs_reg => /\ UNCHANGED <<core_addr_reg, core_wr_data_reg>>
                      /\ core_cs_reg' => UNCHANGED core_we_reg]_vars

\* A response is not rewritten while it is being sent: from the first byte
\* on the line to the last one released.
ResponseFrozen ==
    [][tx_engine_reg # "TX_IDLE" /\ tx_engine_reg' # "TX_IDLE"
          => UNCHANGED messageRegs]_vars

\* The host gets rid of every byte it offers.
BytesAreTaken == rx_syn ~> ~rx_syn

\* Every command is answered.
CommandsAreAnswered == outstanding # <<>> ~> outstanding = <<>>

-----------------------------------------------------------------------------
(* Coretest, seen through its host and its core, is a remote memory.       *)

TxMessage == [i \in 1 .. tx_msg_len_reg + 1 |-> tx_buffer[i - 1]]

\* The answer that is being prepared or sent.
Reply == CASE ~executed -> [type |-> "none"]
           [] executed /\ test_engine_reg \in EndStates
                        -> Decode(Message(response_type))
           [] OTHER     -> Decode(TxMessage)

Remote == INSTANCE RemoteMemory WITH ResetValue <- ZeroWord, reply <- Reply

\* Every command is carried out once and in order, and the response the host
\* receives is the answer to it, byte for byte.
IsRemoteMemory == Remote!MemorySpec
=============================================================================
