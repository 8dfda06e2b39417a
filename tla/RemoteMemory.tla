---------------------------- MODULE RemoteMemory ----------------------------
(***************************************************************************)
(* What the coretest platform promises its host (coretest README,          *)
(* "Protocol"): a memory behind a command-response protocol.  Commands are *)
(* carried out one at a time and in the order they were issued, each once, *)
(* and the answer to a command tells what happened when it was.            *)
(***************************************************************************)
EXTENDS Naturals, Sequences

CONSTANTS
    Addresses,  \* addresses the core accepts
    Commands,   \* commands the host may issue
    ResetValue, \* contents of every address after a reset of the core
    Window      \* commands the host may have outstanding

VARIABLES
    mem,         \* contents of the core
    outstanding, \* commands issued and not answered yet, oldest first
    reply,       \* answer to the oldest command, NoReply until it is known
    received     \* the answer the host received last

memoryVars == <<mem, outstanding, reply, received>>

NoReply == [type |-> "none"]

\* The contents of the core after command c.
Effect(c) ==
    CASE c.op = "reset" -> [a \in Addresses |-> ResetValue]
      [] c.op = "write" /\ c.addr \in Addresses
                        -> [mem EXCEPT ![c.addr] = c.data]
      [] OTHER          -> mem

\* The answer to command c.
Answer(c) ==
    CASE c.op = "reset"   -> [type |-> "reset_ok"]
      [] c.op = "unknown" -> [type |-> "unknown"]
      [] c.op = "garbled" \/ (c.op \in {"read", "write"}
                              /\ c.addr \notin Addresses)
                          -> [type |-> "error"]
      [] c.op = "read"  /\ c.addr \in Addresses
                 -> [type |-> "read_ok", addr |-> c.addr, data |-> mem[c.addr]]
      [] c.op = "write" /\ c.addr \in Addresses
                 -> [type |-> "write_ok", addr |-> c.addr]

MemoryInit ==
    /\ mem = [a \in Addresses |-> ResetValue]
    /\ outstanding = <<>>
    /\ reply = NoReply
    /\ received = NoReply

Issue ==
    /\ Len(outstanding) < Window
    /\ \E c \in Commands : outstanding' = Append(outstanding, c)
    /\ UNCHANGED <<mem, reply, received>>

Execute ==
    /\ outstanding # <<>>
    /\ reply = NoReply
    /\ mem' = Effect(Head(outstanding))
    /\ reply' = Answer(Head(outstanding))
    /\ UNCHANGED <<outstanding, received>>

Deliver ==
    /\ reply # NoReply
    /\ received' = reply
    /\ reply' = NoReply
    /\ outstanding' = Tail(outstanding)
    /\ UNCHANGED mem

MemoryNext == Issue \/ Execute \/ Deliver

MemorySpec == MemoryInit /\ [][MemoryNext]_memoryVars
=============================================================================
