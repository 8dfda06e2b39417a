----------------------------- MODULE NovenaEim -----------------------------
(***************************************************************************)
(* User space access to the EIM bus of the Novena board,                   *)
(* src/core/platform/novena/sw/novena-eim.c, with the lazy set-up and the  *)
(* address translation of tc_eim.c above it.  One page of physical memory  *)
(* at a time is mapped through /dev/mem: first the pages of the three      *)
(* peripherals that eim_setup configures, then the pages of the FPGA.  An  *)
(* access to an address outside the page replaces the mapping.             *)
(*                                                                         *)
(* The program is single threaded, so a call of eim_read_32 or             *)
(* eim_write_32 with the remapping it causes is one step.  What the calls  *)
(* depend on - open, munmap and mmap - may fail at any time.               *)
(***************************************************************************)
EXTENDS Integers

CONSTANT PageSize  \* sysconf(_SC_PAGESIZE)

ASSUME PageSizeAssumption == PageSize \in Nat \ {0}

VARIABLES
    stage,         \* what eim_setup does next, "done" when it has returned 0
    mem_dev_fd,    \* the memory device is open
    mem_map_ptr,   \* the physical page behind the pointer, or MAP_FAILED
    mem_base_addr, \* the address the mapping was made for
    configured,    \* peripherals configured
    exited,        \* the process has left through exit()
    access         \* the last access: the address asked for, the one reached

eimVars == <<stage, mem_dev_fd, mem_map_ptr, mem_base_addr, configured,
             exited, access>>

MAP_FAILED == -1

\* The first register written of each peripheral; the others are on its page.
IOMUXC_SW_MUX_CTL_PAD_EIM_CS0_B == \h020E00F8
CCM_CCGR6                       == \h020C4080
EIM_CS0GCR1                     == \h021B8000
EIM_BASE_ADDR                   == \h08000000

Blocks == {"iomuxc", "ccm", "eim"}

EimInit ==
    /\ stage = "closed"
    /\ mem_dev_fd = FALSE
    /\ mem_map_ptr = MAP_FAILED
    /\ mem_base_addr = 0
    /\ configured = {}
    /\ exited = FALSE
    /\ access = [asked |-> 0, reached |-> 0]

-----------------------------------------------------------------------------
(* Accesses.                                                               *)

\* Mutant of OutOfPage: the first address after the page passes for its own.
OutOfPageByOne(offset) ==
    offset < mem_base_addr \/ offset > mem_base_addr + PageSize

\* The address is outside the page that is mapped.
OutOfPage(offset) ==
    offset < mem_base_addr \/ offset > mem_base_addr + (PageSize - 1)

NeedsRemap(offset) == mem_map_ptr = MAP_FAILED \/ OutOfPage(offset)

\* The start of the page an address is on.
PageOf(offset) == offset - (offset % PageSize)

Remap(offset) ==
    /\ mem_map_ptr' = PageOf(offset)
    /\ mem_base_addr' = PageOf(offset)

\* The physical address behind the pointer _eim_calc_offset returns: a pointer
\* that leaves the mapped page reaches nothing.
Reached(ptr, base, offset) ==
    IF offset - base \in 0 .. PageSize - 1 THEN ptr + (offset - base)
                                           ELSE MAP_FAILED

\* eim_read_32 or eim_write_32, when the system calls succeed.
Access(offset) ==
    /\ mem_dev_fd
    /\ IF NeedsRemap(offset) THEN Remap(offset)
                             ELSE UNCHANGED <<mem_map_ptr, mem_base_addr>>
    /\ access' = [asked   |-> offset,
                  reached |-> Reached(mem_map_ptr', mem_base_addr', offset)]
    /\ UNCHANGED <<mem_dev_fd, exited>>

\* munmap or mmap fails: exit(EXIT_FAILURE), and _eim_cleanup releases what
\* is left.
RemapFails(offset) ==
    /\ mem_dev_fd
    /\ NeedsRemap(offset)
    /\ exited' = TRUE
    /\ mem_map_ptr' = MAP_FAILED
    /\ mem_dev_fd' = FALSE
    /\ UNCHANGED <<stage, mem_base_addr, configured, access>>

-----------------------------------------------------------------------------
(* eim_setup, called by init of tc_eim.c before every tc_read and tc_write *)
(* until it has succeeded.                                                 *)

OpenDevice ==
    /\ stage = "closed" /\ ~exited
    /\ mem_dev_fd' = TRUE
    /\ stage' = "iomuxc"
    /\ UNCHANGED <<mem_map_ptr, mem_base_addr, configured, exited, access>>

\* One peripheral is configured: all its registers are on one page.
Configure(block, register, next) ==
    /\ stage = block /\ ~exited
    /\ \/ /\ Access(register)
          /\ configured' = configured \cup {block}
          /\ stage' = next
       \/ RemapFails(register)

SetupIomuxc == Configure("iomuxc", IOMUXC_SW_MUX_CTL_PAD_EIM_CS0_B, "ccm")
SetupCcm    == Configure("ccm", CCM_CCGR6, "eim")
SetupEim    == Configure("eim", EIM_CS0GCR1, "done")

EimSetup == OpenDevice \/ SetupIomuxc \/ SetupCcm \/ SetupEim

\* Mutant of Ready: accesses are let through once the device is open.
ReadyEarly == mem_dev_fd /\ ~exited

\* init of tc_eim.c returns 0 without calling eim_setup again.
Ready == stage = "done" /\ ~exited

\* An access to the FPGA through tc_read or tc_write.
Use(offset) ==
    /\ Ready
    /\ Access(offset)
    /\ UNCHANGED <<stage, configured>>

UseFails(offset) == Ready /\ RemapFails(offset)

-----------------------------------------------------------------------------
(* Address translation.  A register number has 3 bits of segment, 5 bits   *)
(* of core and 8 bits of register; on the bus a core number has 6 bits.    *)

CORE_SIZE == 256

eim_offset(offset) ==
    EIM_BASE_ADDR + (offset \div 8192) * 8192 * 8 + (offset % 8192) * 4

\* What the FPGA selects for a bus address.
BusSegment(a)  == ((a - EIM_BASE_ADDR) \div 65536) % 8
BusCore(a)     == ((a - EIM_BASE_ADDR) \div 1024) % 64
BusRegister(a) == ((a - EIM_BASE_ADDR) \div 4) % 256

-----------------------------------------------------------------------------
(* The access layer on its own, used for any addresses of the FPGA.        *)

FpgaAddresses == {a \in Nat : a >= EIM_BASE_ADDR}

EimNext ==
    \/ EimSetup
    \/ \E offset \in FpgaAddresses : Use(offset) \/ UseFails(offset)

EimSpec == EimInit /\ [][EimNext]_eimVars

\* Every access reaches the physical address the caller asked for, whatever
\* was mapped before it.
AccessReachesItsAddress == access.reached = access.asked

\* The FPGA is accessed only when pins, clock and bus have been configured:
\* "If EIM is not set up correctly, this will abort with a bus error"
\* (novena-eim.c:625).
FpgaUsedWhenConfigured ==
    access.asked >= EIM_BASE_ADDR => configured = Blocks
=============================================================================
