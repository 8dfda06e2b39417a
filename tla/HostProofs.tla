----------------------------- MODULE HostProofs -----------------------------
(***************************************************************************)
(* Proofs about the host programs and the access layer under them, for     *)
(* every page size, every fabric and every script.                         *)
(*                                                                         *)
(* The first part is NovenaEim on its own.  AccessReachesItsAddress is not *)
(* inductive: it needs that the page behind the pointer is the one         *)
(* mem_base_addr names, which in turn is kept because both are changed     *)
(* together, and FpgaUsedWhenConfigured needs to know how far eim_setup    *)
(* has come (EimInv).                                                      *)
(***************************************************************************)
EXTENDS Orderly, WellFoundedInduction, TLAPS

\* The stages of eim_setup, with the peripherals configured in each.
StageInv ==
    \/ stage = "closed" /\ configured = {}
    \/ stage = "iomuxc" /\ configured = {}
    \/ stage = "ccm" /\ configured = {"iomuxc"}
    \/ stage = "eim" /\ configured = {"iomuxc", "ccm"}
    \/ stage = "done" /\ configured = Blocks

\* A mapping is the one of the page that starts at mem_base_addr.
MappingInv ==
    /\ mem_map_ptr \in Int /\ mem_base_addr \in Nat
    /\ mem_map_ptr # MAP_FAILED => mem_map_ptr = mem_base_addr

AccessInv ==
    /\ access \in [asked : Nat, reached : Int]
    /\ AccessReachesItsAddress
    /\ FpgaUsedWhenConfigured

EimInv == StageInv /\ MappingInv /\ AccessInv

-----------------------------------------------------------------------------
\* A page starts at or before the address and the address is on it.
LEMMA PageOfAddress ==
    ASSUME NEW offset \in Nat
    PROVE  /\ PageOf(offset) \in Nat
           /\ offset - PageOf(offset) \in 0 .. PageSize - 1
BY PageSizeAssumption DEF PageOf

\* An access keeps the mapping and reaches the address asked for.
LEMMA AccessStep ==
    ASSUME MappingInv, NEW offset \in Nat, Access(offset)
    PROVE  /\ MappingInv'
           /\ access' = [asked |-> offset, reached |-> offset]
<1>1. CASE NeedsRemap(offset)
  <2>1. mem_map_ptr' = PageOf(offset) /\ mem_base_addr' = PageOf(offset)
    BY <1>1 DEF Access, Remap
  <2>2. PageOf(offset) + (offset - PageOf(offset)) = offset
    BY PageOfAddress
  <2>3. Reached(PageOf(offset), PageOf(offset), offset) = offset
    BY <2>2, PageOfAddress DEF Reached
  <2>. QED
    BY <2>1, <2>3, PageOfAddress DEF Access, MappingInv
<1>2. CASE ~NeedsRemap(offset)
  <2>1. mem_map_ptr' = mem_map_ptr /\ mem_base_addr' = mem_base_addr
    BY <1>2 DEF Access
  <2>2. /\ mem_map_ptr = mem_base_addr
        /\ offset >= mem_base_addr /\ offset <= mem_base_addr + (PageSize - 1)
    BY <1>2, PageSizeAssumption DEF NeedsRemap, OutOfPage, MappingInv
  <2>3. Reached(mem_map_ptr, mem_base_addr, offset) = offset
    BY <2>2, PageSizeAssumption DEF Reached, MappingInv
  <2>. QED
    BY <2>1, <2>3 DEF Access, MappingInv
<1>. QED
  BY <1>1, <1>2

\* Configuring a peripheral keeps the mapping, and touches no FPGA address.
LEMMA ConfigureStep ==
    ASSUME EimInv, NEW block, NEW next,
           NEW register \in Nat, register < EIM_BASE_ADDR,
           Configure(block, register, next)
    PROVE  MappingInv' /\ AccessInv'
<1>. USE DEF EimInv
<1>1. CASE Access(register)
  <2>1. MappingInv' /\ access' = [asked |-> register, reached |-> register]
    BY <1>1, AccessStep
  <2>. QED
    BY <2>1 DEF AccessInv, AccessReachesItsAddress, FpgaUsedWhenConfigured,
               EIM_BASE_ADDR
<1>2. CASE RemapFails(register)
  <2>1. UNCHANGED <<access, configured, mem_base_addr>> /\ mem_map_ptr' = MAP_FAILED
    BY <1>2 DEF RemapFails
  <2>2. MappingInv'
    BY <2>1 DEF MappingInv, MAP_FAILED
  <2>. QED
    BY <2>1, <2>2 DEF AccessInv, AccessReachesItsAddress, FpgaUsedWhenConfigured
<1>. QED
  BY <1>1, <1>2 DEF Configure

LEMMA EimInitInv == EimInit => EimInv
BY DEF EimInit, EimInv, StageInv, MappingInv, AccessInv, MAP_FAILED,
       AccessReachesItsAddress, FpgaUsedWhenConfigured, EIM_BASE_ADDR

LEMMA EimStepInv ==
    ASSUME EimInv, [EimNext]_eimVars
    PROVE  EimInv'
<1>. USE DEF EimInv
<1>1. CASE OpenDevice
  BY <1>1 DEF OpenDevice, StageInv, MappingInv, AccessInv,
              AccessReachesItsAddress, FpgaUsedWhenConfigured
<1>2. CASE SetupIomuxc
  <2>1. MappingInv' /\ AccessInv'
    BY <1>2, ConfigureStep
       DEF SetupIomuxc, IOMUXC_SW_MUX_CTL_PAD_EIM_CS0_B, EIM_BASE_ADDR
  <2>2. StageInv'
    BY <1>2 DEF SetupIomuxc, Configure, RemapFails, StageInv
  <2>. QED
    BY <2>1, <2>2
<1>3. CASE SetupCcm
  <2>1. MappingInv' /\ AccessInv'
    BY <1>3, ConfigureStep DEF SetupCcm, CCM_CCGR6, EIM_BASE_ADDR
  <2>2. StageInv'
    BY <1>3 DEF SetupCcm, Configure, RemapFails, StageInv
  <2>. QED
    BY <2>1, <2>2
<1>4. CASE SetupEim
  <2>1. MappingInv' /\ AccessInv'
    BY <1>4, ConfigureStep DEF SetupEim, EIM_CS0GCR1, EIM_BASE_ADDR
  <2>2. StageInv'
    BY <1>4 DEF SetupEim, Configure, RemapFails, StageInv, Blocks
  <2>. QED
    BY <2>1, <2>2
<1>5. ASSUME NEW offset \in FpgaAddresses, Use(offset)
      PROVE  EimInv'
  <2>1. offset \in Nat
    BY DEF FpgaAddresses
  <2>2. MappingInv' /\ access' = [asked |-> offset, reached |-> offset]
    BY <1>5, <2>1, AccessStep DEF Use
  <2>3. stage' = "done" /\ configured' = Blocks
    BY <1>5 DEF Use, Ready, StageInv
  <2>. QED
    BY <2>1, <2>2, <2>3 DEF StageInv, AccessInv, AccessReachesItsAddress,
                            FpgaUsedWhenConfigured
<1>6. ASSUME NEW offset \in FpgaAddresses, UseFails(offset)
      PROVE  EimInv'
  <2>1. /\ UNCHANGED <<stage, access, configured, mem_base_addr>>
        /\ mem_map_ptr' = MAP_FAILED
    BY <1>6 DEF UseFails, RemapFails
  <2>2. MappingInv'
    BY <2>1 DEF MappingInv, MAP_FAILED
  <2>. QED
    BY <2>1, <2>2 DEF StageInv, AccessInv, AccessReachesItsAddress,
                      FpgaUsedWhenConfigured
<1>7. CASE UNCHANGED eimVars
  BY <1>7 DEF eimVars, StageInv, MappingInv, AccessInv,
              AccessReachesItsAddress, FpgaUsedWhenConfigured
<1>. QED
  BY <1>1, <1>2, <1>3, <1>4, <1>5, <1>6, <1>7 DEF EimNext, EimSetup

\* The whole history of remappings is invisible to the callers: every access
\* reaches its address (novena-eim.c:654-703).
THEOREM EveryAccessReachesItsAddress == EimSpec => []AccessReachesItsAddress
<1>1. EimInv => AccessReachesItsAddress
  BY DEF EimInv, AccessInv
<1>. QED
  BY EimInitInv, EimStepInv, <1>1, PTL DEF EimSpec

\* No FPGA access before eim_setup has configured all three peripherals, also
\* when it failed before and is called again (tc_eim.c:51-65).
THEOREM NoAccessBeforeSetup == EimSpec => []FpgaUsedWhenConfigured
<1>1. EimInv => FpgaUsedWhenConfigured
  BY DEF EimInv, AccessInv
<1>. QED
  BY EimInitInv, EimStepInv, <1>1, PTL DEF EimSpec

-----------------------------------------------------------------------------
\* The translation of register numbers to bus addresses loses nothing: the
\* FPGA selects the segment, the core and the register the caller named
\* (tc_eim.c:67-79).
THEOREM TranslationRoundTrip ==
    ASSUME NEW segment \in 0 .. 7, NEW core \in 0 .. 31, NEW register \in 0 .. 255
    PROVE  LET a == eim_offset((segment * 32 + core) * CORE_SIZE + register)
           IN  /\ BusSegment(a) = segment
               /\ BusCore(a) = core
               /\ BusRegister(a) = register
<1>. DEFINE n == (segment * 32 + core) * CORE_SIZE + register
<1>1. n = segment * 8192 + (core * 256 + register)
  BY DEF CORE_SIZE
<1>2. n \div 8192 = segment /\ n % 8192 = core * 256 + register
  BY <1>1
<1>3. eim_offset(n) - EIM_BASE_ADDR = segment * 65536 + core * 1024 + register * 4
  BY <1>2 DEF eim_offset, EIM_BASE_ADDR
<1> DEFINE d == eim_offset(n) - EIM_BASE_ADDR
<1>4. BusSegment(eim_offset(n)) = segment
  <2>1. d = segment * 65536 + (core * 1024 + register * 4)
    BY <1>3
  <2>2. d \div 65536 = segment
    BY <2>1
  <2> QED BY <2>2 DEF BusSegment
<1>5. BusCore(eim_offset(n)) = core
  <2>1. d = (segment * 64 + core) * 1024 + register * 4
    BY <1>3
  <2>2. d \div 1024 = segment * 64 + core
    BY <2>1
  <2>3. (segment * 64 + core) % 64 = core
    OBVIOUS
  <2> QED BY <2>2, <2>3 DEF BusCore
<1>6. BusRegister(eim_offset(n)) = register
  <2>1. d = (segment * 16384 + core * 256 + register) * 4
    BY <1>3
  <2>2. d \div 4 = segment * 16384 + core * 256 + register
    BY <2>1
  <2>3. (segment * 16384 + core * 256 + register) % 256 = register
    OBVIOUS
  <2> QED BY <2>2, <2>3 DEF BusRegister
<1>. QED
  BY <1>4, <1>5, <1>6

-----------------------------------------------------------------------------
(* Induction over the natural numbers, for a property given as a set: what *)
(* it says of a k is that k is in the set.  It follows from the order being *)
(* well founded, by way of the least counterexample.                        *)

Down == {p \in Nat \X Nat : p[1] < p[2]}

\* The order of the naturals is well founded.
LEMMA DownWellFounded == IsWellFoundedOn(Down, Nat)
<1>1. OpToRel(<, Nat) = Down
  BY DEF OpToRel, Down
<1> QED BY <1>1, NatLessThanWellFounded

\* A set of naturals that is not empty has a least element.
LEMMA LeastElement ==
    ASSUME NEW T \in SUBSET Nat, T # {}
    PROVE  \E x \in T : \A y \in T : x <= y
<1>1. ASSUME NEW x \in Nat, NEW y \in Nat, <<y, x>> \notin Down
      PROVE  x <= y
  <2>1. ~(y < x)
    BY <1>1 DEF Down
  <2> QED BY <2>1
<1>2. PICK x \in T : \A y \in T : <<y, x>> \notin Down
  BY WFMin, DownWellFounded
<1>3. \A y \in T : x <= y
  BY <1>1, <1>2
<1> QED BY <1>3

\* What holds for 0 and, with every k, for k + 1, holds for every natural.
LEMMA Induction ==
    ASSUME NEW S, 0 \in S, \A k \in Nat : k \in S => k + 1 \in S
    PROVE  \A k \in Nat : k \in S
<1> DEFINE T == {k \in Nat : k \notin S}
<1> SUFFICES ASSUME T # {} PROVE FALSE
  OBVIOUS
<1>1. PICK x \in T : \A y \in T : x <= y
  BY LeastElement
<1>2. x # 0 /\ x \in Nat
  OBVIOUS
<1>3. x - 1 \in Nat /\ x - 1 \notin T
  BY <1>1, <1>2
<1>4. (x - 1) + 1 \in S
  BY <1>3
<1> QED BY <1>2, <1>4

\* A set of naturals with an upper bound has a greatest element.
LEMMA GreatestElement ==
    ASSUME NEW T \in SUBSET Nat, T # {}, NEW bound \in Nat, \A y \in T : y <= bound
    PROVE  \E x \in T : \A y \in T : y <= x
<1> DEFINE U == {k \in Nat : bound - k \in T}
<1>1. U \in SUBSET Nat /\ U # {}
  <2>1. PICK y \in T : TRUE
    OBVIOUS
  <2>2. bound - y \in Nat /\ bound - (bound - y) = y
    OBVIOUS
  <2>3. bound - y \in U
    BY <2>2
  <2> QED BY <2>3
<1>2. PICK k \in U : \A l \in U : k <= l
  BY <1>1, LeastElement
<1>3. k \in Nat /\ bound - k \in T
  OBVIOUS
<1>4. ASSUME NEW y \in T PROVE y <= bound - k
  <2>1. y \in Nat /\ y <= bound
    OBVIOUS
  <2>2. bound - y \in Nat /\ bound - (bound - y) = y
    BY <2>1
  <2>3. k <= bound - y
    BY <1>2, <2>2
  <2> QED BY <1>3, <2>1, <2>3
<1> QED BY <1>3, <1>4
-----------------------------------------------------------------------------
(* The programs.                                                           *)

\* Names is what a list entry or a core's name is made of.
Names == Seq(STRING)

ScenarioInv == scenario \in ToSet(Scenarios)

\* A core stays the core it was built as.
CoreFields == {"kind", "reg", "ctl", "op", "ready", "valid", "ptr", "acc"}
SameCore(c, kind) ==
    /\ DOMAIN c = CoreFields
    /\ c.kind = kind
    /\ kind = "plain" => c.op = "none"
SameIdentity(c, name, version) ==
    Reg(c, ADDR_NAME) = name /\ Reg(c, ADDR_VERSION) = version

CoresInv ==
    /\ DOMAIN cores = DOMAIN scenario.fabric
    /\ \A i \in DOMAIN cores : SameCore(cores[i], scenario.fabric[i].kind)
    /\ program.lookups # <<>> =>
         \A i \in DOMAIN cores :
            SameIdentity(cores[i], scenario.fabric[i].name, scenario.fabric[i].version)

\* The list holds the cores of the first slots, each with its base.
Entry == [name : Names, version : Names, base : Nat]
ListInv ==
    /\ found \in Seq(Entry)
    /\ Len(found) <= Slots /\ Len(found) <= Len(scenario.fabric)
    /\ slot \in {PROBED} \cup 0 .. Slots - 1
    /\ slot \in {PROBED, 0, Len(found)}
    /\ \A k \in 1 .. Len(found) : found[k].name = scenario.fabric[k].name
                                  /\ found[k].base = (k - 1) * CORE_SIZE

\* A base is that of a core of the name looked up.
IsBaseOf(base, name) ==
    \E j \in 1 .. Len(scenario.fabric) :
        /\ base = (j - 1) * CORE_SIZE /\ j <= Slots
        /\ IsPrefix(name, scenario.fabric[j].name)

BasesInv ==
    /\ bases \in Seq(Nat) /\ Len(bases) <= Len(program.lookups)
    /\ \A k \in 1 .. Len(bases) :
          \/ bases[k] = 0
          \/ IsBaseOf(bases[k], program.lookups[k])
    /\ outcome = "running" /\ program.onAbsent \in {"abort", "fail"} =>
          \A k \in 1 .. Len(bases) : bases[k] # 0

PlaceInv ==
    /\ outcome \in Outcomes
    /\ test \in DOMAIN program.tests
    /\ step \in DOMAIN program.tests[test].steps
    /\ round \in 1 .. Rounds

LogInv ==
    /\ log \in [late : BOOLEAN, alarms : SUBSET Alarms,
                owed : SUBSET DOMAIN cores, unheard : BOOLEAN,
                stale : BOOLEAN, stray : BOOLEAN]
    /\ RightCore

HostInv ==
    EimInv /\ ScenarioInv /\ CoresInv /\ ListInv /\ BasesInv /\ PlaceInv /\ LogInv

-----------------------------------------------------------------------------
(* Look-ups.                                                               *)

\* Min and Max of sets that have them are members.
LEMMA MinIsMember ==
    ASSUME NEW T \in SUBSET Nat, T # {}
    PROVE  Min(T) \in T
<1>1. PICK x \in T : \A y \in T : x <= y
  BY LeastElement
<1> QED BY <1>1 DEF Min

LEMMA MaxIsMember ==
    ASSUME NEW T \in SUBSET Nat, T # {}, NEW bound \in Nat, \A y \in T : y <= bound
    PROVE  Max(T) \in T
<1>1. PICK x \in T : \A y \in T : y <= x
  BY GreatestElement
<1>2. \A y \in T : x >= y
  BY <1>1
<1> QED BY <1>2 DEF Max

\* A search finds nothing, or a core of the name after the node it is given.
LEMMA FindIsMatch ==
    ASSUME NEW list \in Seq(Entry), NEW node \in Nat, NEW name
    PROVE  \/ tc_core_find(list, node, name) = NULL
           \/ /\ tc_core_find(list, node, name) \in 1 .. Len(list)
              /\ tc_core_find(list, node, name) > node
              /\ IsPrefix(name, list[tc_core_find(list, node, name)].name)
<1> DEFINE matches == {k \in node + 1 .. Len(list) : IsPrefix(name, list[k].name)}
<1>1. CASE matches = {}
  BY <1>1 DEF tc_core_find
<1>2. CASE matches # {}
  <2>1. matches \in SUBSET Nat
    OBVIOUS
  <2>2. Min(matches) \in matches
    BY <1>2, <2>1, MinIsMember
  <2>3. tc_core_find(list, node, name) = Min(matches)
    BY <1>2 DEF tc_core_find
  <2> QED BY <2>2, <2>3
<1> QED BY <1>1, <1>2

LEMMA FirstIsMatch ==
    ASSUME NEW list \in Seq(Entry), NEW name
    PROVE  \/ tc_core_first(list, name) = NULL
           \/ /\ tc_core_first(list, name) \in 1 .. Len(list)
              /\ IsPrefix(name, list[tc_core_first(list, name)].name)
BY FindIsMatch DEF tc_core_first

\* The base found by name is 0 or that of a core of the name.
LEMMA BaseIsOfName ==
    ASSUME NEW list \in Seq(Entry), NEW name
    PROVE  \/ tc_core_base(list, name) = 0
           \/ \E j \in 1 .. Len(list) : /\ tc_core_base(list, name) = list[j].base
                                        /\ IsPrefix(name, list[j].name)
BY FirstIsMatch DEF tc_core_base

\* The recursive function of HashScan, on NULL and the last k nodes.
ScanFrom(list, k) == {0} \cup {node \in 1 .. Len(list) : node + k > Len(list)}
ScanTurn(list, scan, node) ==
    IF node = NULL \/ NoNeighbour(list, node) THEN <<node>>
    ELSE <<node>> \o scan[tc_core_next(list, node, <<"sha">>)]
IsScan(list, scan, k) ==
    scan = [node \in ScanFrom(list, k) |-> ScanTurn(list, scan, node)]

\* The search from a node goes to NULL or to a later one.
LEMMA NextIsLater ==
    ASSUME NEW list \in Seq(Entry), NEW k \in Nat, NEW node \in ScanFrom(list, k + 1),
           node # NULL, ~NoNeighbour(list, node)
    PROVE  tc_core_next(list, node, <<"sha">>) \in ScanFrom(list, k)
<1>1. node \in 1 .. Len(list) /\ NextNode(list, node) = node + 1
  BY DEF ScanFrom, NoNeighbour, NextNode, NULL
<1>2. node + 1 \in Nat
  BY <1>1
<1>3. tc_core_next(list, node, <<"sha">>) = tc_core_find(list, node + 1, <<"sha">>)
  BY <1>1 DEF tc_core_next
<1>4. \/ tc_core_find(list, node + 1, <<"sha">>) = NULL
      \/ /\ tc_core_find(list, node + 1, <<"sha">>) \in 1 .. Len(list)
         /\ tc_core_find(list, node + 1, <<"sha">>) > node + 1
  BY <1>2, FindIsMatch
<1>5. node + (k + 1) > Len(list)
  BY DEF ScanFrom, NULL
<1> QED BY <1>1, <1>3, <1>4, <1>5 DEF ScanFrom, NULL

LEMMA ScansExist ==
    ASSUME NEW list \in Seq(Entry), NEW k \in Nat
    PROVE  \E scan : IsScan(list, scan, k)
<1> DEFINE S == {l \in Nat : \E scan : IsScan(list, scan, l)}
<1>1. 0 \in S
  <2> DEFINE scan == [node \in {0} |-> <<node>>]
  <2>1. ScanFrom(list, 0) = {0}
    BY DEF ScanFrom
  <2>2. \A node \in {0} : ScanTurn(list, scan, node) = <<node>>
    BY DEF ScanTurn, NULL
  <2>3. IsScan(list, scan, 0)
    BY <2>1, <2>2 DEF IsScan
  <2> QED BY <2>3
<1>2. ASSUME NEW l \in Nat, l \in S PROVE l + 1 \in S
  <2>1. PICK f : IsScan(list, f, l)
    BY <1>2
  <2> DEFINE g == [node \in ScanFrom(list, l + 1) |-> ScanTurn(list, f, node)]
  <2>2. ScanFrom(list, l) \subseteq ScanFrom(list, l + 1)
    BY DEF ScanFrom
  <2>3. \A node \in ScanFrom(list, l) : g[node] = f[node]
    BY <2>1, <2>2 DEF IsScan
  <2>4. ASSUME NEW node \in ScanFrom(list, l + 1)
        PROVE  ScanTurn(list, f, node) = ScanTurn(list, g, node)
    <3>1. CASE node = NULL \/ NoNeighbour(list, node)
      BY <3>1 DEF ScanTurn
    <3>2. CASE node # NULL /\ ~NoNeighbour(list, node)
      <4>1. tc_core_next(list, node, <<"sha">>) \in ScanFrom(list, l)
        BY <3>2, NextIsLater
      <4>2. g[tc_core_next(list, node, <<"sha">>)] = f[tc_core_next(list, node, <<"sha">>)]
        BY <2>3, <4>1
      <4> QED BY <4>2 DEF ScanTurn
    <3> QED BY <3>1, <3>2
  <2>5. g = [node \in ScanFrom(list, l + 1) |-> ScanTurn(list, g, node)]
    BY <2>4
  <2>6. IsScan(list, g, l + 1)
    BY <2>5 DEF IsScan
  <2> QED BY <2>6
<1> HIDE DEF S
<1>3. k \in S
  BY <1>1, <1>2, Induction
<1> QED BY <1>3 DEF S

\* It goes through nodes of the list, and NULL.
LEMMA ScanVisitsNodes ==
    ASSUME NEW list \in Seq(Entry), NEW n \in Nat, NEW scan, IsScan(list, scan, n),
           NEW k \in Nat, k <= n
    PROVE  \A node \in ScanFrom(list, k) : scan[node] \in Seq(0 .. Len(list))
<1> DEFINE S == {l \in Nat : l <= n =>
                    \A node \in ScanFrom(list, l) : scan[node] \in Seq(0 .. Len(list))}
<1>1. \A l \in 0 .. n : ScanFrom(list, l) \subseteq ScanFrom(list, n)
  BY DEF ScanFrom
<1>2. \A node \in ScanFrom(list, n) : scan[node] = ScanTurn(list, scan, node)
  BY DEF IsScan
<1>3. \A l \in Nat : \A node \in ScanFrom(list, l) : node \in 0 .. Len(list)
  BY DEF ScanFrom
<1>4. 0 \in S
  <2>1. ScanFrom(list, 0) = {0} /\ 0 \in ScanFrom(list, n)
    BY DEF ScanFrom
  <2>2. scan[0] = <<0>>
    BY <1>2, <2>1 DEF ScanTurn, NULL
  <2>3. <<0>> \in Seq(0 .. Len(list))
    OBVIOUS
  <2> QED BY <2>1, <2>2, <2>3
<1>5. ASSUME NEW l \in Nat, l \in S PROVE l + 1 \in S
  <2> SUFFICES ASSUME l + 1 <= n, NEW node \in ScanFrom(list, l + 1)
               PROVE  scan[node] \in Seq(0 .. Len(list))
    OBVIOUS
  <2>1. node \in ScanFrom(list, n) /\ node \in 0 .. Len(list)
    BY <1>1, <1>3
  <2>2. scan[node] = ScanTurn(list, scan, node) /\ <<node>> \in Seq(0 .. Len(list))
    BY <1>2, <2>1
  <2>3. CASE node = NULL \/ NoNeighbour(list, node)
    BY <2>2, <2>3 DEF ScanTurn
  <2>4. CASE node # NULL /\ ~NoNeighbour(list, node)
    <3>1. tc_core_next(list, node, <<"sha">>) \in ScanFrom(list, l)
      BY <2>4, NextIsLater
    <3>2. scan[tc_core_next(list, node, <<"sha">>)] \in Seq(0 .. Len(list))
      BY <1>5, <3>1
    <3>3. scan[node] = <<node>> \o scan[tc_core_next(list, node, <<"sha">>)]
      BY <2>2, <2>4 DEF ScanTurn
    <3> QED BY <2>2, <3>2, <3>3
  <2> QED BY <2>3, <2>4
<1> HIDE DEF S
<1>6. k \in S
  BY <1>4, <1>5, Induction
<1> QED BY <1>6 DEF S

LEMMA HashScanVisitsNodes ==
    ASSUME NEW list \in Seq(Entry)
    PROVE  HashScan(list) \in Seq(0 .. Len(list))
<1> DEFINE n == Len(list)
           first == tc_core_first(list, <<"sha">>)
           F == CHOOSE scan : scan =
                  [node \in NULL .. Len(list) |->
                     IF node = NULL \/ NoNeighbour(list, node) THEN <<node>>
                     ELSE <<node>> \o scan[tc_core_next(list, node, <<"sha">>)]]
<1>1. n \in Nat /\ ScanFrom(list, n) = NULL .. Len(list)
  BY DEF ScanFrom, NULL
<1>2. \A scan : IsScan(list, scan, n) <=>
         scan = [node \in NULL .. Len(list) |->
                     IF node = NULL \/ NoNeighbour(list, node) THEN <<node>>
                     ELSE <<node>> \o scan[tc_core_next(list, node, <<"sha">>)]]
  BY <1>1 DEF IsScan, ScanTurn
<1>3. \E scan : IsScan(list, scan, n)
  BY <1>1, ScansExist
<1>4. IsScan(list, F, n)
  BY <1>2, <1>3
<1>5. \A node \in ScanFrom(list, n) : F[node] \in Seq(0 .. Len(list))
  <2> HIDE DEF F
  <2>1. n <= n
    BY <1>1
  <2> HIDE DEF n
  <2> QED BY <1>1, <1>4, <2>1, ScanVisitsNodes
<1>6. first \in NULL .. Len(list)
  BY FirstIsMatch DEF NULL
<1>7. HashScan(list) = F[first]
  BY DEF HashScan
<1> QED BY <1>1, <1>5, <1>6, <1>7

\* The base hash.c finds is 0 or that of a core of the name.
LEMMA ScannedBaseIsOfName ==
    ASSUME NEW list \in Seq(Entry), NEW name \in Names
    PROVE  \/ ScannedBase(list, name) = 0
           \/ \E j \in 1 .. Len(list) : /\ ScannedBase(list, name) = list[j].base
                                        /\ IsPrefix(name, list[j].name)
<1> DEFINE visited == HashScan(list)
           hits == {k \in 1 .. Len(visited) : /\ visited[k] # NULL
                                              /\ list[visited[k]].name = name}
<1>1. visited \in Seq(0 .. Len(list))
  BY HashScanVisitsNodes
<1>2. ScannedBase(list, name) = IF hits = {} THEN 0 ELSE list[visited[Max(hits)]].base
  BY DEF ScannedBase
<1> HIDE DEF visited
<1>3. CASE hits # {}
  <2>1. Max(hits) \in hits
    <3>1. hits \in SUBSET Nat /\ Len(visited) \in Nat /\ \A y \in hits : y <= Len(visited)
      BY <1>1
    <3> QED BY <1>3, <3>1, MaxIsMember
  <2>2. visited[Max(hits)] \in 1 .. Len(list) /\ list[visited[Max(hits)]].name = name
    BY <1>1, <2>1 DEF NULL
  <2>3. IsPrefix(name, name)
    BY DEF IsPrefix, Names
  <2> QED BY <1>2, <1>3, <2>2, <2>3
<1> QED BY <1>2, <1>3

-----------------------------------------------------------------------------
(* The bus.                                                                *)

\* A call is a step of the access layer, or none.  Over EIM it reaches the
\* bus address of its register number.
LEMMA CallStep ==
    ASSUME EimInv, NEW offset \in Nat, Call(offset)
    PROVE  /\ [EimNext]_eimVars
           /\ EimInv'
           /\ program.bus = "eim" => access'.reached = eim_offset(offset)
<1>1. CASE program.bus = "eim"
  <2>1. eim_offset(offset) \in FpgaAddresses
    BY DEF eim_offset, EIM_BASE_ADDR, FpgaAddresses
  <2>2. Use(eim_offset(offset))
    BY <1>1 DEF Call
  <2>3. EimNext
    BY <2>1, <2>2 DEF EimNext
  <2>4. access' = [asked |-> eim_offset(offset), reached |-> eim_offset(offset)]
    BY <2>1, <2>2, AccessStep DEF EimInv, Use, FpgaAddresses
  <2> QED BY <2>3, <2>4, EimStepInv
<1>2. CASE program.bus # "eim"
  <2>1. UNCHANGED eimVars
    BY <1>2 DEF Call
  <2> QED BY <1>2, <2>1, EimStepInv
<1> QED BY <1>1, <1>2

\* There are 256 slots for cores.
LEMMA SlotCount == Slots = 256
BY DEF Slots, CORE_SIZE

LEMMA SlotType == ASSUME NEW k \in 0 .. Slots - 1 PROVE k \in Nat
BY SlotCount

\* A register of one of the first 256 slots is reached where it is.
LEMMA SlotReached ==
    ASSUME NEW k \in 0 .. Slots - 1, NEW r \in 0 .. CORE_SIZE - 1
    PROVE  LET a == eim_offset(k * CORE_SIZE + r)
           IN  /\ BusSegment(a) * 32 + BusCore(a) + 1 = k + 1
               /\ BusRegister(a) = r
<1>1. k \in 0 .. 255 /\ r \in 0 .. 255
  BY DEF Slots, CORE_SIZE
<1> DEFINE segment == k \div 32
           core == k % 32
<1>2. segment \in 0 .. 7 /\ core \in 0 .. 31 /\ segment * 32 + core = k
  BY <1>1
<1> HIDE DEF segment, core
<1>3. segment \in 0 .. 7 /\ core \in 0 .. 31 /\ r \in 0 .. 255
  BY <1>1, <1>2
<1> DEFINE a == eim_offset((segment * 32 + core) * CORE_SIZE + r)
<1>4. BusSegment(a) = segment
  BY ONLY <1>3, TranslationRoundTrip, ZenonT(40)
<1>5. BusCore(a) = core
  BY ONLY <1>3, TranslationRoundTrip, ZenonT(40)
<1>6. BusRegister(a) = r
  BY ONLY <1>3, TranslationRoundTrip, ZenonT(40)
<1> QED BY <1>2, <1>4, <1>5, <1>6

-----------------------------------------------------------------------------
(* The cores.                                                              *)

LEMMA NewCoreIsItself ==
    ASSUME NEW kind \in Kinds, NEW name, NEW version
    PROVE  SameCore(NewCore(kind, name, version), kind)
           /\ SameIdentity(NewCore(kind, name, version), name, version)
BY DEF NewCore, SameCore, SameIdentity, CoreFields, Reg, ADDR_NAME, ADDR_VERSION

\* A register kept leaves the core what it is, and its identity when it is
\* none of its registers.
LEMMA KeepIsSame ==
    ASSUME NEW c, NEW a, NEW v, NEW kind, SameCore(c, kind)
    PROVE  SameCore(Keep(c, a, v), kind)
BY DEF Keep, SameCore, CoreFields

LEMMA KeepElsewhere ==
    ASSUME NEW c, NEW a, NEW v, NEW name, NEW version, NEW kind, SameCore(c, kind),
           SameIdentity(c, name, version), a \notin {ADDR_NAME, ADDR_VERSION}
    PROVE  SameIdentity(Keep(c, a, v), name, version)
BY DEF Keep, Put, SameCore, SameIdentity, Reg, CoreFields

LEMMA SetPointerIsSame ==
    ASSUME NEW c, NEW p, NEW n, NEW kind, SameCore(c, kind)
    PROVE  SameCore(SetPointer(c, p, n), kind)
BY DEF SetPointer, SameCore, CoreFields

LEMMA SetPointerElsewhere ==
    ASSUME NEW c, NEW p, NEW n, NEW name, NEW version, NEW kind, SameCore(c, kind),
           SameIdentity(c, name, version)
    PROVE  SameIdentity(SetPointer(c, p, n), name, version)
BY DEF SetPointer, SameCore, SameIdentity, Reg, CoreFields

\* A command changes no register.
LEMMA CommandKeeps ==
    ASSUME NEW c, NEW w, NEW kind, SameCore(c, kind)
    PROVE  SameCore(Command(c, w), kind) /\ Command(c, w).reg = c.reg
<1>1. SameCore(Lowered(c, w), kind) /\ Lowered(c, w).reg = c.reg
  BY DEF Lowered, SameCore, CoreFields
<1>2. CASE c.kind = "plain" \/ Deaf(c)
  BY <1>2 DEF Command
<1>3. CASE c.kind # "plain" /\ ~Deaf(c) /\ Begun(c, w) = "none"
  <2>1. Command(c, w) = [Lowered(c, w) EXCEPT !.ctl = w]
    BY <1>3 DEF Command
  <2> QED BY <1>1, <2>1 DEF SameCore, CoreFields
<1>4. CASE c.kind # "plain" /\ ~Deaf(c) /\ Begun(c, w) # "none"
  <2> DEFINE op == Begun(c, w)
  <2>1. Command(c, w) = [c EXCEPT !.ctl = w, !.op = op,
                       !.ready = ReadyDuring(c, op), !.valid = ValidDuring(c, op)]
    BY <1>4 DEF Command
  <2> HIDE DEF op
  <2> QED BY <1>4, <2>1 DEF SameCore, CoreFields
<1> QED BY <1>2, <1>3, <1>4

\* What a write does, whatever the core is.
LEMMA WriteForms ==
    ASSUME NEW c, NEW a, NEW v
    PROVE  \/ Write(c, a, v) = c
           \/ Write(c, a, v) = Command(c, v)
           \/ \E p, n : Write(c, a, v) = SetPointer(c, p, n)
           \/ \E p, n, x : Write(c, a, v) = SetPointer(Keep(c, a, x), p, n)
           \/ \E x : Write(c, a, v) = Keep(c, a, x)
BY DEF Write, WriteRegister

LEMMA WriteIsSame ==
    ASSUME NEW c, NEW a, NEW v, NEW kind, SameCore(c, kind)
    PROVE  SameCore(Write(c, a, v), kind)
BY WriteForms, CommandKeeps, SetPointerIsSame, KeepIsSame

LEMMA WriteElsewhere ==
    ASSUME NEW c, NEW a, NEW v, NEW name, NEW version, NEW kind, SameCore(c, kind),
           SameIdentity(c, name, version), a \notin {ADDR_NAME, ADDR_VERSION}
    PROVE  SameIdentity(Write(c, a, v), name, version)
<1>1. SameIdentity(Command(c, v), name, version)
  BY CommandKeeps DEF SameIdentity, Reg
<1> QED BY <1>1, WriteForms, SetPointerElsewhere, KeepElsewhere, KeepIsSame

LEMMA AfterReadKeeps ==
    ASSUME NEW c, NEW a, NEW name, NEW version, NEW kind, SameCore(c, kind)
    PROVE  /\ SameCore(AfterRead(c, a), kind)
           /\ SameIdentity(c, name, version) => SameIdentity(AfterRead(c, a), name, version)
<1>1. AfterRead(c, a) = c \/ \E p, n : AfterRead(c, a) = SetPointer(c, p, n)
  BY DEF AfterRead
<1> QED BY <1>1, SetPointerIsSame, SetPointerElsewhere

\* acc is no register.
LEMMA AccKeeps ==
    ASSUME NEW c, NEW v, NEW name, NEW version, NEW kind, SameCore(c, kind),
           SameIdentity(c, name, version)
    PROVE  /\ SameCore([c EXCEPT !.acc = v], kind)
           /\ SameIdentity([c EXCEPT !.acc = v], name, version)
BY DEF SameCore, SameIdentity, Reg, CoreFields

\* The registers results are left in are none of a core's identity.
ResultRegisters ==
    {ADDR_DIGEST, SHA512_ADDR_DIGEST, SHA3_STATE, AES_ADDR_RESULT,
     DataPort(MODEXP_RESULT_PTR_RST), S6_RESULT, A7_COEFF_OUT, A7_FACTOR_OUT,
     A7_RESULT, EC_XOUT, EC_YOUT}

LEMMA ResultsElsewhere ==
    \A a \in ResultRegisters : a \notin {ADDR_NAME, ADDR_VERSION}
BY DEF ResultRegisters, ADDR_DIGEST, SHA512_ADDR_DIGEST, SHA3_STATE, AES_ADDR_RESULT,
       DataPort, MODEXP_RESULT_PTR_RST, S6_RESULT, A7_COEFF_OUT, A7_FACTOR_OUT,
       A7_RESULT, EC_XOUT, EC_YOUT, ADDR_NAME, ADDR_VERSION

\* What an operation leaves, whatever it computes.
LEMMA ComputedForms ==
    ASSUME NEW c, c.kind \in Kinds, c.kind # "plain"
    PROVE  \/ \E x : Computed(c) = [c EXCEPT !.acc = x]
           \/ \E a \in ResultRegisters : \E x : Computed(c) = Keep(c, a, x)
           \/ \E a, b \in ResultRegisters : \E x, y :
                 Computed(c) = Keep(Keep(c, a, x), b, y)
           \/ \E a \in ResultRegisters : \E x, z :
                 Computed(c) = [Keep(c, a, x) EXCEPT !.acc = z]
           \/ \E a, b \in ResultRegisters : \E x, y, z :
                 Computed(c) = [Keep(Keep(c, a, x), b, y) EXCEPT !.acc = z]
<1>0. ADDR_DIGEST \in ResultRegisters /\ SHA512_ADDR_DIGEST \in ResultRegisters
  BY DEF ResultRegisters
<1>1. CASE c.kind \in HashCores
  <2>1. PICK x : Computed(c) =
          [Keep(Keep(c, ADDR_DIGEST, x), SHA512_ADDR_DIGEST, x) EXCEPT !.acc = x]
    BY <1>1 DEF Computed, HashCores
  <2>2. \E x1, y, z : Computed(c) =
          [Keep(Keep(c, ADDR_DIGEST, x1), SHA512_ADDR_DIGEST, y) EXCEPT !.acc = z]
    BY <2>1
  <2> QED BY <1>0, <2>2, Zenon
<1>2. CASE c.kind = "keccak"
  <2>1. \E x : Computed(c) = [Keep(c, SHA3_STATE, x) EXCEPT !.acc = x]
    BY <1>2 DEF Computed, HashCores
  <2> QED BY <2>1 DEF ResultRegisters
<1>3. CASE c.kind = "aes"
  <2>1. \/ \E x : Computed(c) = [c EXCEPT !.acc = x]
        \/ \E x : Computed(c) = Keep(c, AES_ADDR_RESULT, x)
    BY <1>3 DEF Computed, HashCores
  <2> QED BY <2>1 DEF ResultRegisters
<1>4. CASE c.kind = "modexp"
  <2>1. \E x : Computed(c) = Keep(c, DataPort(MODEXP_RESULT_PTR_RST), x)
    BY <1>4 DEF Computed, HashCores
  <2> QED BY <2>1 DEF ResultRegisters
<1>5. CASE c.kind = "modexps6"
  <2>1. \/ \E x : Computed(c) = [c EXCEPT !.acc = x]
        \/ \E x : Computed(c) = Keep(c, S6_RESULT, x)
    BY <1>5 DEF Computed, HashCores
  <2> QED BY <2>1 DEF ResultRegisters
<1>6. CASE c.kind = "modexpa7"
  <2>1. \/ \E x, y : Computed(c) = Keep(Keep(c, A7_COEFF_OUT, x), A7_FACTOR_OUT, y)
        \/ \E x : Computed(c) = Keep(c, A7_RESULT, x)
    BY <1>6 DEF Computed, HashCores
  <2> QED BY <2>1 DEF ResultRegisters
<1>7. CASE c.kind = "ec"
  <2>1. \E x, y : Computed(c) = Keep(Keep(c, EC_XOUT, x), EC_YOUT, y)
    BY <1>7 DEF Computed, HashCores
  <2> QED BY <2>1 DEF ResultRegisters
<1> QED BY <1>1, <1>2, <1>3, <1>4, <1>5, <1>6, <1>7 DEF Kinds, HashCores

\* An operation leaves its core what it is.
LEMMA FinishedKeeps ==
    ASSUME NEW c, NEW name, NEW version, NEW kind \in Kinds, SameCore(c, kind),
           kind # "plain"
    PROVE  /\ SameCore(Finished(c), kind)
           /\ SameIdentity(c, name, version) => SameIdentity(Finished(c), name, version)
<1> DEFINE d == Computed(c)
<1>1. c.kind \in Kinds /\ c.kind # "plain"
  BY DEF SameCore
<1> DEFINE Fits(x) == /\ SameCore(x, kind)
                      /\ SameIdentity(c, name, version) => SameIdentity(x, name, version)
<1>2. ASSUME NEW x, NEW y, Fits(x) PROVE Fits([x EXCEPT !.acc = y])
  <2>1. SameCore([x EXCEPT !.acc = y], kind)
    BY <1>2 DEF SameCore, CoreFields
  <2> QED BY <1>2, <2>1, AccKeeps
<1>3. ASSUME NEW x, NEW a \in ResultRegisters, NEW y, Fits(x) PROVE Fits(Keep(x, a, y))
  <2>1. SameCore(Keep(x, a, y), kind)
    BY <1>3, KeepIsSame
  <2>2. SameIdentity(x, name, version) => SameIdentity(Keep(x, a, y), name, version)
    BY <1>3, KeepElsewhere, ResultsElsewhere
  <2> QED BY <1>3, <2>1, <2>2
<1>4. Fits(c)
  OBVIOUS
<1>5. Fits(d)
  <2> HIDE DEF Fits
  <2>1. CASE \E x : d = [c EXCEPT !.acc = x]
    BY <1>2, <1>4, <2>1
  <2>2. CASE \E a \in ResultRegisters : \E x : d = Keep(c, a, x)
    BY <1>3, <1>4, <2>2
  <2>3. CASE \E a, b \in ResultRegisters : \E x, y : d = Keep(Keep(c, a, x), b, y)
    BY <1>3, <1>4, <2>3
  <2>4. CASE \E a \in ResultRegisters : \E x, z : d = [Keep(c, a, x) EXCEPT !.acc = z]
    BY <1>2, <1>3, <1>4, <2>4, SMTT(30)
  <2>5. CASE \E a, b \in ResultRegisters : \E x, y, z :
                d = [Keep(Keep(c, a, x), b, y) EXCEPT !.acc = z]
    BY <1>2, <1>3, <1>4, <2>5
  <2> QED BY <1>1, <2>1, <2>2, <2>3, <2>4, <2>5, ComputedForms
<1>6. PICK r, v : Finished(c) = [d EXCEPT !.op = "none", !.ready = r, !.valid = v]
  BY DEF Finished
<1> HIDE DEF d
<1>7. Finished(c).reg = d.reg /\ SameCore(Finished(c), kind)
  BY <1>5, <1>6 DEF SameCore, CoreFields
<1> QED BY <1>5, <1>7 DEF SameIdentity, Reg

-----------------------------------------------------------------------------
(* The program's place in its script.                                      *)

LEMMA ScenarioFacts ==
    ASSUME ScenarioInv
    PROVE  WellFormed(scenario) /\ WellFormedProgram(program)
BY ScenariosAssumption DEF ScenarioInv, WellFormed, program

LEMMA Places ==
    ASSUME ScenarioInv
    PROVE  /\ Len(program.tests) \in Nat \ {0}
           /\ DOMAIN program.tests = 1 .. Len(program.tests)
           /\ program.loop \in 0 .. Len(program.tests)
           /\ \A t \in DOMAIN program.tests :
                /\ WellFormedTest(program, program.tests[t])
                /\ Len(program.tests[t].steps) \in Nat \ {0}
                /\ DOMAIN program.tests[t].steps = 1 .. Len(program.tests[t].steps)
<1>1. WellFormedProgram(program)
  BY ScenarioFacts
<1>2. ASSUME NEW s, s # <<>>, s \in Seq(ToSet(s))
      PROVE  Len(s) \in Nat \ {0} /\ DOMAIN s = 1 .. Len(s)
  BY <1>2
<1>3. Len(program.tests) \in Nat \ {0} /\ DOMAIN program.tests = 1 .. Len(program.tests)
  BY <1>1, <1>2 DEF WellFormedProgram
<1>4. ASSUME NEW t \in DOMAIN program.tests
      PROVE  /\ WellFormedTest(program, program.tests[t])
             /\ Len(program.tests[t].steps) \in Nat \ {0}
             /\ DOMAIN program.tests[t].steps = 1 .. Len(program.tests[t].steps)
  <2>1. WellFormedTest(program, program.tests[t])
    BY <1>1 DEF WellFormedProgram
  <2> QED BY <1>2, <2>1 DEF WellFormedTest
<1> QED BY <1>1, <1>3, <1>4 DEF WellFormedProgram

LEMMA NextRoundPlace ==
    ASSUME ScenarioInv, PlaceInv, UNCHANGED scenario, NextRound, step' = 1
    PROVE  PlaceInv'
<1>1. program' = program
  BY DEF program
<1>2. \A t \in DOMAIN program.tests : 1 \in DOMAIN program.tests[t].steps
  BY Places
<1>3. test' \in DOMAIN program.tests /\ outcome' \in Outcomes
  BY Places DEF NextRound, PlaceInv, Outcomes
<1>4. round' \in 1 .. Rounds
  BY RoundsAssumption DEF NextRound, PlaceInv
<1> QED BY <1>1, <1>2, <1>3, <1>4 DEF PlaceInv

LEMMA TestPassesPlace ==
    ASSUME ScenarioInv, PlaceInv, UNCHANGED scenario, TestPasses
    PROVE  PlaceInv'
<1>1. program' = program
  BY DEF program
<1>2. CASE test < Len(program.tests)
  <2>1. step' = 1 /\ test' = test + 1 /\ UNCHANGED <<round, outcome>>
    BY <1>2 DEF TestPasses
  <2>2. test + 1 \in DOMAIN program.tests
    BY <1>2, Places DEF PlaceInv
  <2>3. 1 \in DOMAIN program.tests[test + 1].steps
    BY <2>2, Places
  <2> QED BY <1>1, <2>1, <2>2, <2>3 DEF PlaceInv
<1>3. CASE ~(test < Len(program.tests))
  BY <1>3, NextRoundPlace DEF TestPasses
<1> QED BY <1>2, <1>3

LEMMA StepPassesPlace ==
    ASSUME ScenarioInv, PlaceInv, UNCHANGED scenario, StepPasses
    PROVE  PlaceInv'
<1>1. program' = program
  BY DEF program
<1>2. CASE step < Len(current.steps)
  <2>1. step' = step + 1 /\ UNCHANGED <<test, round, outcome>>
    BY <1>2 DEF StepPasses
  <2>2. step + 1 \in DOMAIN program.tests[test].steps
    BY <1>2, Places DEF PlaceInv, current
  <2> QED BY <1>1, <2>1, <2>2 DEF PlaceInv
<1>3. CASE ~(step < Len(current.steps))
  <2>1. TestPasses
    BY <1>3 DEF StepPasses
  <2> QED BY <2>1, TestPassesPlace
<1> QED BY <1>2, <1>3

LEMMA StepFailsPlace ==
    ASSUME ScenarioInv, PlaceInv, UNCHANGED scenario, StepFails
    PROVE  PlaceInv'
<1>1. CASE this.strict
  <2>1. TestFails /\ program' = program
    BY <1>1 DEF StepFails, program
  <2>2. CASE current.onFail = "round"
    <3>1. NextRound /\ step' = 1
      BY <2>1, <2>2 DEF TestFails
    <3> QED BY <3>1, NextRoundPlace
  <2>3. CASE current.onFail # "round"
    <3>1. current.onFail \in {"exit", "stop", "halt"}
      BY <2>3, Places DEF PlaceInv, current, WellFormedTest
    <3>2. /\ step' = 1 /\ UNCHANGED <<test, round>>
          /\ outcome' \in {"failure", "success", "halted"}
      BY <2>1, <2>3, <3>1 DEF TestFails
    <3>3. 1 \in DOMAIN program.tests[test].steps
      BY Places DEF PlaceInv
    <3> QED BY <2>1, <3>2, <3>3 DEF PlaceInv, Outcomes
  <2> QED BY <2>2, <2>3
<1>2. CASE ~this.strict
  BY <1>2, StepPassesPlace DEF StepFails
<1> QED BY <1>1, <1>2

-----------------------------------------------------------------------------
(* Accesses.                                                               *)

\* A step of a program that looks cores up: where it is in the address space.
LEMMA StepAddress ==
    ASSUME HostInv, AtStep, program.lookups # <<>>
    PROVE  \E k \in 0 .. Slots - 1 :
              /\ base_addr = k * CORE_SIZE
              /\ this.at \in 0 .. CORE_SIZE - 1
              /\ address = k * CORE_SIZE + this.at
              /\ \/ current.core = 0
                 \/ /\ k + 1 \in DOMAIN scenario.fabric
                    /\ IsPrefix(program.lookups[current.core], scenario.fabric[k + 1].name)
                 \/ scenario.quiet \/ program.onAbsent = "test"
<1>1. WellFormedProgram(program) /\ WellFormedTest(program, current)
      /\ WellFormedStep(program, this)
  BY ScenarioFacts, Places DEF HostInv, PlaceInv, current, this, WellFormedTest
<1>2. this.at \in 0 .. CORE_SIZE - 1
  <2>1. this.at \in Nat /\ this.at < CORE_SIZE
    BY <1>1 DEF WellFormedStep
  <2>2. \A x \in Nat : x < CORE_SIZE => x \in 0 .. CORE_SIZE - 1
    BY DEF CORE_SIZE
  <2> QED BY <2>1, <2>2
<1>3. DOMAIN program.lookups = 1 .. Len(program.lookups) /\ Len(program.lookups) \in Nat
  BY <1>1 DEF WellFormedProgram
<1>4. Len(bases) \in Nat /\ Len(bases) = Len(program.lookups)
  <2>1. Len(bases) \in Nat /\ Len(bases) <= Len(program.lookups)
    <3>1. bases \in Seq(Nat) /\ Len(bases) <= Len(program.lookups)
      BY DEF HostInv, BasesInv
    <3> QED BY <3>1
  <2>2. ~(Len(bases) < Len(program.lookups))
    BY DEF AtStep, Testing, Searching
  <2> QED BY <1>3, <2>1, <2>2
<1>5. CASE base_addr = 0
  <2>1. 0 \in 0 .. Slots - 1 /\ base_addr = 0 * CORE_SIZE
        /\ address = 0 * CORE_SIZE + this.at
    BY <1>2, <1>5 DEF address, CORE_SIZE, Slots
  <2>2. current.core = 0 \/ scenario.quiet \/ program.onAbsent = "test"
    <3>1. CASE current.core # 0 /\ program.onAbsent = "skip"
      BY <1>5, <3>1 DEF AtStep, Skipped, Absent
    <3>2. CASE current.core # 0 /\ program.onAbsent \in {"abort", "fail"}
      <4>1. current.core \in 1 .. Len(bases) /\ bases[current.core] = 0
        BY <1>1, <1>3, <1>4, <1>5, <3>2 DEF WellFormedTest, base_addr
      <4> QED BY <3>2, <4>1 DEF HostInv, BasesInv, AtStep, Testing
    <3> QED BY <1>1, <3>1, <3>2 DEF WellFormedProgram
  <2> QED BY <1>2, <2>1, <2>2
<1>6. CASE base_addr # 0
  <2>1. current.core \in 1 .. Len(bases) /\ base_addr = bases[current.core]
    BY <1>1, <1>3, <1>4, <1>6 DEF WellFormedTest, base_addr
  <2>2. PICK j \in 1 .. Len(scenario.fabric) :
          /\ base_addr = (j - 1) * CORE_SIZE /\ j <= Slots
          /\ IsPrefix(program.lookups[current.core], scenario.fabric[j].name)
    <3>1. IsBaseOf(bases[current.core], program.lookups[current.core])
      BY <1>6, <2>1 DEF HostInv, BasesInv
    <3> QED BY <2>1, <3>1 DEF IsBaseOf
  <2>3. DOMAIN scenario.fabric = 1 .. Len(scenario.fabric)
        /\ Len(scenario.fabric) \in Nat
    BY ScenarioFacts DEF HostInv, WellFormed
  <2> DEFINE k == j - 1
  <2>4. k \in 0 .. Slots - 1 /\ k + 1 = j
    BY <2>2, <2>3 DEF Slots, CORE_SIZE
  <2>5. base_addr = k * CORE_SIZE /\ k + 1 \in DOMAIN scenario.fabric
    BY <2>2, <2>3, <2>4
  <2> HIDE DEF k
  <2> QED BY <1>2, <2>2, <2>4, <2>5 DEF address
<1> QED BY <1>5, <1>6

\* A step reaches the register it names, of the core it is for unless the
\* program was told not to mind.
LEMMA StepReaches ==
    ASSUME HostInv, AtStep, Call(address),
           NEW i, i = CalledCore(address), NEW r, r = CalledRegister(address)
    PROVE  /\ [EimNext]_eimVars /\ EimInv'
           /\ program.lookups # <<>> => r = this.at
           /\ Strayed(i) \in BOOLEAN
           /\ Strayed(i) => scenario.quiet \/ program.onAbsent = "test"
<1>0. Strayed(i) \in BOOLEAN
  BY DEF Strayed
<1>1. CASE program.lookups = <<>>
  <2>1. WellFormedTest(program, current) /\ WellFormedStep(program, this)
    BY Places DEF HostInv, PlaceInv, current, this, WellFormedTest
  <2>2. current.core = 0 /\ this.at \in Nat
    BY <1>1, <2>1 DEF WellFormedTest, WellFormedStep
  <2>3. address \in Nat
    BY <2>2 DEF address, base_addr
  <2>4. ~Strayed(i)
    BY <2>2 DEF Strayed
  <2> QED BY <1>0, <1>1, <2>3, <2>4, CallStep DEF HostInv
<1>2. CASE program.lookups # <<>>
  <2>1. PICK k \in 0 .. Slots - 1 :
              /\ this.at \in 0 .. CORE_SIZE - 1
              /\ address = k * CORE_SIZE + this.at
              /\ \/ current.core = 0
                 \/ /\ k + 1 \in DOMAIN scenario.fabric
                    /\ IsPrefix(program.lookups[current.core], scenario.fabric[k + 1].name)
                 \/ scenario.quiet \/ program.onAbsent = "test"
    BY <1>2, StepAddress
  <2>2. address \in Nat
    BY <2>1 DEF CORE_SIZE, Slots
  <2>3. program.bus = "eim" /\ ~scenario.alone
    BY <1>2, ScenarioFacts DEF HostInv, WellFormed, WellFormedProgram, program
  <2>4. [EimNext]_eimVars /\ EimInv' /\ access'.reached = eim_offset(address)
    BY <2>2, <2>3, CallStep DEF HostInv
  <2> DEFINE a == eim_offset(k * CORE_SIZE + this.at)
  <2>5. BusSegment(a) * 32 + BusCore(a) + 1 = k + 1 /\ BusRegister(a) = this.at
    BY <2>1, SlotReached
  <2>6. i = k + 1 /\ r = this.at
    <3>1. access'.reached = a
      BY <2>1, <2>4
    <3> HIDE DEF a
    <3> QED BY <2>3, <2>5, <3>1 DEF CalledCore, CalledRegister, CoreOf, RegisterOf
  <2>7. Strayed(i) => scenario.quiet \/ program.onAbsent = "test"
    <3>1. CASE /\ k + 1 \in DOMAIN scenario.fabric
               /\ IsPrefix(program.lookups[current.core], scenario.fabric[k + 1].name)
      <4>1. i \in DOMAIN cores /\ Reg(cores[i], ADDR_NAME) = scenario.fabric[k + 1].name
        BY <1>2, <2>6, <3>1 DEF HostInv, CoresInv, SameIdentity
      <4> QED BY <3>1, <4>1 DEF Strayed
    <3>2. CASE current.core = 0
      BY <3>2 DEF Strayed
    <3> QED BY <2>1, <3>1, <3>2
  <2> QED BY <1>0, <2>4, <2>6, <2>7
<1> QED BY <1>1, <1>2

-----------------------------------------------------------------------------
(* What steps leave alone.                                                 *)

LEMMA ScenarioFrame ==
    ASSUME UNCHANGED scenario
    PROVE  /\ program' = program
           /\ ScenarioInv => ScenarioInv'
BY DEF program, ScenarioInv

LEMMA CoresFrame ==
    ASSUME CoresInv, UNCHANGED <<scenario, cores>>
    PROVE  CoresInv'
BY DEF CoresInv, program

LEMMA ListFrame ==
    ASSUME ListInv, UNCHANGED <<scenario, found, slot>>
    PROVE  ListInv'
BY DEF ListInv

LEMMA BasesFrame ==
    ASSUME BasesInv, UNCHANGED <<scenario, bases>>, outcome' = "running" => outcome = "running"
    PROVE  BasesInv'
BY DEF BasesInv, IsBaseOf, program

LogSet == [late : BOOLEAN, alarms : SUBSET Alarms,
           owed : SUBSET DOMAIN cores, unheard : BOOLEAN,
           stale : BOOLEAN, stray : BOOLEAN]

\* The log stays right when a step notes an access as astray only where it may.
LEMMA LogStep ==
    ASSUME LogInv, UNCHANGED scenario, DOMAIN cores' = DOMAIN cores, log' \in LogSet,
           log'.stray => log.stray \/ scenario.quiet \/ program.onAbsent = "test"
    PROVE  LogInv'
BY DEF LogInv, LogSet, RightCore, program

LEMMA LogFrame ==
    ASSUME LogInv, UNCHANGED <<scenario, log>>, DOMAIN cores' = DOMAIN cores
    PROVE  LogInv'
BY DEF LogInv, RightCore, program

\* A step of the script keeps to the places; it does not revive the program.
LEMMA ScriptStep ==
    ASSUME HostInv, AtStep, UNCHANGED <<scenario, found, slot, bases>>,
           StepPasses \/ StepFails
    PROVE  ScenarioInv' /\ ListInv' /\ BasesInv' /\ PlaceInv'
<1>1. ScenarioInv' /\ ListInv'
  BY ScenarioFrame, ListFrame DEF HostInv
<1>2. PlaceInv'
  BY StepPassesPlace, StepFailsPlace DEF HostInv
<1>3. BasesInv'
  BY BasesFrame DEF HostInv, AtStep, Testing
<1> QED BY <1>1, <1>2, <1>3

\* The cores after a change of one of them.
LEMMA CoreStep ==
    ASSUME CoresInv, UNCHANGED scenario, NEW i \in DOMAIN cores, NEW c,
           cores' = [cores EXCEPT ![i] = c],
           SameCore(c, scenario.fabric[i].kind),
           program.lookups # <<>> /\ SameIdentity(cores[i], scenario.fabric[i].name,
                                                  scenario.fabric[i].version) =>
             SameIdentity(c, scenario.fabric[i].name, scenario.fabric[i].version)
    PROVE  CoresInv' /\ DOMAIN cores' = DOMAIN cores
<1>1. program' = program /\ DOMAIN cores' = DOMAIN cores
  BY DEF program
<1>2. \A j \in DOMAIN cores : cores'[j] = IF j = i THEN c ELSE cores[j]
  OBVIOUS
<1> QED BY <1>1, <1>2 DEF CoresInv

\* A read.
LEMMA ReadsCoreStep ==
    ASSUME CoresInv, UNCHANGED scenario, NEW i, NEW r, ReadsCore(i, r)
    PROVE  CoresInv' /\ DOMAIN cores' = DOMAIN cores
<1>1. CASE i \in DOMAIN cores
  <2>1. cores' = [cores EXCEPT ![i] = AfterRead(cores[i], r)]
    BY <1>1 DEF ReadsCore
  <2>2. SameCore(cores[i], scenario.fabric[i].kind)
    BY <1>1 DEF CoresInv
  <2>3. /\ SameCore(AfterRead(cores[i], r), scenario.fabric[i].kind)
        /\ SameIdentity(cores[i], scenario.fabric[i].name, scenario.fabric[i].version) =>
             SameIdentity(AfterRead(cores[i], r), scenario.fabric[i].name,
                          scenario.fabric[i].version)
    BY <2>2, AfterReadKeeps
  <2> QED BY <1>1, <2>1, <2>3, CoreStep
<1>2. CASE i \notin DOMAIN cores
  BY <1>2, CoresFrame DEF ReadsCore
<1> QED BY <1>1, <1>2

\* A step that lowers nothing of the log but late, owed and alarms.
LEMMA LogTypes ==
    ASSUME LogInv
    PROVE  /\ log \in LogSet
           /\ [log EXCEPT !.late = TRUE] \in LogSet
           /\ \A v : Alarm(v) \in LogSet /\ Alarm(v).stray = log.stray
           /\ [log EXCEPT !.late = TRUE].stray = log.stray
<1>1. log \in LogSet
  BY DEF LogInv, LogSet
<1>2. [log EXCEPT !.late = TRUE] \in LogSet /\ [log EXCEPT !.late = TRUE].stray = log.stray
  BY <1>1 DEF LogSet
<1>3. ASSUME NEW v
      PROVE  Alarm(v) \in LogSet /\ Alarm(v).stray = log.stray
  <2>1. PICK word \in Alarms : Alarm(v) = [log EXCEPT !.alarms = log.alarms \cup {word}]
    BY DEF Alarm, AlarmOf, Alarms
  <2> QED BY <1>1, <2>1 DEF LogSet
<1> QED BY <1>1, <1>2, <1>3

-----------------------------------------------------------------------------
(* The actions.                                                            *)

LEMMA AddressIsNat ==
    ASSUME HostInv, AtStep
    PROVE  address \in Nat
<1>1. CASE program.lookups = <<>>
  <2>1. WellFormedTest(program, current) /\ WellFormedStep(program, this)
    BY Places DEF HostInv, PlaceInv, current, this, WellFormedTest
  <2>2. current.core = 0 /\ this.at \in Nat
    BY <1>1, <2>1 DEF WellFormedTest, WellFormedStep
  <2> QED BY <2>2 DEF address, base_addr
<1>2. CASE program.lookups # <<>>
  <2>1. PICK k \in 0 .. Slots - 1 : /\ this.at \in 0 .. CORE_SIZE - 1
                                    /\ address = k * CORE_SIZE + this.at
    BY <1>2, StepAddress
  <2> QED BY <2>1 DEF CORE_SIZE, Slots
<1> QED BY <1>1, <1>2

LEMMA SlotsIsNat == Slots \in Nat
BY DEF Slots, CORE_SIZE

LEMMA SequenceFacts ==
    ASSUME NEW S, NEW s \in Seq(S)
    PROVE  /\ DOMAIN s = 1 .. Len(s) /\ Len(s) \in Nat
           /\ \A k \in DOMAIN s : s[k] \in S
OBVIOUS

\* Probing goes over EIM, one slot after another.
LEMMA ProbingFacts ==
    ASSUME HostInv, Probing
    PROVE  /\ program.lookups # <<>> /\ program.bus = "eim" /\ ~scenario.alone
           /\ slot = Len(found) /\ slot \in 0 .. Slots - 1
           /\ slot * CORE_SIZE \in Nat
<1>1. WellFormedProgram(program) /\ WellFormed(scenario)
  BY ScenarioFacts DEF HostInv
<1>2. Len(bases) \in Nat /\ Len(bases) < Len(program.lookups)
  BY DEF HostInv, BasesInv, Probing, Searching
<1>3. program.lookups # <<>>
  BY <1>2
<1>4. program.bus = "eim" /\ ~scenario.alone
  BY <1>1, <1>3 DEF WellFormedProgram, WellFormed, program
<1>5. slot = Len(found) /\ slot \in 0 .. Slots - 1
  BY DEF HostInv, ListInv, Probing
<1>6. slot * CORE_SIZE \in Nat
  <2>1. slot \in 0 .. Slots - 1
    BY <1>5
  <2>2. slot \in Nat
    BY <2>1, SlotType
  <2> QED BY <2>2 DEF CORE_SIZE
<1> QED BY <1>3, <1>4, <1>5, <1>6

LEMMA SetUpStep ==
    ASSUME HostInv, SetUp
    PROVE  HostInv' /\ [EimNext]_eimVars
<1>1. EimNext /\ EimInv'
  BY EimStepInv DEF SetUp, EimNext, HostInv
<1>2. CoresInv' /\ ListInv' /\ LogInv' /\ ScenarioInv'
  BY CoresFrame, ListFrame, LogFrame, ScenarioFrame DEF HostInv, SetUp
<1>3. BasesInv' /\ PlaceInv'
  <2>1. outcome' \in {"failure", outcome}
    BY DEF SetUp
  <2>2. BasesInv'
    BY <2>1, BasesFrame DEF HostInv, SetUp
  <2> QED BY <2>1, <2>2, ScenarioFrame DEF HostInv, PlaceInv, SetUp, Outcomes
<1> QED BY <1>1, <1>2, <1>3 DEF HostInv

LEMMA OpenFailsStep ==
    ASSUME HostInv, OpenFails
    PROVE  HostInv' /\ [EimNext]_eimVars
<1>1. EimInv' /\ UNCHANGED eimVars
  BY EimStepInv DEF OpenFails, HostInv
<1>2. CASE Probing
  <2>1. slot' = PROBED /\ UNCHANGED <<scenario, cores, found, bases, test, step, round,
                                      outcome, log>>
    BY <1>2 DEF OpenFails
  <2>2. CoresInv' /\ BasesInv' /\ LogInv' /\ ScenarioInv'
    BY <2>1, CoresFrame, BasesFrame, LogFrame, ScenarioFrame DEF HostInv
  <2>3. ListInv' /\ PlaceInv'
    BY <2>1, ScenarioFrame DEF HostInv, ListInv, PlaceInv
  <2> QED BY <1>1, <2>2, <2>3 DEF HostInv
<1>3. CASE ~Probing
  <2>1. /\ AtStep /\ log' = [log EXCEPT !.late = TRUE] /\ StepFails
        /\ UNCHANGED <<scenario, cores, found, slot, bases>>
    BY <1>3 DEF OpenFails, Accessing
  <2>2. ScenarioInv' /\ ListInv' /\ BasesInv' /\ PlaceInv'
    BY <2>1, ScriptStep
  <2>3. CoresInv' /\ LogInv'
    BY <2>1, CoresFrame, LogStep, LogTypes DEF HostInv
  <2> QED BY <1>1, <2>2, <2>3 DEF HostInv
<1> QED BY <1>2, <1>3

LEMMA MapFailsStep ==
    ASSUME HostInv, MapFails
    PROVE  HostInv' /\ [EimNext]_eimVars
<1> DEFINE offset == IF Probing THEN slot * CORE_SIZE ELSE address
<1>1. offset \in Nat
  BY ProbingFacts, AddressIsNat DEF MapFails, Accessing
<1>2. eim_offset(offset) \in FpgaAddresses /\ UseFails(eim_offset(offset))
  <2>1. UseFails(eim_offset(offset))
    BY DEF MapFails
  <2> HIDE DEF offset
  <2> QED BY <1>1, <2>1 DEF eim_offset, EIM_BASE_ADDR, FpgaAddresses
<1>3. EimNext /\ EimInv'
  BY <1>2, EimStepInv DEF EimNext, HostInv
<1>4. outcome' = "failure" /\ UNCHANGED <<scenario, cores, found, slot, bases, test, step,
                                          round, log>>
  BY DEF MapFails
<1>5. CoresInv' /\ ListInv' /\ LogInv' /\ ScenarioInv' /\ BasesInv'
  BY <1>4, CoresFrame, ListFrame, LogFrame, ScenarioFrame, BasesFrame DEF HostInv
<1>6. PlaceInv'
  BY <1>4, ScenarioFrame DEF HostInv, PlaceInv, Outcomes
<1> QED BY <1>3, <1>5, <1>6 DEF HostInv

LEMMA ProbeSlotStep ==
    ASSUME HostInv, ProbeSlot
    PROVE  HostInv' /\ [EimNext]_eimVars
<1> DEFINE offset == slot * CORE_SIZE
           i == CalledCore(offset)
<1>1. /\ program.lookups # <<>> /\ program.bus = "eim" /\ ~scenario.alone
      /\ slot = Len(found) /\ slot \in 0 .. Slots - 1 /\ offset \in Nat
  BY ProbingFacts DEF ProbeSlot
<1>2. /\ [EimNext]_eimVars /\ EimInv' /\ access'.reached = eim_offset(offset)
  BY <1>1, CallStep DEF ProbeSlot, HostInv
<1>3. i = slot + 1
  <2>1. 0 \in 0 .. CORE_SIZE - 1
    BY DEF CORE_SIZE
  <2>2. slot \in Nat
    BY <1>1, SlotType
  <2>3. offset = slot * CORE_SIZE + 0
    BY <2>2 DEF CORE_SIZE
  <2>4. BusSegment(eim_offset(offset)) * 32 + BusCore(eim_offset(offset)) + 1 = slot + 1
    BY <1>1, <2>1, <2>3, SlotReached
  <2> HIDE DEF offset
  <2> QED BY <1>1, <1>2, <2>4 DEF CalledCore, CoreOf
<1>4. UNCHANGED <<scenario, cores, bases, test, step, round, outcome, log>>
  BY DEF ProbeSlot
<1>5. CoresInv' /\ LogInv' /\ ScenarioInv' /\ BasesInv' /\ PlaceInv'
  BY <1>4, CoresFrame, LogFrame, ScenarioFrame, BasesFrame DEF HostInv, PlaceInv
<1>6. ListInv'
  <2>1. CASE i \notin DOMAIN cores
    <3>1. slot' = PROBED /\ UNCHANGED found
      BY <2>1 DEF ProbeSlot
    <3> QED BY <1>4, <3>1 DEF HostInv, ListInv
  <2>2. CASE i \in DOMAIN cores
    <3> DEFINE entry == [name |-> Reg(cores[i], ADDR_NAME),
                         version |-> Reg(cores[i], ADDR_VERSION),
                         base |-> slot * CORE_SIZE]
    <3>1. /\ found' = Append(found, entry)
          /\ slot' = IF slot + 1 < Slots THEN slot + 1 ELSE PROBED
      BY <2>2 DEF ProbeSlot
    <3>2. /\ i \in 1 .. Len(scenario.fabric) /\ Len(scenario.fabric) \in Nat
          /\ scenario.fabric[i].name \in Names /\ scenario.fabric[i].version \in Names
      <4>1. scenario.fabric \in Seq([kind : Kinds, name : Names, version : Names])
        BY ScenarioFacts DEF HostInv, WellFormed, Names
      <4>2. i \in DOMAIN scenario.fabric
        BY <2>2 DEF HostInv, CoresInv
      <4> HIDE DEF i
      <4>3. /\ DOMAIN scenario.fabric = 1 .. Len(scenario.fabric) /\ Len(scenario.fabric) \in Nat
            /\ \A k \in DOMAIN scenario.fabric :
                 scenario.fabric[k] \in [kind : Kinds, name : Names, version : Names]
        BY <4>1, SequenceFacts
      <4>4. scenario.fabric[i] \in [kind : Kinds, name : Names, version : Names]
        BY <4>2, <4>3
      <4> QED BY <4>2, <4>3, <4>4
    <3>3. SameIdentity(cores[i], scenario.fabric[i].name, scenario.fabric[i].version)
      BY <1>1, <2>2 DEF HostInv, CoresInv
    <3>4. entry \in Entry /\ entry.name = scenario.fabric[i].name
          /\ entry.base = slot * CORE_SIZE
      BY <1>1, <3>2, <3>3 DEF Entry, SameIdentity
    <3> HIDE DEF entry, i, offset
    <3>5. found \in Seq(Entry) /\ Len(found) \in Nat
      BY DEF HostInv, ListInv
    <3>6. found' \in Seq(Entry) /\ Len(found') = slot + 1
      BY <1>1, <3>1, <3>4, <3>5
    <3>7. ASSUME NEW k \in 1 .. Len(found')
          PROVE  found'[k].name = scenario.fabric[k].name
                 /\ found'[k].base = (k - 1) * CORE_SIZE
      <4>1. CASE k = slot + 1
        <5>1. found'[k] = entry
          BY <1>1, <3>1, <3>5, <4>1
        <5>2. (k - 1) * CORE_SIZE = slot * CORE_SIZE
          BY <1>1, <4>1
        <5> QED BY <1>3, <3>4, <4>1, <5>1, <5>2
      <4>2. CASE k # slot + 1
        <5>1. k \in 1 .. Len(found) /\ found'[k] = found[k]
          BY <1>1, <3>1, <3>5, <3>6, <4>2
        <5> QED BY <5>1 DEF HostInv, ListInv
      <4> QED BY <4>1, <4>2
    <3>8. Len(found') <= Slots /\ Len(found') <= Len(scenario.fabric)
      BY <1>1, <1>3, <3>2, <3>6, SlotsIsNat
    <3>9. slot' \in {PROBED} \cup 0 .. Slots - 1 /\ slot' \in {PROBED, 0, Len(found')}
      BY <1>1, <3>1, <3>6, SlotsIsNat
    <3> QED BY <1>4, <3>6, <3>7, <3>8, <3>9 DEF ListInv
  <2> QED BY <2>1, <2>2
<1> QED BY <1>2, <1>5, <1>6 DEF HostInv

\* A base of the list is that of a core of the fabric.
LEMMA ListedBase ==
    ASSUME ScenarioInv, ListInv, NEW name, NEW j \in 1 .. Len(found),
           IsPrefix(name, found[j].name)
    PROVE  IsBaseOf(found[j].base, name)
<1>1. found[j].name = scenario.fabric[j].name /\ found[j].base = (j - 1) * CORE_SIZE
  BY DEF ListInv
<1>2. Len(found) \in Nat /\ Len(found) <= Slots /\ Len(found) <= Len(scenario.fabric)
  BY DEF ListInv
<1>3. Len(scenario.fabric) \in Nat
  BY ScenarioFacts DEF WellFormed
<1>4. j \in 1 .. Len(scenario.fabric) /\ j <= Slots
  BY <1>2, <1>3, SlotsIsNat
<1> QED BY <1>1, <1>4 DEF IsBaseOf

LEMMA LookUpStep ==
    ASSUME HostInv, LookUp
    PROVE  HostInv' /\ [EimNext]_eimVars
<1> DEFINE name == program.lookups[Len(bases) + 1]
           base == IF program.scan THEN ScannedBase(found, name)
                                   ELSE tc_core_base(found, name)
<1>1. /\ bases' = Append(bases, base) /\ slot' = 0 /\ outcome \in {"running"}
      /\ UNCHANGED <<eimVars, scenario, cores, found, test, step, round, log>>
      /\ outcome' \in {"running", "crashed", "aborted", "failure"}
      /\ outcome' = "running" /\ program.onAbsent \in {"abort", "fail"} => base # 0
  BY DEF LookUp, Searching
<1>2. EimInv' /\ UNCHANGED eimVars
  BY <1>1, EimStepInv DEF HostInv
<1>3. CoresInv' /\ LogInv' /\ ScenarioInv'
  BY <1>1, CoresFrame, LogFrame, ScenarioFrame DEF HostInv
<1>4. PlaceInv'
  BY <1>1, ScenarioFrame DEF HostInv, PlaceInv, Outcomes
<1>5. ListInv'
  BY <1>1, SlotsIsNat DEF HostInv, ListInv, Slots, CORE_SIZE
<1>6. BasesInv'
  <2>1. /\ bases \in Seq(Nat) /\ Len(bases) \in Nat
        /\ Len(program.lookups) \in Nat /\ Len(bases) < Len(program.lookups)
    <3>1. bases \in Seq(Nat) /\ Len(bases) < Len(program.lookups)
      BY DEF HostInv, BasesInv, LookUp, Searching
    <3>2. program.lookups \in Seq(Names)
      BY ScenarioFacts DEF HostInv, WellFormedProgram, Names
    <3> QED BY <3>1, <3>2
  <2>2. name \in Names
    <3>1. program.lookups \in Seq(Names)
      BY ScenarioFacts DEF HostInv, WellFormedProgram, Names
    <3> QED BY <2>1, <3>1
  <2>3. base = 0 \/ IsBaseOf(base, name)
    <3>1. found \in Seq(Entry) /\ ScenarioInv /\ ListInv
      BY DEF HostInv, ListInv
    <3>2. \/ base = 0
          \/ \E j \in 1 .. Len(found) : base = found[j].base /\ IsPrefix(name, found[j].name)
      <4>1. CASE program.scan
        BY <2>2, <3>1, <4>1, ScannedBaseIsOfName
      <4>2. CASE ~program.scan
        BY <3>1, <4>2, BaseIsOfName
      <4> QED BY <4>1, <4>2
    <3> HIDE DEF base, name
    <3> QED BY <3>1, <3>2, ListedBase
  <2>4. base \in Nat
    <3>1. Len(scenario.fabric) \in Nat
      BY ScenarioFacts DEF HostInv, WellFormed
    <3> HIDE DEF base, name
    <3> QED BY <2>3, <3>1 DEF IsBaseOf, CORE_SIZE
  <2>5. program' = program
    BY <1>1, ScenarioFrame
  <2> HIDE DEF base
  <2>6. bases' \in Seq(Nat) /\ Len(bases') = Len(bases) + 1
    BY <1>1, <2>1, <2>4
  <2>7. ASSUME NEW k \in 1 .. Len(bases')
        PROVE  bases'[k] = 0 \/ IsBaseOf(bases'[k], program.lookups[k])
    <3>1. CASE k = Len(bases) + 1
      BY <1>1, <2>1, <2>3, <3>1
    <3>2. CASE k # Len(bases) + 1
      <4>1. k \in 1 .. Len(bases) /\ bases'[k] = bases[k]
        BY <1>1, <2>1, <2>6, <3>2
      <4> QED BY <4>1 DEF HostInv, BasesInv
    <3> QED BY <3>1, <3>2
  <2>8. ASSUME outcome' = "running", program.onAbsent \in {"abort", "fail"},
               NEW k \in 1 .. Len(bases')
        PROVE  bases'[k] # 0
    <3>1. CASE k = Len(bases) + 1
      BY <1>1, <2>1, <2>8, <3>1
    <3>2. CASE k # Len(bases) + 1
      <4>1. k \in 1 .. Len(bases) /\ bases'[k] = bases[k]
        BY <1>1, <2>1, <2>6, <3>2
      <4> QED BY <1>1, <2>8, <4>1 DEF HostInv, BasesInv
    <3> QED BY <3>1, <3>2
  <2>9. Len(bases') <= Len(program.lookups)
    BY <2>1, <2>6
  <2> QED BY <1>1, <2>5, <2>6, <2>7, <2>8, <2>9 DEF BasesInv, IsBaseOf
<1> QED BY <1>2, <1>3, <1>4, <1>5, <1>6 DEF HostInv

LEMMA SkipTestStep ==
    ASSUME HostInv, SkipTest
    PROVE  HostInv' /\ [EimNext]_eimVars
<1>1. EimInv' /\ UNCHANGED eimVars
  BY EimStepInv DEF SkipTest, HostInv
<1>2. CoresInv' /\ ListInv' /\ LogInv' /\ ScenarioInv' /\ BasesInv'
  BY CoresFrame, ListFrame, LogFrame, ScenarioFrame, BasesFrame
     DEF HostInv, SkipTest, Testing
<1>3. PlaceInv'
  BY TestPassesPlace DEF HostInv, SkipTest
<1> QED BY <1>1, <1>2, <1>3 DEF HostInv

LEMMA WriteStepStep ==
    ASSUME HostInv, WriteStep
    PROVE  HostInv' /\ [EimNext]_eimVars
<1>1. PICK i \in {CalledCore(address)}, r \in {CalledRegister(address)} :
         /\ cores' = IF i \in DOMAIN cores
                     THEN [cores EXCEPT ![i] = Write(@, r, written)] ELSE cores
         /\ log' = [log EXCEPT
              !.stray   = @ \/ Strayed(i),
              !.unheard = @ \/ (IsCommand(i, r) /\ Begun(cores[i], written) = "none"),
              !.owed    = IF IsCommand(i, r) THEN @ \cup {i} ELSE @]
  BY DEF WriteStep
<1>2. AtStep /\ Call(address) /\ StepPasses /\ UNCHANGED <<scenario, found, slot, bases>>
      /\ this.do = "write"
  BY DEF WriteStep
<1>3. /\ [EimNext]_eimVars /\ EimInv'
      /\ program.lookups # <<>> => r = this.at
      /\ Strayed(i) \in BOOLEAN
      /\ Strayed(i) => scenario.quiet \/ program.onAbsent = "test"
  BY <1>2, StepReaches
<1>4. ScenarioInv' /\ ListInv' /\ BasesInv' /\ PlaceInv'
  BY <1>2, ScriptStep
<1>5. CoresInv' /\ DOMAIN cores' = DOMAIN cores
  <2>1. CASE i \in DOMAIN cores
    <3> DEFINE c == Write(cores[i], r, written)
    <3>1. SameCore(cores[i], scenario.fabric[i].kind)
      BY <2>1 DEF HostInv, CoresInv
    <3>2. SameCore(c, scenario.fabric[i].kind)
      BY <3>1, WriteIsSame
    <3>3. program.lookups # <<>> => r \notin {ADDR_NAME, ADDR_VERSION}
      <4>1. WellFormedStep(program, this)
        BY Places DEF HostInv, PlaceInv, current, this, WellFormedTest
      <4> QED BY <1>2, <1>3, <4>1 DEF WellFormedStep
    <3>4. program.lookups # <<>> /\ SameIdentity(cores[i], scenario.fabric[i].name,
                                                 scenario.fabric[i].version) =>
             SameIdentity(c, scenario.fabric[i].name, scenario.fabric[i].version)
      BY <3>1, <3>3, WriteElsewhere
    <3>5. cores' = [cores EXCEPT ![i] = c]
      BY <1>1, <2>1
    <3> HIDE DEF c
    <3> QED BY <1>2, <2>1, <3>2, <3>4, <3>5, CoreStep DEF HostInv
  <2>2. CASE i \notin DOMAIN cores
    BY <1>1, <1>2, <2>2, CoresFrame DEF HostInv
  <2> QED BY <2>1, <2>2
<1>6. LogInv'
  <2>1. log \in LogSet
    BY LogTypes DEF HostInv
  <2> DEFINE u == log.unheard \/ (IsCommand(i, r) /\ Begun(cores[i], written) = "none")
             o == IF IsCommand(i, r) THEN log.owed \cup {i} ELSE log.owed
             s == log.stray \/ Strayed(i)
  <2>2. u \in BOOLEAN /\ s \in BOOLEAN
    BY <2>1 DEF LogSet
  <2>3. o \in SUBSET DOMAIN cores
    BY <2>1 DEF LogSet, IsCommand
  <2>4. log' = [log EXCEPT !.stray = s, !.unheard = u, !.owed = o]
    BY <1>1
  <2>5. s => log.stray \/ scenario.quiet \/ program.onAbsent = "test"
    BY <1>3
  <2> HIDE DEF u, o, s
  <2>6. log' \in LogSet /\ log'.stray = s
    BY <2>1, <2>2, <2>3, <2>4 DEF LogSet
  <2> QED BY <1>2, <1>5, <2>5, <2>6, LogStep DEF HostInv
<1> QED BY <1>3, <1>4, <1>5, <1>6 DEF HostInv

\* What is logged of a read.
LEMMA LoggedStep ==
    ASSUME LogInv, NEW i, Strayed(i) \in BOOLEAN,
           Strayed(i) => scenario.quiet \/ program.onAbsent = "test"
    PROVE  /\ Logged(i) \in LogSet
           /\ Logged(i).stray => log.stray \/ scenario.quiet \/ program.onAbsent = "test"
<1>1. log \in LogSet
  BY LogTypes
<1> DEFINE s == log.stray \/ Strayed(i)
           t == log.stale \/ i \in log.owed
<1>2. s \in BOOLEAN /\ t \in BOOLEAN
  BY <1>1 DEF LogSet
<1>3. Logged(i) = [log EXCEPT !.stray = s, !.stale = t]
  BY DEF Logged
<1>4. s => log.stray \/ scenario.quiet \/ program.onAbsent = "test"
  OBVIOUS
<1> HIDE DEF s, t
<1> QED BY <1>1, <1>2, <1>3, <1>4 DEF LogSet

LEMMA ReadStepStep ==
    ASSUME HostInv, ReadStep
    PROVE  HostInv' /\ [EimNext]_eimVars
<1>1. PICK i \in {CalledCore(address)}, r \in {CalledRegister(address)} :
         ReadsCore(i, r) /\ log' = Logged(i)
  BY DEF ReadStep
<1>2. AtStep /\ Call(address) /\ StepPasses /\ UNCHANGED <<scenario, found, slot, bases>>
  BY DEF ReadStep
<1>3. /\ [EimNext]_eimVars /\ EimInv' /\ Strayed(i) \in BOOLEAN
      /\ Strayed(i) => scenario.quiet \/ program.onAbsent = "test"
  BY <1>2, StepReaches
<1>4. ScenarioInv' /\ ListInv' /\ BasesInv' /\ PlaceInv'
  BY <1>2, ScriptStep
<1>5. CoresInv' /\ DOMAIN cores' = DOMAIN cores
  BY <1>1, <1>2, ReadsCoreStep DEF HostInv
<1>6. LogInv'
  BY <1>1, <1>2, <1>3, <1>5, LoggedStep, LogStep DEF HostInv
<1> QED BY <1>3, <1>4, <1>5, <1>6 DEF HostInv

LEMMA ExpectStepStep ==
    ASSUME HostInv, ExpectStep
    PROVE  HostInv' /\ [EimNext]_eimVars
<1>1. PICK i \in {CalledCore(address)}, r \in {CalledRegister(address)} :
         /\ ReadsCore(i, r)
         /\ \/ log' = Logged(i) /\ StepPasses
            \/ log' = [Logged(i) EXCEPT !.alarms = Alarm(Read(i, r)).alarms] /\ StepFails
  BY DEF ExpectStep
<1>2. AtStep /\ Call(address) /\ UNCHANGED <<scenario, found, slot, bases>>
  BY DEF ExpectStep
<1>3. /\ [EimNext]_eimVars /\ EimInv' /\ Strayed(i) \in BOOLEAN
      /\ Strayed(i) => scenario.quiet \/ program.onAbsent = "test"
  BY <1>2, StepReaches
<1>4. ScenarioInv' /\ ListInv' /\ BasesInv' /\ PlaceInv'
  BY <1>1, <1>2, ScriptStep
<1>5. CoresInv' /\ DOMAIN cores' = DOMAIN cores
  BY <1>1, <1>2, ReadsCoreStep DEF HostInv
<1>6. LogInv'
  <2>1. /\ Logged(i) \in LogSet
        /\ Logged(i).stray => log.stray \/ scenario.quiet \/ program.onAbsent = "test"
    BY <1>3, LoggedStep DEF HostInv
  <2>2. Alarm(Read(i, r)).alarms \in SUBSET Alarms
    BY LogTypes DEF HostInv, LogSet
  <2>3. \A x \in SUBSET Alarms :
           /\ [Logged(i) EXCEPT !.alarms = x] \in LogSet
           /\ [Logged(i) EXCEPT !.alarms = x].stray = Logged(i).stray
    BY <2>1 DEF LogSet
  <2>4. log' \in LogSet /\ log'.stray = Logged(i).stray
    BY <1>1, <2>1, <2>2, <2>3
  <2> QED BY <1>2, <1>5, <2>1, <2>4, LogStep DEF HostInv
<1> QED BY <1>3, <1>4, <1>5, <1>6 DEF HostInv

LEMMA CompareStepStep ==
    ASSUME HostInv, CompareStep
    PROVE  HostInv' /\ [EimNext]_eimVars
<1>1. /\ AtStep /\ UNCHANGED <<eimVars, scenario, cores, found, slot, bases>>
      /\ \/ UNCHANGED log /\ StepPasses
         \/ log' = Alarm(env[this.var]) /\ StepFails
  BY DEF CompareStep
<1>2. EimInv' /\ UNCHANGED eimVars
  BY <1>1, EimStepInv DEF HostInv
<1>3. ScenarioInv' /\ ListInv' /\ BasesInv' /\ PlaceInv'
  BY <1>1, ScriptStep
<1>4. CoresInv' /\ LogInv'
  BY <1>1, CoresFrame, LogFrame, LogStep, LogTypes DEF HostInv
<1> QED BY <1>2, <1>3, <1>4 DEF HostInv

LEMMA WaitStepStep ==
    ASSUME HostInv, WaitStep
    PROVE  HostInv' /\ [EimNext]_eimVars
<1>1. PICK i \in {CalledCore(address)}, r \in {CalledRegister(address)} :
         /\ log' = [log EXCEPT !.stray = @ \/ Strayed(i)]
         /\ StepPasses \/ UNCHANGED <<test, step, round, outcome>>
  BY DEF WaitStep
<1>2. AtStep /\ Call(address) /\ UNCHANGED <<scenario, cores, found, slot, bases>>
  BY DEF WaitStep
<1>3. /\ [EimNext]_eimVars /\ EimInv' /\ Strayed(i) \in BOOLEAN
      /\ Strayed(i) => scenario.quiet \/ program.onAbsent = "test"
  BY <1>2, StepReaches
<1>4. ScenarioInv' /\ ListInv' /\ BasesInv' /\ PlaceInv'
  <2>1. CASE StepPasses
    BY <1>2, <2>1, ScriptStep
  <2>2. CASE UNCHANGED <<test, step, round, outcome>>
    BY <1>2, <2>2, ScenarioFrame, ListFrame, BasesFrame DEF HostInv, PlaceInv
  <2> QED BY <1>1, <2>1, <2>2
<1>5. CoresInv' /\ DOMAIN cores' = DOMAIN cores
  BY <1>2, CoresFrame DEF HostInv
<1>6. LogInv'
  <2>1. log \in LogSet
    BY LogTypes DEF HostInv
  <2> DEFINE s == log.stray \/ Strayed(i)
  <2>2. s \in BOOLEAN /\ log' = [log EXCEPT !.stray = s]
        /\ (s => log.stray \/ scenario.quiet \/ program.onAbsent = "test")
    BY <1>1, <1>3, <2>1 DEF LogSet
  <2> HIDE DEF s
  <2>3. log' \in LogSet /\ log'.stray = s
    BY <2>1, <2>2 DEF LogSet
  <2> QED BY <1>2, <1>5, <2>2, <2>3, LogStep DEF HostInv
<1> QED BY <1>3, <1>4, <1>5, <1>6 DEF HostInv

LEMMA WaitTimesOutStep ==
    ASSUME HostInv, WaitTimesOut
    PROVE  HostInv' /\ [EimNext]_eimVars
<1>1. /\ AtStep /\ UNCHANGED <<eimVars, scenario, cores, found, slot, bases>>
      /\ log' = [log EXCEPT !.late = TRUE] /\ StepFails
  BY DEF WaitTimesOut
<1>2. EimInv' /\ UNCHANGED eimVars
  BY <1>1, EimStepInv DEF HostInv
<1>3. ScenarioInv' /\ ListInv' /\ BasesInv' /\ PlaceInv'
  BY <1>1, ScriptStep
<1>4. CoresInv' /\ LogInv'
  BY <1>1, CoresFrame, LogStep, LogTypes DEF HostInv
<1> QED BY <1>2, <1>3, <1>4 DEF HostInv

LEMMA CoreFinishesStep ==
    ASSUME HostInv, NEW i \in DOMAIN cores, CoreFinishes(i)
    PROVE  HostInv' /\ [EimNext]_eimVars
<1>1. /\ cores[i].op # "none" /\ cores' = [cores EXCEPT ![i] = Finished(cores[i])]
      /\ log' = [log EXCEPT !.owed = log.owed \ {i}]
      /\ UNCHANGED <<eimVars, scenario, found, slot, bases, test, step, round, outcome>>
  BY DEF CoreFinishes
<1>2. EimInv' /\ UNCHANGED eimVars
  BY <1>1, EimStepInv DEF HostInv
<1>3. ScenarioInv' /\ ListInv' /\ BasesInv' /\ PlaceInv'
  BY <1>1, ScenarioFrame, ListFrame, BasesFrame DEF HostInv, PlaceInv
<1>4. CoresInv' /\ DOMAIN cores' = DOMAIN cores
  <2> DEFINE kind == scenario.fabric[i].kind
             name == scenario.fabric[i].name
             version == scenario.fabric[i].version
             c == Finished(cores[i])
  <2>1. SameCore(cores[i], kind) /\ kind # "plain"
    BY <1>1 DEF HostInv, CoresInv, SameCore
  <2>2. kind \in Kinds
    <3>1. scenario.fabric \in Seq([kind : Kinds, name : Seq(STRING), version : Seq(STRING)])
      BY ScenarioFacts DEF HostInv, WellFormed
    <3>2. scenario.fabric[i] \in [kind : Kinds, name : Seq(STRING), version : Seq(STRING)]
      BY <3>1, SequenceFacts DEF HostInv, CoresInv
    <3> QED BY <3>2
  <2>3. SameCore(c, kind) /\ (SameIdentity(cores[i], name, version) =>
                                SameIdentity(c, name, version))
    <3> HIDE DEF kind, name, version
    <3> QED BY <2>1, <2>2, FinishedKeeps
  <2>4. cores' = [cores EXCEPT ![i] = c]
    BY <1>1
  <2> HIDE DEF c
  <2> QED BY <1>1, <2>3, <2>4, CoreStep DEF HostInv
<1>5. LogInv'
  <2>1. log \in LogSet
    BY LogTypes DEF HostInv
  <2>2. log' \in LogSet /\ log'.stray = log.stray
    BY <1>1, <2>1 DEF LogSet
  <2> QED BY <1>1, <1>4, <2>2, LogStep DEF HostInv
<1> QED BY <1>2, <1>3, <1>4, <1>5 DEF HostInv

-----------------------------------------------------------------------------
(* The theorems.                                                           *)

LEMMA HostInitInv == Init => HostInv
<1> SUFFICES ASSUME Init PROVE HostInv
  OBVIOUS
<1> USE DEF Init, HostInit
<1>1. EimInv
  BY EimInitInv
<1>2. ScenarioInv
  BY DEF ScenarioInv
<1>3. CoresInv
  <2>1. scenario.fabric \in Seq([kind : Kinds, name : Seq(STRING), version : Seq(STRING)])
    BY <1>2, ScenarioFacts DEF WellFormed
  <2>2. ASSUME NEW i \in DOMAIN scenario.fabric PROVE scenario.fabric[i].kind \in Kinds
    <3>1. scenario.fabric[i] \in [kind : Kinds, name : Seq(STRING), version : Seq(STRING)]
      BY <2>1, SequenceFacts
    <3> QED BY <3>1
  <2>3. ASSUME NEW i \in DOMAIN scenario.fabric
        PROVE  /\ SameCore(cores[i], scenario.fabric[i].kind)
               /\ SameIdentity(cores[i], scenario.fabric[i].name, scenario.fabric[i].version)
    <3>1. cores[i] = NewCore(scenario.fabric[i].kind, scenario.fabric[i].name,
                             scenario.fabric[i].version)
      OBVIOUS
    <3> QED BY <2>2, <3>1, NewCoreIsItself
  <2> QED BY <2>3 DEF CoresInv
<1>4. ListInv
  <2>1. Len(scenario.fabric) \in Nat
    BY <1>2, ScenarioFacts DEF WellFormed
  <2>2. found = <<>> /\ slot = 0 /\ Len(found) = 0 /\ found \in Seq(Entry)
    OBVIOUS
  <2>3. 0 \in 0 .. Slots - 1
    BY DEF Slots, CORE_SIZE
  <2> QED BY <2>1, <2>2, <2>3, SlotsIsNat DEF ListInv
<1>5. BasesInv
  <2>1. program.lookups \in Seq(Names)
    BY <1>2, ScenarioFacts DEF WellFormedProgram, Names
  <2>2. Len(program.lookups) \in Nat
    BY <2>1
  <2> QED BY <2>2 DEF BasesInv
<1>6. PlaceInv
  BY <1>2, Places, RoundsAssumption DEF PlaceInv, Outcomes
<1>7. LogInv
  BY DEF LogInv, RightCore
<1> QED BY <1>1, <1>2, <1>3, <1>4, <1>5, <1>6, <1>7 DEF HostInv

LEMMA HostStepInv ==
    ASSUME HostInv, [Next]_vars
    PROVE  HostInv' /\ [EimNext]_eimVars
<1>1. CASE HostStep
  BY <1>1, SetUpStep, OpenFailsStep, MapFailsStep, ProbeSlotStep, LookUpStep, SkipTestStep,
     WriteStepStep, ReadStepStep, ExpectStepStep, CompareStepStep, WaitStepStep,
     WaitTimesOutStep DEF HostStep
<1>2. CASE \E i \in DOMAIN cores : CoreFinishes(i)
  BY <1>2, CoreFinishesStep
<1>3. CASE UNCHANGED vars
  <2>1. UNCHANGED <<eimVars, scenario, cores, found, slot, bases, test, step, round,
                    outcome, log>>
    BY <1>3 DEF vars, hostVars
  <2>2. EimInv'
    BY <2>1, EimStepInv DEF HostInv
  <2>3. CoresInv' /\ ListInv' /\ LogInv' /\ ScenarioInv' /\ BasesInv' /\ PlaceInv'
    BY <2>1, CoresFrame, ListFrame, LogFrame, ScenarioFrame, BasesFrame
       DEF HostInv, PlaceInv
  <2> QED BY <2>1, <2>2, <2>3 DEF HostInv
<1> QED BY <1>1, <1>2, <1>3 DEF Next

LEMMA HostInvariant == Spec => []HostInv
<1>1. HostInv /\ [Next]_vars => HostInv'
  BY HostStepInv
<1> QED BY HostInitInv, <1>1, PTL DEF Spec

\* The program keeps to its script and its list, whatever it is run against:
\* what it looked up is in the address space, it is at a step of a test as
\* long as it runs (the main functions and loops of the testers and drivers).
THEOREM HostTypeCorrect == Spec => []HostTypeOK
<1>1. HostInv => HostTypeOK
  <2> SUFFICES ASSUME HostInv PROVE HostTypeOK
    OBVIOUS
  <2>1. ASSUME NEW k \in DOMAIN bases PROVE bases[k] \in 0 .. Slots * CORE_SIZE - 1
    <3>1. k \in 1 .. Len(bases) /\ Len(scenario.fabric) \in Nat
      BY ScenarioFacts DEF HostInv, BasesInv, WellFormed
    <3>2. bases[k] = 0 \/ IsBaseOf(bases[k], program.lookups[k])
      BY <3>1 DEF HostInv, BasesInv
    <3>3. bases[k] = 0 \/ \E j \in 1 .. Len(scenario.fabric) :
                             bases[k] = (j - 1) * 256 /\ j <= 256
      BY <3>2 DEF IsBaseOf, Slots, CORE_SIZE
    <3>4. bases[k] \in Nat /\ bases[k] < 65536
      BY <3>1, <3>3
    <3>5. Slots * CORE_SIZE = 65536
      BY DEF Slots, CORE_SIZE
    <3> DEFINE size == Slots * CORE_SIZE
    <3>6. size \in Nat /\ bases[k] < size
      BY <3>4, <3>5
    <3> HIDE DEF size
    <3>7. bases[k] \in 0 .. size - 1
      BY <3>4, <3>6
    <3> QED BY <3>7 DEF size
  <2>2. log.alarms \subseteq Alarms /\ log.owed \subseteq DOMAIN cores
    BY DEF HostInv, LogInv
  <2> QED BY <2>1, <2>2 DEF HostInv, HostTypeOK, ScenarioInv, ListInv, PlaceInv
<1> QED BY HostInvariant, <1>1, PTL

\* A program that looked a core up by name accesses no other in its place: the
\* probing, the list, the search, the translation of the address and the page
\* mapped under it agree on where the core is (capability.c, hash.c:105-136,
\* tc_eim.c:67-79, novena-eim.c:654-703).
THEOREM LookedUpCoreIsUsed == Spec => []RightCore
<1>1. HostInv => RightCore
  BY DEF HostInv, LogInv
<1> QED BY HostInvariant, <1>1, PTL

\* Under the programs the access layer does what it does on its own.
THEOREM HostUsesEim == Spec => EimSpec
<1>1. Init => EimInit
  BY DEF Init
<1>2. HostInv /\ [Next]_vars => [EimNext]_eimVars
  BY HostStepInv
<1> QED BY HostInvariant, <1>1, <1>2, PTL DEF Spec, EimSpec

\* Hence every access of a program reaches its address, and the FPGA is only
\* accessed when it has been configured.
THEOREM ProgramAccessesReachTheirAddress ==
    Spec => [](AccessReachesItsAddress /\ FpgaUsedWhenConfigured)
BY HostUsesEim, EveryAccessReachesItsAddress, NoAccessBeforeSetup, PTL

-----------------------------------------------------------------------------
(***************************************************************************)
(* Scripts that are patient.  CommandHeard and NoStaleRead are not         *)
(* inductive: that a command is heard depends on what the core is doing    *)
(* when it is written.  PatienceInv keeps account of it, script step by    *)
(* script step: which operation may be in progress, that the flags show    *)
(* it, what the command registers hold and which way AES goes.  The text   *)
(* of a patient script (Patience) is what makes each step keep it.         *)
(***************************************************************************)

\* The core the current test accesses.
Target == base_addr \div CORE_SIZE + 1

\* What a core at work shows.
BitUp(c, b) == IF b = "ready" THEN c.ready ELSE c.valid
Signalling(c) ==
    c.op # "none" => \A b \in {"ready", "valid"} \cap Signals(c.kind, c.op) : ~BitUp(c, b)

\* Step m of a test may be next: who is at work, what the command registers
\* hold, and the configuration AES has.
OpsAt(sc, t, g, cs, m) ==
    \A i \in DOMAIN cs : cs[i].op # "none" =>
        /\ i = g /\ Meant(sc, t, i)
        /\ \E k \in 1 .. m - 1 : /\ Pending(cs[i].kind, t, k, m)
                                 /\ cs[i].op \in Bits(t.steps[k].val)
CtlAt(sc, t, g, cs, m) ==
    \A i \in DOMAIN cs : cs[i].kind # "plain" =>
        Bits(cs[i].ctl) \in (IF i = g THEN ControlAt(sc, t, m) ELSE Left(sc))
ConfigAt(t, g, cs, m) ==
    g \in DOMAIN cs /\ cs[g].kind = "aes" =>
        \A j \in 1 .. m - 1 :
            LastWrite(t, AES_ADDR_CONFIG, j, m) /\ t.steps[j].var = "" =>
                Reg(cs[g], AES_ADDR_CONFIG) = t.steps[j].val

CoresAt(sc, t, g, cs, m) ==
    OpsAt(sc, t, g, cs, m) /\ CtlAt(sc, t, g, cs, m) /\ ConfigAt(t, g, cs, m)

\* Between tests.
Idle(sc, cs) ==
    \A i \in DOMAIN cs : /\ cs[i].op = "none"
                         /\ cs[i].kind # "plain" => Bits(cs[i].ctl) \in Left(sc)

\* Where the program is.
RunInv ==
    outcome = "running" =>
        /\ \A i \in log.owed : cores[i].op # "none"
        /\ step = 1 => Idle(scenario, cores)
        /\ step # 1 => AtStep /\ CoresAt(scenario, current, Target, cores, step)

PatienceInv ==
    /\ \A i \in DOMAIN cores : Signalling(cores[i])
    /\ ~Excused => ~log.unheard /\ ~log.stale /\ RunInv

AllPatient == \A sc \in ToSet(Scenarios) : Patient(sc)

-----------------------------------------------------------------------------
(* Scripts.                                                                *)

\* An operation may be in progress until a step shows that it is over.
LEMMA PendingStep ==
    ASSUME NEW kind, NEW t, NEW m \in Nat, NEW k \in 1 .. m - 1, Pending(kind, t, k, m),
           ~Shows(kind, t.steps[k], t.steps[m])
    PROVE  Pending(kind, t, k, m + 1)
<1>1. k \in 1 .. (m + 1) - 1 /\ Commands(t.steps[k])
  BY DEF Pending
<1>2. ASSUME NEW j \in k + 1 .. (m + 1) - 1 PROVE ~Shows(kind, t.steps[k], t.steps[j])
  <2>1. j = m \/ j \in k + 1 .. m - 1
    OBVIOUS
  <2> QED BY <2>1 DEF Pending
<1> QED BY <1>1, <1>2 DEF Pending

\* The operation that a step began may be in progress at the next.
LEMMA PendingFirst ==
    ASSUME NEW kind, NEW t, NEW m \in Nat \ {0}, Commands(t.steps[m])
    PROVE  Pending(kind, t, m, m + 1)
BY DEF Pending

\* The last write before the next step is this step's or an earlier one.
LEMMA LastWriteStep ==
    ASSUME NEW t, NEW at, NEW m \in Nat \ {0}, NEW j, LastWrite(t, at, j, m + 1)
    PROVE  \/ j = m /\ Writes(t.steps[m], at)
           \/ LastWrite(t, at, j, m) /\ ~Writes(t.steps[m], at)
<1>1. j \in 1 .. m
  BY DEF LastWrite
<1>2. CASE j = m
  BY <1>2 DEF LastWrite
<1>3. CASE j # m
  <2>1. j \in 1 .. m - 1 /\ m \in j + 1 .. (m + 1) - 1
    BY <1>1, <1>3
  <2>2. \A l \in j + 1 .. m - 1 : l \in j + 1 .. (m + 1) - 1
    OBVIOUS
  <2> QED BY <2>1, <2>2 DEF LastWrite
<1> QED BY <1>2, <1>3

\* A write is the last one before the next step.
LEMMA LastWriteHere ==
    ASSUME NEW t, NEW at, NEW m \in Nat \ {0}, Writes(t.steps[m], at)
    PROVE  LastWrite(t, at, m, m + 1)
BY DEF LastWrite

\* It remains the last one when a step writes elsewhere.
LEMMA LastWriteStays ==
    ASSUME NEW t, NEW at, NEW m \in Nat \ {0}, NEW j, LastWrite(t, at, j, m),
           ~Writes(t.steps[m], at)
    PROVE  LastWrite(t, at, j, m + 1)
<1>1. j \in 1 .. (m + 1) - 1 /\ Writes(t.steps[j], at)
  BY DEF LastWrite
<1>2. ASSUME NEW l \in j + 1 .. (m + 1) - 1 PROVE ~Writes(t.steps[l], at)
  <2>1. l = m \/ l \in j + 1 .. m - 1
    OBVIOUS
  <2> QED BY <2>1 DEF LastWrite
<1> QED BY <1>1, <1>2 DEF LastWrite

\* What may be in the command register, from step to step.
LEMMA ControlFirst ==
    ASSUME NEW sc, NEW t
    PROVE  ControlAt(sc, t, 1) = Left(sc)
<1>1. \A j \in 1 .. 1 - 1 : FALSE
  OBVIOUS
<1> QED BY <1>1 DEF ControlAt

\* A step that writes elsewhere leaves the command register as it may be.
LEMMA ControlSame ==
    ASSUME NEW sc, NEW t, NEW m \in Nat \ {0}, ~Writes(t.steps[m], ADDR_CTRL)
    PROVE  ControlAt(sc, t, m + 1) = ControlAt(sc, t, m)
<1>1. \A j : LastWrite(t, ADDR_CTRL, j, m + 1) <=> LastWrite(t, ADDR_CTRL, j, m)
  BY LastWriteStep, LastWriteStays
<1>2. \A j : LastWrite(t, ADDR_CTRL, j, m) => j \in 1 .. m - 1 /\ j \in 1 .. (m + 1) - 1
  BY DEF LastWrite
<1>3. {j \in 1 .. m - 1 : LastWrite(t, ADDR_CTRL, j, m)}
      = {j \in 1 .. (m + 1) - 1 : LastWrite(t, ADDR_CTRL, j, m + 1)}
  BY <1>1, <1>2
<1>4. (\E j \in 1 .. m - 1 : LastWrite(t, ADDR_CTRL, j, m))
      <=> (\E j \in 1 .. (m + 1) - 1 : LastWrite(t, ADDR_CTRL, j, m + 1))
  BY <1>1, <1>2
<1> QED BY <1>3, <1>4 DEF ControlAt

\* After a command it is the command's.
LEMMA ControlWritten ==
    ASSUME NEW sc, NEW t, NEW m \in Nat \ {0}, Writes(t.steps[m], ADDR_CTRL)
    PROVE  ControlAt(sc, t, m + 1) = {Bits(t.steps[m].val)}
<1>1. \A j : LastWrite(t, ADDR_CTRL, j, m + 1) <=> j = m
  BY LastWriteStep, LastWriteHere
<1>2. {j \in 1 .. (m + 1) - 1 : LastWrite(t, ADDR_CTRL, j, m + 1)} = {m}
  BY <1>1
<1>3. \E j \in 1 .. (m + 1) - 1 : LastWrite(t, ADDR_CTRL, j, m + 1)
  BY <1>1
<1> QED BY <1>2, <1>3 DEF ControlAt

\* At an endpoint a test leaves what may be left.
LEMMA ControlLeft ==
    ASSUME NEW sc, NEW t \in ToSet(sc.program.tests), DOMAIN t.steps = 1 .. Len(t.steps),
           Len(t.steps) \in Nat, NEW m \in 1 .. Len(t.steps) + 1, Endpoint(t, m)
    PROVE  ControlAt(sc, t, m) \subseteq Left(sc)
<1>1. CASE \E j \in 1 .. m - 1 : LastWrite(t, ADDR_CTRL, j, m)
  <2>1. ASSUME NEW j \in 1 .. m - 1, LastWrite(t, ADDR_CTRL, j, m)
        PROVE  Bits(t.steps[j].val) \in Left(sc)
    <3>1. j \in DOMAIN t.steps
      OBVIOUS
    <3>2. j \in {l \in DOMAIN t.steps : \E n \in 1 .. Len(t.steps) + 1 :
                           Endpoint(t, n) /\ LastWrite(t, ADDR_CTRL, l, n)}
      BY <2>1, <3>1
    <3> QED BY <3>2 DEF Left
  <2> QED BY <1>1, <2>1 DEF ControlAt
<1>2. CASE ~\E j \in 1 .. m - 1 : LastWrite(t, ADDR_CTRL, j, m)
  BY <1>2 DEF ControlAt
<1> QED BY <1>1, <1>2

-----------------------------------------------------------------------------
(* Cores.                                                                  *)

\* What a write outside the command register does: nothing, or it keeps the
\* value, or moves the pointer of a memory, or both.
LEMMA OtherWriteForms ==
    ASSUME NEW c, NEW a, NEW v, a # ADDR_CTRL
    PROVE  \/ Write(c, a, v) = c
           \/ \E p, n : Write(c, a, v) = SetPointer(c, p, n)
           \/ \E p, n, x : Write(c, a, v) = SetPointer(Keep(c, a, x), p, n)
           \/ \E x : Write(c, a, v) = Keep(c, a, x)
BY DEF Write, WriteRegister

\* Such a write changes nothing of what a core does and shows.
LEMMA OtherWrite ==
    ASSUME NEW c, NEW a, NEW v, NEW kind, SameCore(c, kind), a # ADDR_CTRL
    PROVE  /\ Write(c, a, v).op = c.op /\ Write(c, a, v).ctl = c.ctl
           /\ Write(c, a, v).kind = c.kind
           /\ Write(c, a, v).ready = c.ready /\ Write(c, a, v).valid = c.valid
<1> USE DEF SameCore, CoreFields
<1>1. ASSUME NEW p, NEW n, NEW d, SameCore(d, kind)
      PROVE  LET x == SetPointer(d, p, n)
             IN  /\ x.op = d.op /\ x.ctl = d.ctl /\ x.kind = d.kind
                 /\ x.ready = d.ready /\ x.valid = d.valid
  BY <1>1 DEF SetPointer
<1>2. ASSUME NEW b, NEW x
      PROVE  LET y == Keep(c, b, x)
             IN  /\ y.op = c.op /\ y.ctl = c.ctl /\ y.kind = c.kind
                 /\ y.ready = c.ready /\ y.valid = c.valid /\ SameCore(y, kind)
  BY DEF Keep
<1>3. \/ Write(c, a, v) = c
      \/ \E p, n : Write(c, a, v) = SetPointer(c, p, n)
      \/ \E p, n, x : Write(c, a, v) = SetPointer(Keep(c, a, x), p, n)
      \/ \E x : Write(c, a, v) = Keep(c, a, x)
  BY OtherWriteForms
<1> HIDE DEF SameCore
<1> QED BY <1>1, <1>2, <1>3

\* A write at the command register is a command.
LEMMA ControlWrite ==
    ASSUME NEW c, NEW v
    PROVE  Write(c, ADDR_CTRL, v) = Command(c, v)
BY DEF Write

\* AES takes every write.
LEMMA AesWrite ==
    ASSUME NEW c, NEW a, NEW v, c.kind = "aes", a # ADDR_CTRL
    PROVE  Write(c, a, v) = Keep(c, a, v)
BY DEF Write, WriteRegister, Deaf, HashCores

\* A register holds what was written last.
LEMMA RegKept ==
    ASSUME NEW c, NEW a, NEW b, NEW v, NEW kind, SameCore(c, kind)
    PROVE  Reg(Keep(c, a, v), b) = IF b = a THEN v ELSE Reg(c, b)
BY DEF Keep, Put, Reg, SameCore, CoreFields

\* The operation that begins is one asked for.
LEMMA BegunFacts ==
    ASSUME NEW c, NEW w
    PROVE  /\ c.op # "none" \/ c.kind = "plain" \/ Asked(c, w) = {} => Begun(c, w) = "none"
           /\ Begun(c, w) # "none" => /\ Begun(c, w) \in Asked(c, w)
                                      /\ Begun(c, w) \in {"init", "next"}
           /\ c.op = "none" /\ c.kind # "plain" /\ Asked(c, w) # {} => Begun(c, w) # "none"
<1>1. Asked(c, w) \subseteq {"init", "next"}
  BY DEF Asked, Bits
<1> QED BY <1>1 DEF Begun

\* A command: the operation asked for begins and shows, or none does.
LEMMA CommandStep ==
    ASSUME NEW c, NEW w, NEW kind \in Kinds, SameCore(c, kind), Signalling(c)
    PROVE  /\ Signalling(Command(c, w)) /\ Command(c, w).kind = kind
           /\ Command(c, w).reg = c.reg
           /\ kind # "plain" /\ c.op = "none" => Command(c, w).ctl = w
           /\ c.op = "none" => Command(c, w).op \in Bits(w) \cup {"none"}
           /\ c.op = "none" => Command(c, w).op = Begun(c, w)
           /\ Begun(c, w) = "none" => Command(c, w).op = c.op
<1> USE DEF SameCore, CoreFields
<1>1. CASE kind = "plain" \/ Deaf(c)
  <2>1. Command(c, w) = c /\ Begun(c, w) = "none" /\ (kind # "plain" => c.op # "none")
    BY <1>1, BegunFacts DEF Command, Deaf
  <2> QED BY <1>1, <2>1
<1>2. CASE kind # "plain" /\ ~Deaf(c) /\ Begun(c, w) = "none"
  <2>1. Command(c, w) = [Lowered(c, w) EXCEPT !.ctl = w]
    BY <1>2 DEF Command
  <2>2. /\ Lowered(c, w).op = c.op /\ Lowered(c, w).kind = c.kind
        /\ Lowered(c, w).reg = c.reg /\ DOMAIN Lowered(c, w) = CoreFields
        /\ c.op # "none" => Lowered(c, w) = c
    BY DEF Lowered
  <2>3. /\ Command(c, w).op = c.op /\ Command(c, w).kind = c.kind
        /\ Command(c, w).reg = c.reg /\ Command(c, w).ctl = w
        /\ c.op # "none" => /\ Command(c, w).ready = c.ready
                            /\ Command(c, w).valid = c.valid
    BY <2>1, <2>2
  <2>4. Signalling(Command(c, w))
    BY <2>3 DEF Signalling, BitUp
  <2> QED BY <1>2, <2>3, <2>4
<1>3. CASE kind # "plain" /\ ~Deaf(c) /\ Begun(c, w) # "none"
  <2> DEFINE op == Begun(c, w)
  <2>1. Command(c, w) = [c EXCEPT !.ctl = w, !.op = op,
                       !.ready = ReadyDuring(c, op), !.valid = ValidDuring(c, op)]
    BY <1>3 DEF Command
  <2>2. /\ Command(c, w).op = op /\ Command(c, w).kind = c.kind
        /\ Command(c, w).reg = c.reg /\ Command(c, w).ctl = w
        /\ Command(c, w).ready = ReadyDuring(c, op)
        /\ Command(c, w).valid = ValidDuring(c, op)
    BY <2>1
  <2>3. c.op = "none" /\ op \in Asked(c, w) /\ op \in {"init", "next"}
    BY <1>3, BegunFacts
  <2>4. Asked(c, w) \subseteq Bits(w)
    BY DEF Asked
  <2>5. "ready" \in Signals(kind, op) => ~ReadyDuring(c, op)
    BY <2>3, <1>3 DEF Signals, ReadyDuring, Kinds, HashCores
  <2>6. "valid" \in Signals(kind, op) => ~ValidDuring(c, op)
    BY <2>3, <1>3 DEF Signals, ValidDuring, Kinds, HashCores
  <2>7. Signalling(Command(c, w))
    BY <2>2, <2>5, <2>6 DEF Signalling, BitUp
  <2> QED BY <1>3, <2>2, <2>3, <2>4, <2>7
<1> QED BY <1>1, <1>2, <1>3

\* The flags go on showing that a core is at work when it is written elsewhere.
LEMMA OtherWriteSignals ==
    ASSUME NEW c, NEW a, NEW v, NEW kind, SameCore(c, kind), a # ADDR_CTRL, Signalling(c)
    PROVE  Signalling(Write(c, a, v))
BY OtherWrite DEF Signalling, BitUp

\* A read changes nothing of what a core does and shows.
LEMMA ReadSignals ==
    ASSUME NEW c, NEW a, NEW kind, SameCore(c, kind)
    PROVE  /\ Signalling(c) => Signalling(AfterRead(c, a))
           /\ AfterRead(c, a).op = c.op /\ AfterRead(c, a).ctl = c.ctl
           /\ AfterRead(c, a).reg = c.reg /\ AfterRead(c, a).kind = c.kind
BY DEF AfterRead, SetPointer, Signalling, BitUp, SameCore, CoreFields

\* The end of an operation keeps the command register, and AES's direction.
LEMMA FinishedCore ==
    ASSUME NEW c, NEW kind \in Kinds, SameCore(c, kind), kind # "plain"
    PROVE  /\ Finished(c).op = "none" /\ Finished(c).ctl = c.ctl
           /\ Finished(c).kind = c.kind
           /\ Reg(Finished(c), AES_ADDR_CONFIG) = Reg(c, AES_ADDR_CONFIG)
<1> DEFINE Good(d) == /\ SameCore(d, kind) /\ d.ctl = c.ctl
                      /\ Reg(d, AES_ADDR_CONFIG) = Reg(c, AES_ADDR_CONFIG)
<1>1. c.kind = kind
  BY DEF SameCore
<1>2. ASSUME NEW d, Good(d), NEW a \in ResultRegisters, NEW x PROVE Good(Keep(d, a, x))
  <2>1. SameCore(Keep(d, a, x), kind)
    BY <1>2, KeepIsSame
  <2>2. a # AES_ADDR_CONFIG
    BY DEF ResultRegisters, ADDR_DIGEST, SHA512_ADDR_DIGEST, SHA3_STATE,
       AES_ADDR_RESULT, DataPort, MODEXP_RESULT_PTR_RST, S6_RESULT, A7_COEFF_OUT,
       A7_FACTOR_OUT, A7_RESULT, EC_XOUT, EC_YOUT, AES_ADDR_CONFIG
  <2>3. Reg(Keep(d, a, x), AES_ADDR_CONFIG) = Reg(d, AES_ADDR_CONFIG)
    BY <1>2, <2>2, RegKept
  <2>4. Keep(d, a, x).ctl = d.ctl
    BY <1>2 DEF Keep, SameCore, CoreFields
  <2> QED BY <1>2, <2>1, <2>3, <2>4
<1>3. ASSUME NEW d, Good(d), NEW x PROVE Good([d EXCEPT !.acc = x])
  BY <1>3 DEF SameCore, CoreFields, Reg
<1>4. Good(c)
  OBVIOUS
<1>5. Good(Computed(c))
  <2> HIDE DEF Good
  <2>1. \/ \E x : Computed(c) = [c EXCEPT !.acc = x]
        \/ \E a \in ResultRegisters : \E x : Computed(c) = Keep(c, a, x)
        \/ \E a, b \in ResultRegisters : \E x, y :
                 Computed(c) = Keep(Keep(c, a, x), b, y)
        \/ \E a \in ResultRegisters : \E x, z :
                 Computed(c) = [Keep(c, a, x) EXCEPT !.acc = z]
        \/ \E a, b \in ResultRegisters : \E x, y, z :
                 Computed(c) = [Keep(Keep(c, a, x), b, y) EXCEPT !.acc = z]
    BY <1>1, ComputedForms
  <2>2. ASSUME NEW x, Computed(c) = [c EXCEPT !.acc = x] PROVE Good(Computed(c))
    BY <2>2, <1>3, <1>4
  <2>3. ASSUME NEW a \in ResultRegisters, NEW x, Computed(c) = Keep(c, a, x)
        PROVE  Good(Computed(c))
    BY <2>3, <1>2, <1>4
  <2>4. ASSUME NEW a \in ResultRegisters, NEW b \in ResultRegisters, NEW x, NEW y,
               Computed(c) = Keep(Keep(c, a, x), b, y)
        PROVE  Good(Computed(c))
    <3>1. PICK e : e = Keep(c, a, x)
      OBVIOUS
    <3>2. Good(e)
      BY <1>2, <1>4, <3>1
    <3>3. Good(Keep(e, b, y))
      BY <1>2, <3>2
    <3> QED BY <2>4, <3>1, <3>3
  <2>5. ASSUME NEW a \in ResultRegisters, NEW x, NEW z,
               Computed(c) = [Keep(c, a, x) EXCEPT !.acc = z]
        PROVE  Good(Computed(c))
    <3>1. PICK e : e = Keep(c, a, x)
      OBVIOUS
    <3>2. Good(e)
      BY <1>2, <1>4, <3>1
    <3> QED BY <1>3, <2>5, <3>1, <3>2
  <2>6. ASSUME NEW a \in ResultRegisters, NEW b \in ResultRegisters, NEW x, NEW y, NEW z,
               Computed(c) = [Keep(Keep(c, a, x), b, y) EXCEPT !.acc = z]
        PROVE  Good(Computed(c))
    <3>1. PICK e : e = Keep(c, a, x)
      OBVIOUS
    <3>2. Good(e)
      BY <1>2, <1>4, <3>1
    <3>3. PICK h : h = Keep(e, b, y)
      OBVIOUS
    <3>4. Good(h)
      BY <1>2, <3>2, <3>3
    <3> QED BY <1>3, <2>6, <3>1, <3>3, <3>4
  <2> QED BY <2>1, <2>2, <2>3, <2>4, <2>5, <2>6
<1>6. /\ Finished(c).op = "none" /\ Finished(c).ctl = Computed(c).ctl
      /\ Finished(c).kind = Computed(c).kind /\ Finished(c).reg = Computed(c).reg
  BY <1>5 DEF Finished, SameCore, CoreFields
<1> QED BY <1>1, <1>5, <1>6 DEF Reg, SameCore
-----------------------------------------------------------------------------
(* Accesses of a patient script.                                           *)

\* The cores of a fabric are of the kinds there are.
LEMMA FabricKinds ==
    ASSUME HostInv, NEW i \in DOMAIN scenario.fabric
    PROVE  scenario.fabric[i].kind \in Kinds
<1>1. scenario.fabric \in Seq([kind : Kinds, name : Seq(STRING), version : Seq(STRING)])
  BY ScenarioFacts DEF HostInv, WellFormed
<1>2. scenario.fabric[i] \in [kind : Kinds, name : Seq(STRING), version : Seq(STRING)]
  BY <1>1, SequenceFacts
<1> QED BY <1>2

\* Where the program is in a script that is patient.
LEMMA PatientFacts ==
    ASSUME AllPatient, HostInv
    PROVE  /\ Patient(scenario) /\ AddressesCore(scenario)
           /\ current \in ToSet(program.tests) /\ this \in ToSet(current.steps)
           /\ DOMAIN current.steps = 1 .. Len(current.steps)
           /\ Len(current.steps) \in Nat /\ Len(current.steps) # 0
           /\ step \in 1 .. Len(current.steps) /\ step \in Nat \ {0}
           /\ WellFormedTest(program, current) /\ WellFormedStep(program, this)
           /\ \A i : Meant(scenario, current, i) =>
                 /\ i \in DOMAIN cores /\ cores[i].kind \in Kinds
                 /\ SameCore(cores[i], cores[i].kind)
                 /\ PatientTest(scenario, current, cores[i].kind)
<1>1. scenario \in ToSet(Scenarios) /\ Patient(scenario)
  BY DEF AllPatient, HostInv, ScenarioInv
<1>2. /\ test \in DOMAIN program.tests /\ step \in DOMAIN current.steps
      /\ WellFormedTest(program, current) /\ Len(current.steps) \in Nat \ {0}
      /\ DOMAIN current.steps = 1 .. Len(current.steps)
  BY Places DEF HostInv, PlaceInv, current
<1>3. current \in ToSet(program.tests) /\ this \in ToSet(current.steps)
  BY <1>2 DEF ToSet, current, this
<1>4. WellFormedStep(program, this)
  BY <1>2 DEF WellFormedTest, this
<1>5. ASSUME NEW i, Meant(scenario, current, i)
      PROVE  /\ i \in DOMAIN cores /\ cores[i].kind \in Kinds
             /\ SameCore(cores[i], cores[i].kind)
             /\ PatientTest(scenario, current, cores[i].kind)
  <2>1. i \in DOMAIN scenario.fabric
    BY <1>5 DEF Meant
  <2>2. i \in DOMAIN cores /\ SameCore(cores[i], scenario.fabric[i].kind)
    BY <2>1 DEF HostInv, CoresInv
  <2>3. scenario.fabric[i].kind \in Kinds
    BY <2>1, FabricKinds
  <2>4. PatientTest(scenario, current, scenario.fabric[i].kind)
    BY <1>1, <1>3, <1>5, <2>1 DEF Patient, program
  <2> QED BY <2>2, <2>3, <2>4 DEF SameCore
<1> QED BY <1>1, <1>2, <1>3, <1>4, <1>5 DEF Patient

\* So are the cores' states.
LEMMA CoreKinds ==
    ASSUME HostInv, NEW i \in DOMAIN cores
    PROVE  SameCore(cores[i], cores[i].kind) /\ cores[i].kind \in Kinds
BY FabricKinds DEF HostInv, CoresInv, SameCore

\* A base is that of its slot.
LEMMA SlotOfBase ==
    ASSUME NEW k \in Nat
    PROVE  (k * CORE_SIZE) \div CORE_SIZE = k
BY DEF CORE_SIZE

\* A lone core has the addresses of one segment.
LEMMA LoneCore ==
    ASSUME NEW n \in Nat, n < 32 * CORE_SIZE
    PROVE  BusCore(eim_offset(n)) * CORE_SIZE + BusRegister(eim_offset(n)) = n
<1>1. PICK k, r : k = n \div 256 /\ r = n % 256
  OBVIOUS
<1>2. PICK z \in 0 .. 7 : z = 0
  OBVIOUS
<1>3. z \in 0 .. 7 /\ k \in 0 .. 31 /\ r \in 0 .. 255
  BY <1>1 DEF CORE_SIZE
<1> DEFINE a == eim_offset((z * 32 + k) * CORE_SIZE + r)
<1>4. BusCore(a) = k
  BY ONLY <1>3, TranslationRoundTrip, ZenonT(40)
<1>5. BusRegister(a) = r
  BY ONLY <1>3, TranslationRoundTrip, ZenonT(40)
<1>6. n = (z * 32 + k) * CORE_SIZE + r
  BY <1>1, <1>2 DEF CORE_SIZE
<1>7. BusCore(eim_offset(n)) = k /\ BusRegister(eim_offset(n)) = r
  BY ONLY <1>4, <1>5, <1>6
<1>8. n = k * CORE_SIZE + r
  BY <1>1 DEF CORE_SIZE
<1> QED BY <1>7, <1>8

\* A step accesses the register it names of the target.
LEMMA StepTarget ==
    ASSUME AllPatient, HostInv, AtStep, Call(address)
    PROVE  CalledCore(address) = Target /\ CalledRegister(address) = this.at
<1>1. CASE program.lookups = <<>>
  <2>1. current.core = 0 /\ this.at \in Nat /\ base_addr = 0 /\ address = this.at
    BY <1>1, PatientFacts DEF WellFormedTest, WellFormedStep, base_addr, address
  <2>2. Target = 1
    BY <2>1 DEF Target, CORE_SIZE
  <2>3. CASE program.bus = "eim"
    <3>1. scenario.alone /\ this.at < 32 * CORE_SIZE
      BY <1>1, <2>3, PatientFacts DEF AddressesCore, program
    <3>2. access'.reached = eim_offset(this.at)
      BY <2>1, <2>3, CallStep DEF HostInv
    <3>3. BusCore(eim_offset(this.at)) * CORE_SIZE + BusRegister(eim_offset(this.at)) = this.at
      BY <2>1, <3>1, LoneCore
    <3> QED BY <2>1, <2>2, <2>3, <3>1, <3>2, <3>3
            DEF CalledCore, CalledRegister, CoreOf, RegisterOf
  <2>4. CASE program.bus # "eim"
    BY <2>1, <2>2, <2>4 DEF CalledCore, CalledRegister
  <2> QED BY <2>3, <2>4
<1>2. CASE program.lookups # <<>>
  <2>1. PICK k \in 0 .. Slots - 1 :
              /\ base_addr = k * CORE_SIZE
              /\ this.at \in 0 .. CORE_SIZE - 1
              /\ address = k * CORE_SIZE + this.at
    BY <1>2, StepAddress
  <2>2. address \in Nat
    BY AddressIsNat
  <2>3. program.bus = "eim" /\ ~scenario.alone
    BY <1>2, ScenarioFacts DEF HostInv, WellFormed, WellFormedProgram, program
  <2>4. access'.reached = eim_offset(address)
    BY <2>2, <2>3, CallStep DEF HostInv
  <2> DEFINE a == eim_offset(k * CORE_SIZE + this.at)
  <2>5. BusSegment(a) * 32 + BusCore(a) + 1 = k + 1 /\ BusRegister(a) = this.at
    BY <2>1, SlotReached
  <2>6. access'.reached = a
    BY <2>1, <2>4
  <2> HIDE DEF a
  <2>7. CalledCore(address) = k + 1 /\ CalledRegister(address) = this.at
    BY <2>3, <2>5, <2>6 DEF CalledCore, CalledRegister, CoreOf, RegisterOf
  <2>8. k \in Nat
    BY SlotType
  <2>9. Target = k + 1
    BY <2>1, <2>8, SlotOfBase DEF Target
  <2> QED BY <2>7, <2>9
<1> QED BY <1>1, <1>2

\* An access that does not go astray is to the core the test is meant for.
LEMMA TargetMeant ==
    ASSUME AllPatient, HostInv, AtStep, ~Strayed(Target)
    PROVE  Meant(scenario, current, Target)
<1>1. CASE current.core = 0
  <2>1. Target = 1
    BY <1>1 DEF Target, base_addr, CORE_SIZE
  <2>2. /\ scenario.fabric # <<>>
        /\ scenario.fabric \in Seq([kind : Kinds, name : Seq(STRING), version : Seq(STRING)])
    BY PatientFacts, ScenarioFacts DEF HostInv, AddressesCore, WellFormed
  <2>3. 1 \in DOMAIN scenario.fabric
    BY <2>2
  <2> QED BY <1>1, <2>1, <2>3 DEF Meant
<1>2. CASE current.core # 0
  <2>1. Target \in DOMAIN cores
        /\ IsPrefix(program.lookups[current.core], Reg(cores[Target], ADDR_NAME))
    BY <1>2 DEF Strayed
  <2>2. program.lookups # <<>>
    <3>1. current.core \in DOMAIN program.lookups
      BY <1>2, PatientFacts DEF WellFormedTest
    <3> QED BY <3>1
  <2>3. Target \in DOMAIN scenario.fabric
        /\ Reg(cores[Target], ADDR_NAME) = scenario.fabric[Target].name
    BY <2>1, <2>2 DEF HostInv, CoresInv, SameIdentity
  <2> QED BY <1>2, <2>1, <2>3 DEF Meant, program
<1> QED BY <1>1, <1>2

-----------------------------------------------------------------------------
(* The account of the cores, from step to step.                            *)

\* The step at which the program is may find the cores as they are.
LEMMA CoresHere ==
    ASSUME AllPatient, HostInv, RunInv, AtStep
    PROVE  CoresAt(scenario, current, Target, cores, step)
<1>1. outcome = "running"
  BY DEF AtStep, Testing
<1>2. CASE step = 1
  <2>1. Idle(scenario, cores)
    BY <1>1, <1>2 DEF RunInv
  <2>2. ControlAt(scenario, current, 1) = Left(scenario)
    BY ControlFirst
  <2>3. \A j \in 1 .. 1 - 1 : FALSE
    OBVIOUS
  <2> QED BY <1>2, <2>1, <2>2, <2>3 DEF CoresAt, OpsAt, CtlAt, ConfigAt, Idle
<1> QED BY <1>1, <1>2 DEF RunInv

\* What an action of the program leaves of the cores.
LEMMA CoresStay ==
    ASSUME HostInv, HostInv', UNCHANGED scenario
    PROVE  /\ DOMAIN cores' = DOMAIN cores
           /\ \A i \in DOMAIN cores : cores'[i].kind = cores[i].kind
BY DEF HostInv, CoresInv, SameCore

\* At the end of a test no core is at work.
LEMMA EndIdle ==
    ASSUME NEW sc, NEW t \in ToSet(sc.program.tests), DOMAIN t.steps = 1 .. Len(t.steps),
           Len(t.steps) \in Nat, NEW m \in 1 .. Len(t.steps) + 1, Endpoint(t, m),
           NEW g, NEW cs, CoresAt(sc, t, g, cs, m),
           \A i \in DOMAIN cs : Meant(sc, t, i) => PatientTest(sc, t, cs[i].kind)
    PROVE  Idle(sc, cs)
<1> SUFFICES ASSUME NEW i \in DOMAIN cs
             PROVE  /\ cs[i].op = "none"
                    /\ cs[i].kind # "plain" => Bits(cs[i].ctl) \in Left(sc)
  BY DEF Idle
<1>1. ASSUME cs[i].op # "none" PROVE FALSE
  <2>1. /\ PatientTest(sc, t, cs[i].kind)
        /\ \E k \in 1 .. m - 1 : Pending(cs[i].kind, t, k, m)
    BY <1>1 DEF CoresAt, OpsAt
  <2>2. PICK k \in 1 .. m - 1 : Pending(cs[i].kind, t, k, m)
    BY <2>1
  <2>3. k \in DOMAIN t.steps
    OBVIOUS
  <2>4. CASE m = Len(t.steps) + 1
    BY <2>1, <2>2, <2>3, <2>4 DEF PatientTest
  <2>5. CASE m # Len(t.steps) + 1
    <3>1. /\ m \in DOMAIN t.steps /\ t.steps[m].strict
          /\ t.steps[m].do \in {"expect", "compare"}
      BY <2>5 DEF Endpoint
    <3>2. Harmless(cs[i].kind, t, k, m)
      BY <2>1, <2>2, <3>1 DEF PatientTest
    <3> QED BY <3>1, <3>2 DEF Harmless, Writes
  <2> QED BY <2>4, <2>5
<1>2. ControlAt(sc, t, m) \subseteq Left(sc)
  BY ControlLeft
<1>3. cs[i].kind # "plain" => Bits(cs[i].ctl) \in Left(sc)
  BY <1>2 DEF CoresAt, CtlAt
<1> QED BY <1>1, <1>3

\* A step of the test is over: the next step, or the next test, is due.
LEMMA PassKeepsRun ==
    ASSUME AllPatient, HostInv, HostInv', UNCHANGED <<scenario, bases>>, AtStep, StepPasses,
           CoresAt(scenario, current, Target, cores', step + 1),
           \A i \in log'.owed : cores'[i].op # "none"
    PROVE  RunInv'
<1> SUFFICES ASSUME outcome' = "running"
             PROVE  /\ step' = 1 => Idle(scenario, cores')
                    /\ step' # 1 => /\ AtStep'
                                    /\ CoresAt(scenario, current', Target', cores', step')
  BY DEF RunInv
<1>1. step \in Nat \ {0} /\ Len(current.steps) \in Nat /\ step \in 1 .. Len(current.steps)
  BY PatientFacts
<1>2. CASE step < Len(current.steps)
  <2>1. step' = step + 1 /\ UNCHANGED <<test, outcome>>
    BY <1>2 DEF StepPasses
  <2>2. step' # 1
    BY <1>1, <2>1
  <2>3. current' = current /\ Target' = Target
    BY <2>1 DEF current, Target, base_addr, program
  <2>4. AtStep'
    BY <2>1 DEF AtStep, Testing, Searching, Skipped, Absent, current, base_addr, program
  <2> QED BY <2>1, <2>2, <2>3, <2>4
<1>3. CASE ~(step < Len(current.steps))
  <2>1. step' = 1
    BY <1>3 DEF StepPasses, TestPasses
  <2>2. step + 1 = Len(current.steps) + 1
    BY <1>1, <1>3
  <2>3. Endpoint(current, step + 1) /\ step + 1 \in 1 .. Len(current.steps) + 1
    BY <1>1, <2>2 DEF Endpoint
  <2>4. \A i \in DOMAIN cores' : Meant(scenario, current, i) =>
             PatientTest(scenario, current, cores'[i].kind)
    BY CoresStay, PatientFacts
  <2>5. current \in ToSet(scenario.program.tests) /\ DOMAIN current.steps = 1 .. Len(current.steps)
    BY PatientFacts DEF program
  <2>6. Idle(scenario, cores')
    BY <1>1, <2>3, <2>4, <2>5, EndIdle
  <2> QED BY <2>1, <2>6
<1> QED BY <1>2, <1>3

\* A comparison fails: the test is over, or the next step is due.
LEMMA FailKeepsRun ==
    ASSUME AllPatient, HostInv, HostInv', UNCHANGED <<scenario, bases>>, AtStep, StepFails,
           this.do \in {"expect", "compare"},
           CoresAt(scenario, current, Target, cores', step),
           CoresAt(scenario, current, Target, cores', step + 1),
           \A i \in log'.owed : cores'[i].op # "none"
    PROVE  RunInv'
<1>1. CASE this.strict
  <2>1. step' = 1
    BY <1>1 DEF StepFails, TestFails
  <2>2. step \in 1 .. Len(current.steps) /\ Len(current.steps) \in Nat
        /\ DOMAIN current.steps = 1 .. Len(current.steps)
    BY PatientFacts
  <2>3. Endpoint(current, step) /\ step \in 1 .. Len(current.steps) + 1
    BY <1>1, <2>2 DEF Endpoint, this
  <2>4. \A i \in DOMAIN cores' : Meant(scenario, current, i) =>
             PatientTest(scenario, current, cores'[i].kind)
    BY CoresStay, PatientFacts
  <2>5. current \in ToSet(scenario.program.tests)
    BY PatientFacts DEF program
  <2>6. Idle(scenario, cores')
    BY <2>2, <2>3, <2>4, <2>5, EndIdle
  <2> QED BY <2>1, <2>6 DEF RunInv
<1>2. CASE ~this.strict
  BY <1>2, PassKeepsRun DEF StepFails
<1> QED BY <1>1, <1>2

\* A step that writes neither a command nor the configuration, and that does
\* not wait in vain, changes nothing in the account of the cores.
SameWork(cs, ds) ==
    /\ DOMAIN ds = DOMAIN cs
    /\ \A i \in DOMAIN cs : /\ ds[i].op = cs[i].op /\ ds[i].ctl = cs[i].ctl
                            /\ ds[i].kind = cs[i].kind
                            /\ Reg(ds[i], AES_ADDR_CONFIG) = Reg(cs[i], AES_ADDR_CONFIG)

\* The account of the cores is kept when their work is.
LEMMA SameWorkHere ==
    ASSUME NEW sc, NEW t, NEW g, NEW cs, NEW ds, NEW m, CoresAt(sc, t, g, cs, m),
           SameWork(cs, ds)
    PROVE  CoresAt(sc, t, g, ds, m)
BY DEF CoresAt, OpsAt, CtlAt, ConfigAt, SameWork

\* The account of AES's direction, past a step that does not write it.
LEMMA ConfigSame ==
    ASSUME NEW t, NEW g, NEW cs, NEW m \in Nat \ {0}, ConfigAt(t, g, cs, m),
           ~Writes(t.steps[m], AES_ADDR_CONFIG)
    PROVE  ConfigAt(t, g, cs, m + 1)
<1> SUFFICES ASSUME g \in DOMAIN cs, cs[g].kind = "aes", NEW j \in 1 .. (m + 1) - 1,
                    LastWrite(t, AES_ADDR_CONFIG, j, m + 1), t.steps[j].var = ""
             PROVE  Reg(cs[g], AES_ADDR_CONFIG) = t.steps[j].val
  BY DEF ConfigAt
<1>1. LastWrite(t, AES_ADDR_CONFIG, j, m)
  BY LastWriteStep
<1>2. j \in 1 .. m - 1
  BY <1>1 DEF LastWrite
<1> QED BY <1>1, <1>2 DEF ConfigAt

\* The account of who is at work, past a step that does not show its end.
LEMMA OpsNext ==
    ASSUME NEW sc, NEW t, NEW g, NEW cs, NEW m \in Nat \ {0}, OpsAt(sc, t, g, cs, m),
           \A i \in DOMAIN cs : \A k \in 1 .. m - 1 :
              cs[i].op # "none" /\ i = g /\ cs[i].op \in Bits(t.steps[k].val) =>
                 ~Shows(cs[i].kind, t.steps[k], t.steps[m])
    PROVE  OpsAt(sc, t, g, cs, m + 1)
<1> SUFFICES ASSUME NEW i \in DOMAIN cs, cs[i].op # "none"
             PROVE  /\ i = g /\ Meant(sc, t, i)
                    /\ \E k \in 1 .. (m + 1) - 1 : /\ Pending(cs[i].kind, t, k, m + 1)
                                                   /\ cs[i].op \in Bits(t.steps[k].val)
  BY DEF OpsAt
<1>1. PICK k \in 1 .. m - 1 : /\ Pending(cs[i].kind, t, k, m)
                              /\ cs[i].op \in Bits(t.steps[k].val)
  BY DEF OpsAt
<1>2. i = g /\ Meant(sc, t, i)
  BY DEF OpsAt
<1>3. Pending(cs[i].kind, t, k, m + 1)
  BY <1>1, <1>2, PendingStep
<1>4. k \in 1 .. (m + 1) - 1
  OBVIOUS
<1> QED BY <1>1, <1>2, <1>3, <1>4

\* The whole account, past a step that writes neither a command nor AES's
\* direction.
LEMMA NextSame ==
    ASSUME NEW sc, NEW t, NEW g, NEW cs, NEW m \in Nat \ {0}, CoresAt(sc, t, g, cs, m),
           ~Writes(t.steps[m], ADDR_CTRL), ~Writes(t.steps[m], AES_ADDR_CONFIG),
           \A i \in DOMAIN cs : \A k \in 1 .. m - 1 :
              cs[i].op # "none" /\ i = g /\ cs[i].op \in Bits(t.steps[k].val) =>
                 ~Shows(cs[i].kind, t.steps[k], t.steps[m])
    PROVE  CoresAt(sc, t, g, cs, m + 1)
<1>1. ControlAt(sc, t, m + 1) = ControlAt(sc, t, m)
  BY ControlSame
<1>2. CtlAt(sc, t, g, cs, m + 1)
  BY <1>1 DEF CoresAt, CtlAt
<1>3. ConfigAt(t, g, cs, m + 1)
  BY ConfigSame DEF CoresAt
<1>4. OpsAt(sc, t, g, cs, m + 1)
  BY OpsNext DEF CoresAt
<1> QED BY <1>2, <1>3, <1>4 DEF CoresAt

\* The same of a step that does not wait.
LEMMA NextOther ==
    ASSUME NEW sc, NEW t, NEW g, NEW cs, NEW m \in Nat \ {0}, CoresAt(sc, t, g, cs, m),
           t.steps[m].do \notin {"write", "wait"}
    PROVE  CoresAt(sc, t, g, cs, m + 1)
BY NextSame DEF Writes, Shows

-----------------------------------------------------------------------------
(* Reads, comparisons and waits of a patient script.                       *)

SignalsUp == \A i \in DOMAIN cores : Signalling(cores[i])

\* A read changes nothing in the account of the cores.
LEMMA ReadWork ==
    ASSUME HostInv, NEW i, NEW r, ReadsCore(i, r), SignalsUp
    PROVE  SameWork(cores, cores') /\ SignalsUp'
<1>1. CASE i \in DOMAIN cores
  <2>1. cores' = [cores EXCEPT ![i] = AfterRead(cores[i], r)]
    BY <1>1 DEF ReadsCore
  <2>2. SameCore(cores[i], cores[i].kind)
    BY <1>1, CoreKinds
  <2>3. LET d == AfterRead(cores[i], r)
        IN  /\ Signalling(d) /\ d.op = cores[i].op /\ d.ctl = cores[i].ctl
            /\ d.reg = cores[i].reg /\ d.kind = cores[i].kind
    BY <1>1, <2>2, ReadSignals DEF SignalsUp
  <2> QED BY <2>1, <2>3 DEF SameWork, SignalsUp, Reg
<1>2. CASE i \notin DOMAIN cores
  BY <1>2 DEF ReadsCore, SameWork, SignalsUp
<1> QED BY <1>1, <1>2

\* A result is not read from a core that owes it.
LEMMA ReadNotOwed ==
    ASSUME AllPatient, HostInv, RunInv, AtStep, this.do \in {"read", "expect"}, NEW i
    PROVE  i \notin log.owed
<1> SUFFICES ASSUME i \in log.owed PROVE FALSE
  OBVIOUS
<1>1. i \in DOMAIN cores /\ cores[i].op # "none"
  BY DEF HostInv, LogInv, RunInv, AtStep, Testing
<1>2. OpsAt(scenario, current, Target, cores, step)
  BY CoresHere DEF CoresAt
<1>3. Meant(scenario, current, i)
      /\ \E k \in 1 .. step - 1 : Pending(cores[i].kind, current, k, step)
  BY <1>1, <1>2 DEF OpsAt
<1>4. PICK k \in 1 .. step - 1 : Pending(cores[i].kind, current, k, step)
  BY <1>3
<1>5. PatientTest(scenario, current, cores[i].kind) /\ step \in DOMAIN current.steps
  BY <1>3, PatientFacts
<1>6. Harmless(cores[i].kind, current, k, step)
  BY <1>4, <1>5 DEF PatientTest
<1> QED BY <1>6 DEF Harmless, Writes, this

\* The fields of what is logged of a read.
LEMMA LoggedFields ==
    ASSUME HostInv, NEW i
    PROVE  /\ Logged(i).late = log.late /\ Logged(i).stray = (log.stray \/ Strayed(i))
           /\ Logged(i).owed = log.owed /\ Logged(i).unheard = log.unheard
           /\ Logged(i).stale = (log.stale \/ i \in log.owed)
           /\ \A x : [Logged(i) EXCEPT !.alarms = x].late = Logged(i).late
           /\ \A x : [Logged(i) EXCEPT !.alarms = x].stray = Logged(i).stray
           /\ \A x : [Logged(i) EXCEPT !.alarms = x].owed = Logged(i).owed
           /\ \A x : [Logged(i) EXCEPT !.alarms = x].unheard = Logged(i).unheard
           /\ \A x : [Logged(i) EXCEPT !.alarms = x].stale = Logged(i).stale
BY DEF Logged, HostInv, LogInv

\* Reads keep the invariant.
LEMMA ReadPatience ==
    ASSUME AllPatient, HostInv, HostInv', PatienceInv, ReadStep
    PROVE  PatienceInv'
<1>1. PICK i \in {CalledCore(address)}, r \in {CalledRegister(address)} :
         ReadsCore(i, r) /\ log' = Logged(i)
  BY DEF ReadStep
<1>2. /\ AtStep /\ Call(address) /\ StepPasses /\ UNCHANGED <<scenario, bases>>
      /\ this.do = "read"
  BY DEF ReadStep
<1>3. SameWork(cores, cores') /\ SignalsUp'
  BY <1>1, ReadWork DEF PatienceInv, SignalsUp
<1> SUFFICES ASSUME ~Excused' PROVE ~log'.unheard /\ ~log'.stale /\ RunInv'
  BY <1>3 DEF PatienceInv, SignalsUp
<1>4. ~Excused
  BY <1>1, LoggedFields DEF Excused
<1>5. ~log.unheard /\ ~log.stale /\ RunInv
  BY <1>4 DEF PatienceInv
<1>6. ~log'.unheard /\ ~log'.stale /\ log'.owed = log.owed
  BY <1>1, <1>2, <1>5, LoggedFields, ReadNotOwed
<1>7. \A k \in log'.owed : cores'[k].op # "none"
  BY <1>2, <1>3, <1>5, <1>6 DEF RunInv, SameWork, HostInv, LogInv, AtStep, Testing
<1>8. CoresAt(scenario, current, Target, cores', step + 1)
  <2>1. CoresAt(scenario, current, Target, cores', step)
    BY <1>2, <1>3, <1>5, CoresHere, SameWorkHere
  <2>2. step \in Nat \ {0}
    BY PatientFacts
  <2> QED BY <1>2, <2>1, <2>2, NextOther DEF this
<1>9. RunInv'
  BY <1>2, <1>7, <1>8, PassKeepsRun
<1> QED BY <1>6, <1>9

\* Reads that are compared keep it.
LEMMA ExpectPatience ==
    ASSUME AllPatient, HostInv, HostInv', PatienceInv, ExpectStep
    PROVE  PatienceInv'
<1>1. PICK i \in {CalledCore(address)}, r \in {CalledRegister(address)} :
         /\ ReadsCore(i, r)
         /\ \/ log' = Logged(i) /\ StepPasses
            \/ log' = [Logged(i) EXCEPT !.alarms = Alarm(Read(i, r)).alarms] /\ StepFails
  BY DEF ExpectStep
<1>2. /\ AtStep /\ UNCHANGED <<scenario, bases>> /\ this.do = "expect"
  BY DEF ExpectStep
<1>3. SameWork(cores, cores') /\ SignalsUp'
  BY <1>1, ReadWork DEF PatienceInv, SignalsUp
<1> SUFFICES ASSUME ~Excused' PROVE ~log'.unheard /\ ~log'.stale /\ RunInv'
  BY <1>3 DEF PatienceInv, SignalsUp
<1>4. /\ log'.late = log.late /\ log'.stray = (log.stray \/ Strayed(i))
      /\ log'.owed = log.owed /\ log'.unheard = log.unheard
      /\ log'.stale = (log.stale \/ i \in log.owed)
  <2>1. CASE log' = Logged(i)
    BY <2>1, LoggedFields
  <2>2. CASE log' = [Logged(i) EXCEPT !.alarms = Alarm(Read(i, r)).alarms]
    <3> DEFINE x == Alarm(Read(i, r)).alarms
    <3>1. log' = [Logged(i) EXCEPT !.alarms = x]
      BY <2>2
    <3> HIDE DEF x
    <3> QED BY <3>1, LoggedFields
  <2> QED BY <1>1, <2>1, <2>2
<1>5. ~log.unheard /\ ~log.stale /\ RunInv
  BY <1>4 DEF PatienceInv, Excused
<1>6. ~log'.unheard /\ ~log'.stale
  BY <1>2, <1>4, <1>5, ReadNotOwed
<1>7. \A k \in log'.owed : cores'[k].op # "none"
  BY <1>2, <1>3, <1>4, <1>5 DEF RunInv, SameWork, HostInv, LogInv, AtStep, Testing
<1>8. CoresAt(scenario, current, Target, cores', step)
  BY <1>2, <1>3, <1>5, CoresHere, SameWorkHere
<1>9. CoresAt(scenario, current, Target, cores', step + 1)
  <2>1. step \in Nat \ {0}
    BY PatientFacts
  <2> QED BY <1>2, <1>8, <2>1, NextOther DEF this
<1>10. RunInv'
  BY <1>1, <1>2, <1>7, <1>8, <1>9, PassKeepsRun, FailKeepsRun
<1> QED BY <1>6, <1>10

\* Comparisons keep it.
LEMMA ComparePatience ==
    ASSUME AllPatient, HostInv, HostInv', PatienceInv, CompareStep
    PROVE  PatienceInv'
<1>1. \/ log' = log /\ StepPasses
      \/ log' = Alarm(env[this.var]) /\ StepFails
  BY DEF CompareStep
<1>2. /\ AtStep /\ UNCHANGED <<scenario, cores, bases>> /\ this.do = "compare"
  BY DEF CompareStep
<1>3. /\ log'.late = log.late /\ log'.stray = log.stray /\ log'.owed = log.owed
      /\ log'.unheard = log.unheard /\ log'.stale = log.stale
  BY <1>1 DEF Alarm, HostInv, LogInv
<1> SUFFICES ASSUME ~Excused' PROVE RunInv'
  BY <1>2, <1>3 DEF PatienceInv, Excused
<1>4. RunInv
  BY <1>3 DEF PatienceInv, Excused
<1>5. \A k \in log'.owed : cores'[k].op # "none"
  BY <1>2, <1>3, <1>4 DEF RunInv, AtStep, Testing
<1>6. CoresAt(scenario, current, Target, cores', step)
  BY <1>2, <1>4, CoresHere
<1>7. CoresAt(scenario, current, Target, cores', step + 1)
  <2>1. step \in Nat \ {0}
    BY PatientFacts
  <2> QED BY <1>2, <1>6, <2>1, NextOther DEF this
<1> QED BY <1>1, <1>2, <1>5, <1>6, <1>7, PassKeepsRun, FailKeepsRun

\* Waits keep it: one that passes shows that the operation is over.
LEMMA WaitPatience ==
    ASSUME AllPatient, HostInv, HostInv', PatienceInv, WaitStep
    PROVE  PatienceInv'
<1> DEFINE i == CalledCore(address)
           r == CalledRegister(address)
<1>1. /\ log' = [log EXCEPT !.stray = @ \/ Strayed(i)]
      /\ IF i \in DOMAIN cores /\ this.bit \in StatusBits(cores[i], r) THEN StepPasses
         ELSE UNCHANGED <<test, step, outcome>>
      /\ AtStep /\ Call(address) /\ UNCHANGED <<scenario, cores, bases>> /\ this.do = "wait"
  BY DEF WaitStep
<1>2. /\ log'.late = log.late /\ log'.stray = (log.stray \/ Strayed(i))
      /\ log'.owed = log.owed /\ log'.unheard = log.unheard /\ log'.stale = log.stale
  BY <1>1 DEF HostInv, LogInv
<1> SUFFICES ASSUME ~Excused' PROVE RunInv'
  BY <1>1, <1>2 DEF PatienceInv, Excused
<1>3. RunInv /\ SignalsUp
  BY <1>2 DEF PatienceInv, Excused, SignalsUp
<1>4. i = Target /\ r = this.at
  BY <1>1, StepTarget
<1>5. CoresAt(scenario, current, Target, cores, step)
  BY <1>1, <1>3, CoresHere
<1>6. CASE ~(i \in DOMAIN cores /\ this.bit \in StatusBits(cores[i], r))
  <2>1. UNCHANGED <<test, step, outcome>>
    BY <1>1, <1>6
  <2> QED BY <1>1, <1>2, <1>3, <2>1
          DEF RunInv, AtStep, Testing, Searching, Skipped, Absent, current, base_addr,
              Target, program
<1>7. CASE i \in DOMAIN cores /\ this.bit \in StatusBits(cores[i], r)
  <2>1. this.bit \in {"ready", "valid"} /\ BitUp(cores[i], this.bit) /\ r = ADDR_STATUS
    BY <1>7 DEF StatusBits, BitUp
  <2>2. ASSUME NEW j \in DOMAIN cores, NEW k \in 1 .. step - 1, cores[j].op # "none",
               j = Target, cores[j].op \in Bits(current.steps[k].val),
               Shows(cores[j].kind, current.steps[k], this)
        PROVE  FALSE
    <3>1. this.bit \in Signals(cores[j].kind, cores[j].op)
      BY <2>2 DEF Shows
    <3>2. ~BitUp(cores[j], this.bit)
      BY <1>3, <2>1, <2>2, <3>1 DEF SignalsUp, Signalling
    <3> QED BY <1>4, <2>1, <2>2, <3>2
  <2>3. step \in Nat \ {0}
    BY PatientFacts
  <2>4. CoresAt(scenario, current, Target, cores, step + 1)
    BY <1>1, <1>5, <2>2, <2>3, NextSame DEF this, Writes
  <2>5. \A k \in log'.owed : cores'[k].op # "none"
    BY <1>1, <1>2, <1>3 DEF RunInv, AtStep, Testing
  <2>6. CoresAt(scenario, current, Target, cores', step + 1)
    BY <1>1, <2>4
  <2> HIDE DEF i, r
  <2> QED BY <1>1, <1>7, <2>5, <2>6, PassKeepsRun
<1> QED BY <1>6, <1>7

-----------------------------------------------------------------------------
(* Writes of a patient script.                                             *)

\* The value a step writes; AES at its key.
IsValueOf(v, s) == s.var = "" => v = s.val
Expanding(c)    == c.kind = "aes" /\ c.op = "init"

Heard(c, v, d) ==
    /\ Bits(v) # {} => Begun(c, v) # "none" /\ d.op # "none"
    /\ c.op # "none" => d.op # "none"

\* The same of a write outside the command register, with the registers of AES.
LEMMA OtherWriteOf ==
    ASSUME NEW c, NEW a, NEW v, SameCore(c, c.kind), a # ADDR_CTRL
    PROVE  LET d == Write(c, a, v)
           IN  /\ d.op = c.op /\ d.ctl = c.ctl /\ d.kind = c.kind
               /\ c.kind = "aes" => \A b : Reg(d, b) = IF b = a THEN v ELSE Reg(c, b)
<1>1. c.kind = "aes" => Write(c, a, v) = Keep(c, a, v)
  BY AesWrite
<1>2. \A b : Reg(Keep(c, a, v), b) = IF b = a THEN v ELSE Reg(c, b)
  BY RegKept
<1> QED BY <1>1, <1>2, OtherWrite

\* A register of the target is written that is not its command register.
LEMMA WriteOther ==
    ASSUME NEW sc, NEW t, NEW g, NEW cs, NEW m \in Nat \ {0}, CoresAt(sc, t, g, cs, m),
           g \in DOMAIN cs, SameCore(cs[g], cs[g].kind), NEW at, NEW v,
           Writes(t.steps[m], at), at # ADDR_CTRL, IsValueOf(v, t.steps[m])
    PROVE  CoresAt(sc, t, g, [cs EXCEPT ![g] = Write(cs[g], at, v)], m + 1)
<1> DEFINE d == Write(cs[g], at, v)
           ds == [cs EXCEPT ![g] = d]
<1>1. d.op = cs[g].op /\ d.ctl = cs[g].ctl /\ d.kind = cs[g].kind
  BY OtherWriteOf
<1>2. cs[g].kind = "aes" => \A b : Reg(d, b) = IF b = at THEN v ELSE Reg(cs[g], b)
  BY OtherWriteOf
<1> HIDE DEF d
<1>3. /\ DOMAIN ds = DOMAIN cs /\ ds[g] = d
      /\ \A i \in DOMAIN cs : /\ ds[i].op = cs[i].op /\ ds[i].ctl = cs[i].ctl
                              /\ ds[i].kind = cs[i].kind
  BY <1>1
<1> HIDE DEF ds
<1>4. OpsAt(sc, t, g, cs, m + 1)
  BY OpsNext DEF CoresAt, Shows, Writes
<1>5. OpsAt(sc, t, g, ds, m + 1)
  BY <1>3, <1>4 DEF OpsAt
<1>6. ControlAt(sc, t, m + 1) = ControlAt(sc, t, m)
  BY ControlSame DEF Writes
<1>7. CtlAt(sc, t, g, ds, m + 1)
  BY <1>3, <1>6 DEF CoresAt, CtlAt
<1>8. ConfigAt(t, g, ds, m + 1)
  <2> SUFFICES ASSUME ds[g].kind = "aes", NEW j \in 1 .. (m + 1) - 1,
                      LastWrite(t, AES_ADDR_CONFIG, j, m + 1), t.steps[j].var = ""
               PROVE  Reg(ds[g], AES_ADDR_CONFIG) = t.steps[j].val
    BY DEF ConfigAt
  <2>1. cs[g].kind = "aes"
    BY <1>1, <1>3
  <2>2. CASE j = m /\ Writes(t.steps[m], AES_ADDR_CONFIG)
    BY <1>2, <1>3, <2>1, <2>2 DEF Writes, IsValueOf
  <2>3. CASE LastWrite(t, AES_ADDR_CONFIG, j, m) /\ ~Writes(t.steps[m], AES_ADDR_CONFIG)
    <3>1. at # AES_ADDR_CONFIG
      BY <2>3 DEF Writes
    <3>2. j \in 1 .. m - 1
      BY <2>3 DEF LastWrite
    <3> QED BY <1>2, <1>3, <2>1, <2>3, <3>1, <3>2 DEF CoresAt, ConfigAt
  <2> QED BY <2>2, <2>3, LastWriteStep
<1>9. CoresAt(sc, t, g, ds, m + 1)
  BY <1>5, <1>7, <1>8 DEF CoresAt
<1> QED BY <1>9 DEF ds, d

\* A command is written: it begins, if it is one.
LEMMA WriteControl ==
    ASSUME NEW sc, NEW t, NEW g, NEW cs, NEW m \in Nat \ {0}, CoresAt(sc, t, g, cs, m),
           g \in DOMAIN cs, SameCore(cs[g], cs[g].kind), cs[g].kind \in Kinds,
           Signalling(cs[g]), m \in DOMAIN t.steps, Meant(sc, t, g),
           PatientTest(sc, t, cs[g].kind), Writes(t.steps[m], ADDR_CTRL),
           ~Expanding(cs[g]), NEW es,
           es = [cs EXCEPT ![g] = Write(cs[g], ADDR_CTRL, t.steps[m].val)]
    PROVE  /\ CoresAt(sc, t, g, es, m + 1)
           /\ Heard(cs[g], t.steps[m].val, es[g])
<1> DEFINE v == t.steps[m].val
           kind == cs[g].kind
           d == Command(cs[g], v)
           ds == [cs EXCEPT ![g] = d]
<1>1. d = Write(cs[g], ADDR_CTRL, v)
  BY ControlWrite
<1>2. /\ Signalling(d) /\ d.kind = kind /\ d.reg = cs[g].reg
      /\ kind # "plain" /\ cs[g].op = "none" => d.ctl = v
      /\ cs[g].op = "none" => d.op \in Bits(v) \cup {"none"}
      /\ cs[g].op = "none" => d.op = Begun(cs[g], v)
      /\ Begun(cs[g], v) = "none" => d.op = cs[g].op
  BY CommandStep
<1>3. \A k \in 1 .. m - 1 : Pending(kind, t, k, m) => Harmless(kind, t, k, m)
  BY DEF PatientTest
<1>4. cs[g].op # "none" => kind = "aes" /\ FALSE
  <2> SUFFICES ASSUME cs[g].op # "none" PROVE FALSE
    OBVIOUS
  <2>1. PICK k \in 1 .. m - 1 : Pending(kind, t, k, m) /\ cs[g].op \in Bits(t.steps[k].val)
    BY DEF CoresAt, OpsAt
  <2>2. kind = "aes" /\ Bits(t.steps[k].val) = {"init"}
    BY <1>3, <2>1 DEF Harmless, Writes
  <2> QED BY <2>1, <2>2 DEF Expanding
<1>5. ASSUME Bits(v) # {} PROVE Begun(cs[g], v) # "none"
  <2>1. Commands(t.steps[m])
    BY <1>5 DEF Commands
  <2>2. kind # "plain" /\ (kind \notin Pulsed => \A b \in ControlAt(sc, t, m) : Bits(v) \ b # {})
    BY <2>1 DEF PatientTest, Audible
  <2>3. Bits(cs[g].ctl) \in ControlAt(sc, t, m)
    BY <2>2 DEF CoresAt, CtlAt
  <2>4. Asked(cs[g], v) # {}
    BY <1>5, <2>2, <2>3 DEF Asked
  <2> QED BY <1>4, <2>2, <2>4, BegunFacts
<1> HIDE DEF d
<1>6. /\ DOMAIN ds = DOMAIN cs /\ ds[g] = d
      /\ \A i \in DOMAIN cs : i # g => ds[i] = cs[i]
      /\ \A i \in DOMAIN cs : ds[i].kind = cs[i].kind
      /\ \A i \in DOMAIN cs : Reg(ds[i], AES_ADDR_CONFIG) = Reg(cs[i], AES_ADDR_CONFIG)
  BY <1>2 DEF Reg
<1> HIDE DEF ds
<1>7. OpsAt(sc, t, g, ds, m + 1)
  <2> SUFFICES ASSUME NEW i \in DOMAIN ds, ds[i].op # "none"
               PROVE  /\ i = g /\ Meant(sc, t, i)
                      /\ \E k \in 1 .. (m + 1) - 1 : /\ Pending(ds[i].kind, t, k, m + 1)
                                                     /\ ds[i].op \in Bits(t.steps[k].val)
    BY DEF OpsAt
  <2>1. i = g
    BY <1>6 DEF CoresAt, OpsAt
  <2>2. d.op \in Bits(v)
    BY <1>2, <1>4, <1>6, <2>1
  <2>3. Commands(t.steps[m])
    BY <2>2 DEF Commands
  <2>4. Pending(ds[i].kind, t, m, m + 1) /\ m \in 1 .. (m + 1) - 1
    BY <2>3, PendingFirst
  <2> QED BY <1>6, <2>1, <2>2, <2>4
<1>8. CtlAt(sc, t, g, ds, m + 1)
  <2>1. ControlAt(sc, t, m + 1) = {Bits(v)}
    BY ControlWritten
  <2> QED BY <1>2, <1>4, <1>6, <2>1 DEF CoresAt, CtlAt
<1>9. ConfigAt(t, g, ds, m + 1)
  <2>1. ConfigAt(t, g, cs, m + 1)
    BY ConfigSame DEF CoresAt, Writes, ADDR_CTRL, AES_ADDR_CONFIG
  <2> QED BY <1>6, <2>1 DEF ConfigAt
<1>10. CoresAt(sc, t, g, ds, m + 1)
  BY <1>7, <1>8, <1>9 DEF CoresAt
<1>11. Bits(v) # {} => d.op # "none"
  BY <1>2, <1>4, <1>5
<1>12. es = ds
  BY <1>1 DEF ds
<1> QED BY <1>2, <1>4, <1>5, <1>6, <1>10, <1>11, <1>12 DEF Heard

\* Writes keep the invariant.
LEMMA WritePatience ==
    ASSUME AllPatient, HostInv, HostInv', PatienceInv, WriteStep
    PROVE  PatienceInv'
<1> DEFINE i == CalledCore(address)
           r == CalledRegister(address)
           u == IsCommand(i, r) /\ Begun(cores[i], written) = "none"
<1>1. /\ Outpaced(i)
      /\ cores' = IF i \in DOMAIN cores
                  THEN [cores EXCEPT ![i] = Write(cores[i], r, written)] ELSE cores
      /\ log' = [log EXCEPT !.stray = @ \/ Strayed(i), !.unheard = @ \/ u,
                            !.owed = IF IsCommand(i, r) THEN @ \cup {i} ELSE @]
      /\ AtStep /\ Call(address) /\ StepPasses /\ UNCHANGED <<scenario, bases>>
      /\ this.do = "write"
  BY DEF WriteStep
<1>2. /\ log'.late = log.late /\ log'.stray = (log.stray \/ Strayed(i))
      /\ log'.unheard = (log.unheard \/ u) /\ log'.stale = log.stale
      /\ log'.owed = IF IsCommand(i, r) THEN log.owed \cup {i} ELSE log.owed
  BY <1>1 DEF HostInv, LogInv
<1>3. i = Target /\ r = this.at
  BY <1>1, StepTarget
<1> HIDE DEF i, r
<1>4. \A k \in DOMAIN cores : SameCore(cores[k], cores[k].kind) /\ cores[k].kind \in Kinds
  BY CoreKinds
<1>5. ASSUME SignalsUp PROVE SignalsUp'
  <2>1. ASSUME i \in DOMAIN cores PROVE Signalling(Write(cores[i], r, written))
    <3>1. CASE r = ADDR_CTRL
      BY <1>4, <1>5, <2>1, <3>1, CommandStep, ControlWrite DEF SignalsUp
    <3>2. CASE r # ADDR_CTRL
      BY <1>4, <1>5, <2>1, <3>2, OtherWriteSignals DEF SignalsUp
    <3> QED BY <3>1, <3>2
  <2> QED BY <1>1, <1>5, <2>1 DEF SignalsUp
<1> SUFFICES ASSUME ~Excused' PROVE ~log'.unheard /\ ~log'.stale /\ RunInv'
  BY <1>5 DEF PatienceInv, SignalsUp
<1>6. ~log.unheard /\ ~log.stale /\ RunInv /\ SignalsUp
  BY <1>2 DEF PatienceInv, Excused, SignalsUp
<1>7. CoresAt(scenario, current, Target, cores, step)
  BY <1>1, <1>6, CoresHere
<1>8. Meant(scenario, current, i)
  BY <1>1, <1>2, <1>3, TargetMeant DEF Excused
<1>9. /\ i \in DOMAIN cores /\ PatientTest(scenario, current, cores[i].kind)
      /\ step \in Nat \ {0} /\ step \in DOMAIN current.steps
      /\ AddressesCore(scenario) /\ current \in ToSet(scenario.program.tests)
      /\ this \in ToSet(current.steps)
  BY <1>8, PatientFacts DEF program
<1>10. \A k \in log.owed : cores[k].op # "none" /\ k \in DOMAIN cores
  BY <1>1, <1>6 DEF RunInv, AtStep, Testing, HostInv, LogInv
<1>11. CASE r = ADDR_CTRL
  <2>1. Writes(this, ADDR_CTRL) /\ this.at = ADDR_CTRL
    BY <1>1, <1>3, <1>11 DEF Writes
  <2>2. written = this.val
    BY <1>9, <2>1 DEF AddressesCore, written
  <2>3. ~Expanding(cores[i])
    BY <1>1, <1>9, <2>1 DEF Outpaced, Expanding
  <2> DEFINE ds == [cores EXCEPT ![i] = Write(cores[i], ADDR_CTRL, this.val)]
  <2>a. ds = [cores EXCEPT ![i] = Write(cores[i], ADDR_CTRL, current.steps[step].val)]
    BY DEF this
  <2>b. Writes(current.steps[step], ADDR_CTRL)
    BY <2>1 DEF this
  <2>c. CoresAt(scenario, current, i, cores, step) /\ SameCore(cores[i], cores[i].kind)
        /\ cores[i].kind \in Kinds /\ Signalling(cores[i])
    BY <1>3, <1>4, <1>6, <1>7, <1>9 DEF SignalsUp
  <2>5. cores' = ds
    BY <1>1, <1>9, <1>11, <2>2
  <2>6. \A k \in DOMAIN cores : k # i => ds[k] = cores[k]
    OBVIOUS
  <2> HIDE DEF ds
  <2>4. /\ CoresAt(scenario, current, i, ds, step + 1)
        /\ Bits(this.val) # {} => Begun(cores[i], this.val) # "none" /\ ds[i].op # "none"
        /\ cores[i].op # "none" => ds[i].op # "none"
    <3>1. /\ CoresAt(scenario, current, i, ds, step + 1)
          /\ Heard(cores[i], current.steps[step].val, ds[i])
      BY ONLY <1>8, <1>9, <2>a, <2>b, <2>c, <2>3, WriteControl
    <3> QED BY <3>1 DEF this, Heard
  <2>7. ~log'.unheard
    BY <1>2, <1>6, <2>2, <2>4 DEF IsCommand
  <2>8. \A k \in log'.owed : cores'[k].op # "none"
    BY <1>2, <1>9, <1>10, <2>2, <2>4, <2>5, <2>6 DEF IsCommand
  <2>9. RunInv'
    BY <1>1, <1>3, <2>4, <2>5, <2>8, PassKeepsRun
  <2> QED BY <1>2, <1>6, <2>7, <2>9
<1>12. CASE r # ADDR_CTRL
  <2>1. Writes(this, r) /\ IsValueOf(written, this)
    BY <1>1, <1>3 DEF Writes, written, IsValueOf
  <2>2. cores' = [cores EXCEPT ![i] = Write(cores[i], r, written)]
    BY <1>1, <1>9
  <2>3. CoresAt(scenario, current, i, cores', step + 1)
    BY <1>3, <1>4, <1>7, <1>9, <1>12, <2>1, <2>2, WriteOther DEF this
  <2>4. ~log'.unheard /\ log'.owed = log.owed
    BY <1>2, <1>6, <1>12 DEF IsCommand
  <2>5. Write(cores[i], r, written).op = cores[i].op
    BY <1>4, <1>9, <1>12, OtherWrite
  <2>6. \A k \in log'.owed : cores'[k].op # "none"
    BY <1>10, <2>2, <2>4, <2>5
  <2>7. RunInv'
    BY <1>1, <1>3, <2>3, <2>6, PassKeepsRun
  <2> QED BY <1>2, <1>6, <2>4, <2>7
<1> QED BY <1>11, <1>12

-----------------------------------------------------------------------------
(* The other steps, and what follows of patient scripts.                   *)

\* A wait that is given up excuses all that follows.
LEMMA TimesOutPatience ==
    ASSUME HostInv, PatienceInv, WaitTimesOut
    PROVE  PatienceInv'
<1>1. log'.late /\ UNCHANGED cores
  BY DEF WaitTimesOut, HostInv, LogInv
<1> QED BY <1>1 DEF PatienceInv, Excused

\* The program goes on where it was, the cores and the log as they were.
LEMMA StillPatience ==
    ASSUME PatienceInv, UNCHANGED <<scenario, cores, log, test, step, bases>>,
           outcome' = "running" => outcome = "running"
    PROVE  PatienceInv'
<1>1. \A i \in DOMAIN cores' : Signalling(cores'[i])
  BY DEF PatienceInv
<1> SUFFICES ASSUME ~Excused', outcome' = "running" PROVE RunInv'
  BY <1>1 DEF PatienceInv, Excused, RunInv
<1>2. RunInv /\ outcome = "running"
  BY DEF PatienceInv, Excused
<1> QED BY <1>2 DEF RunInv, AtStep, Testing, Searching, Skipped, Absent, current, base_addr,
           Target, program

\* So does a call that fails; a probing that fails is harmless.
LEMMA OpenPatience ==
    ASSUME HostInv, PatienceInv, OpenFails
    PROVE  PatienceInv'
<1>1. CASE Probing
  <2>1. UNCHANGED <<scenario, cores, log, test, step, bases, outcome>>
    BY <1>1 DEF OpenFails
  <2> QED BY <2>1, StillPatience
<1>2. CASE ~Probing
  <2>1. log' = [log EXCEPT !.late = TRUE] /\ UNCHANGED cores
    BY <1>2 DEF OpenFails
  <2>2. log'.late
    BY <2>1 DEF HostInv, LogInv
  <2> QED BY <2>1, <2>2 DEF PatienceInv, Excused
<1> QED BY <1>1, <1>2

\* The set-up of the bus and the probing keep the invariant.
LEMMA SetUpPatience ==
    ASSUME PatienceInv, SetUp \/ MapFails \/ ProbeSlot
    PROVE  PatienceInv'
<1>1. /\ UNCHANGED <<scenario, cores, log, test, step, bases>>
      /\ outcome' \in {outcome, "failure"}
  BY DEF SetUp, MapFails, ProbeSlot
<1> QED BY <1>1, StillPatience

\* The program is at the first step of a test, between two tests.
LEMMA BetweenPatience ==
    ASSUME PatienceInv, UNCHANGED <<scenario, cores, log>>, outcome = "running", ~AtStep,
           step' = 1
    PROVE  PatienceInv'
<1>1. \A i \in DOMAIN cores' : Signalling(cores'[i])
  BY DEF PatienceInv
<1> SUFFICES ASSUME ~Excused', outcome' = "running" PROVE RunInv'
  BY <1>1 DEF PatienceInv, Excused, RunInv
<1>2. RunInv
  BY DEF PatienceInv, Excused
<1> QED BY <1>2 DEF RunInv

\* Look-ups keep it.
LEMMA LookUpPatience ==
    ASSUME PatienceInv, LookUp
    PROVE  PatienceInv'
<1>1. /\ outcome = "running" /\ ~AtStep /\ UNCHANGED <<scenario, cores, log, step>>
  BY DEF LookUp, Searching, AtStep, Testing
<1> SUFFICES ASSUME ~Excused' PROVE RunInv'
  BY <1>1 DEF PatienceInv, Excused
<1>2. RunInv
  BY <1>1 DEF PatienceInv, Excused
<1> QED BY <1>1, <1>2 DEF RunInv

\* Tests that are skipped keep it.
LEMMA SkipPatience ==
    ASSUME PatienceInv, SkipTest
    PROVE  PatienceInv'
<1>1. /\ outcome = "running" /\ ~AtStep /\ UNCHANGED <<scenario, cores, log>> /\ step' = 1
  BY DEF SkipTest, AtStep, Testing, TestPasses
<1> QED BY <1>1, BetweenPatience

\* A core that finishes keeps it, and owes its result no more.
LEMMA FinishPatience ==
    ASSUME AllPatient, HostInv, PatienceInv, NEW i \in DOMAIN cores, CoreFinishes(i)
    PROVE  PatienceInv'
<1>1. /\ outcome = "running" /\ cores[i].op # "none"
      /\ cores' = [cores EXCEPT ![i] = Finished(cores[i])]
      /\ log' = [log EXCEPT !.owed = @ \ {i}]
      /\ UNCHANGED <<scenario, slot, bases, test, step, outcome>>
  BY DEF CoreFinishes
<1>2. /\ log'.late = log.late /\ log'.stray = log.stray /\ log'.owed = log.owed \ {i}
      /\ log'.unheard = log.unheard /\ log'.stale = log.stale
      /\ \A k \in log.owed : k \in DOMAIN cores
  BY <1>1 DEF HostInv, LogInv
<1> DEFINE c == cores[i]
           d == Finished(cores[i])
<1>3. /\ d.op = "none" /\ d.ctl = c.ctl /\ d.kind = c.kind
      /\ Reg(d, AES_ADDR_CONFIG) = Reg(c, AES_ADDR_CONFIG)
  <2>1. SameCore(c, c.kind) /\ c.kind \in Kinds /\ c.kind # "plain"
    BY <1>1, CoreKinds DEF SameCore
  <2> HIDE DEF c
  <2>2. /\ Finished(c).op = "none" /\ Finished(c).ctl = c.ctl /\ Finished(c).kind = c.kind
        /\ Reg(Finished(c), AES_ADDR_CONFIG) = Reg(c, AES_ADDR_CONFIG)
    BY <2>1, FinishedCore
  <2> QED BY <2>2 DEF c
<1> HIDE DEF d
<1>4. /\ DOMAIN cores' = DOMAIN cores /\ cores'[i] = d
      /\ \A k \in DOMAIN cores : /\ k # i => cores'[k] = cores[k]
                                 /\ cores'[k].kind = cores[k].kind
                                 /\ cores'[k].ctl = cores[k].ctl
                                 /\ Reg(cores'[k], AES_ADDR_CONFIG) = Reg(cores[k], AES_ADDR_CONFIG)
                                 /\ cores'[k].op # "none" => k # i /\ cores'[k].op = cores[k].op
  BY <1>1, <1>3 DEF d
<1>5. \A k \in DOMAIN cores' : Signalling(cores'[k])
  BY <1>3, <1>4 DEF PatienceInv, Signalling
<1> SUFFICES ASSUME ~Excused' PROVE RunInv'
  BY <1>2, <1>5 DEF PatienceInv, Excused
<1>6. RunInv
  BY <1>2 DEF PatienceInv, Excused
<1>7. \A k \in log'.owed : cores'[k].op # "none"
  BY <1>1, <1>2, <1>4, <1>6 DEF RunInv
<1>8. Idle(scenario, cores) => Idle(scenario, cores')
  BY <1>4 DEF Idle
<1>9. CoresAt(scenario, current, Target, cores, step)
         => CoresAt(scenario, current, Target, cores', step)
  BY <1>4 DEF CoresAt, OpsAt, CtlAt, ConfigAt
<1>10. current' = current /\ Target' = Target
  BY <1>1 DEF current, Target, base_addr, program
<1>11. AtStep => AtStep'
  BY <1>1 DEF AtStep, Testing, Searching, Skipped, Absent, current, base_addr, program
<1> QED BY <1>1, <1>6, <1>7, <1>8, <1>9, <1>10, <1>11 DEF RunInv

\* At first all cores are idle.
LEMMA PatienceInit ==
    ASSUME Init, HostInv
    PROVE  PatienceInv
<1>1. /\ \A i \in DOMAIN cores : cores[i].op = "none" /\ cores[i].ctl = <<>>
      /\ log.owed = {} /\ ~log.unheard /\ ~log.stale /\ step = 1
  BY DEF Init, HostInit, NewCore
<1>2. Bits(<<>>) = {}
  BY DEF Bits, ToSet
<1>3. Idle(scenario, cores)
  BY <1>1, <1>2 DEF Idle, Left
<1> QED BY <1>1, <1>3 DEF PatienceInv, RunInv, Signalling

\* Every step keeps the invariant.
LEMMA PatienceStep ==
    ASSUME AllPatient, HostInv, HostInv', PatienceInv, [Next]_vars
    PROVE  PatienceInv'
<1>1. CASE UNCHANGED vars
  <2>1. UNCHANGED <<scenario, cores, log, test, step, bases, outcome>>
    BY <1>1 DEF vars, hostVars
  <2> QED BY <2>1, StillPatience
<1>2. CASE HostStep
  BY <1>2, SetUpPatience, OpenPatience, LookUpPatience, SkipPatience, WritePatience,
     ReadPatience, ExpectPatience, ComparePatience, WaitPatience, TimesOutPatience
     DEF HostStep
<1>3. ASSUME NEW i \in DOMAIN cores, CoreFinishes(i) PROVE PatienceInv'
  BY <1>3, FinishPatience
<1> QED BY <1>1, <1>2, <1>3 DEF Next

\* The invariant of patient scripts.
LEMMA PatienceInvariant == AllPatient => (Spec => []PatienceInv)
<1> SUFFICES ASSUME AllPatient PROVE Spec => []PatienceInv
  OBVIOUS
<1>1. Init /\ HostInv => PatienceInv
  BY PatienceInit
<1>2. HostInv /\ HostInv' /\ PatienceInv /\ [Next]_vars => PatienceInv'
  BY PatienceStep
<1> QED BY <1>1, <1>2, HostInvariant, PTL DEF Spec

\* No command is lost (tc_init, tc_next, the toggles of the drivers), whatever
\* the programs, the fabrics and the time the cores take: the scripts leave a
\* core alone until its status has shown that the operation is over.
THEOREM EveryCommandIsHeard == AllPatient => (Spec => []CommandHeard)
<1>1. PatienceInv => CommandHeard
  BY DEF PatienceInv, CommandHeard, Excused
<1> QED BY <1>1, PatienceInvariant, PTL

\* No result is read from a core that is still working on it (hash.c:239).
THEOREM NoResultIsReadEarly == AllPatient => (Spec => []NoStaleRead)
<1>1. PatienceInv => NoStaleRead
  BY DEF PatienceInv, NoStaleRead, Excused
<1> QED BY <1>1, PatienceInvariant, PTL

-----------------------------------------------------------------------------
(* Places and moments.                                                     *)

Place == [test |-> test, step |-> step, outcome |-> outcome]

\* The program ends where it is.
LEMMA EndPlace ==
    ASSUME NEW y, outcome' = y, step' = 1, UNCHANGED test
    PROVE  Place' = [Place EXCEPT !.step = 1, !.outcome = y]
<1>1. PICK p : p = Place
  OBVIOUS
<1>2. PICK z : z = [p EXCEPT !.step = 1]
  OBVIOUS
<1>3. z = [test |-> test, step |-> 1, outcome |-> outcome]
  BY <1>1, <1>2 DEF Place
<1>4. [p EXCEPT !.step = 1, !.outcome = y] = [z EXCEPT !.outcome = y]
  BY <1>2
<1>5. [p EXCEPT !.step = 1, !.outcome = y] = [test |-> test, step |-> 1, outcome |-> y]
  BY <1>3, <1>4
<1> QED BY <1>1, <1>5 DEF Place

\* Where the program is after the last test.
LEMMA RoundPlaces ==
    ASSUME NextRound, step' = 1, outcome = "running", UNCHANGED scenario
    PROVE  Place' \in RoundOver(scenario, Place)
<1>1. CASE program.loop # 0 /\ round < Rounds
  <2>1. Place' = At(program.loop, 1)
    BY <1>1 DEF NextRound, Place, At
  <2> QED BY <1>1, <2>1 DEF RoundOver, program
<1>2. CASE ~(program.loop # 0 /\ round < Rounds)
  <2>1. Place' = [Place EXCEPT !.step = 1, !.outcome = "success"]
    BY <1>2, EndPlace DEF NextRound
  <2> QED BY <2>1 DEF RoundOver
<1> QED BY <1>1, <1>2

\* After a test.
LEMMA TestPlaces ==
    ASSUME HostInv, TestPasses, outcome = "running", UNCHANGED scenario
    PROVE  Place' \in TestOver(scenario, Place)
<1>1. CASE test < Len(program.tests)
  BY <1>1 DEF TestPasses, TestOver, Place, At, program
<1>2. CASE ~(test < Len(program.tests))
  <2>1. Place' \in RoundOver(scenario, Place)
    BY <1>2, RoundPlaces DEF TestPasses
  <2> QED BY <1>2, <2>1 DEF TestOver, Place, program
<1> QED BY <1>1, <1>2

\* After a test that fails.
LEMMA FailPlaces ==
    ASSUME HostInv, TestFails, outcome = "running", UNCHANGED scenario
    PROVE  Place' \in TestFailed(scenario, Place)
<1>1. TestAt(scenario, Place) = current
  BY DEF TestAt, Place, current, program
<1>2. current.onFail \in {"round", "exit", "stop", "halt"}
  BY Places DEF HostInv, PlaceInv, WellFormedTest, current
<1>3. CASE current.onFail = "round"
  <2>1. Place' \in RoundOver(scenario, Place)
    BY <1>3, RoundPlaces DEF TestFails
  <2> QED BY <1>1, <1>3, <2>1 DEF TestFailed
<1>4. CASE current.onFail = "exit"
  <2>1. Place' = [Place EXCEPT !.step = 1, !.outcome = "failure"]
    BY <1>4, EndPlace DEF TestFails
  <2> QED BY <1>1, <1>4, <2>1 DEF TestFailed
<1>5. CASE current.onFail = "stop"
  <2>1. Place' = [Place EXCEPT !.step = 1, !.outcome = "success"]
    BY <1>5, EndPlace DEF TestFails
  <2> QED BY <1>1, <1>5, <2>1 DEF TestFailed
<1>6. CASE current.onFail = "halt"
  <2>1. Place' = [Place EXCEPT !.step = 1, !.outcome = "halted"]
    BY <1>6, EndPlace DEF TestFails
  <2> QED BY <1>1, <1>6, <2>1 DEF TestFailed
<1> QED BY <1>2, <1>3, <1>4, <1>5, <1>6

\* After a step.
LEMMA StepPlaces ==
    ASSUME HostInv, StepPasses, outcome = "running", UNCHANGED scenario
    PROVE  Place' \in StepOver(scenario, Place)
<1>1. TestAt(scenario, Place) = current
  BY DEF TestAt, Place, current, program
<1>2. CASE step < Len(current.steps)
  <2>1. Place' = At(test, step + 1)
    BY <1>2 DEF StepPasses, Place, At
  <2>2. Place.step = step /\ Place.test = test
    BY DEF Place
  <2> QED BY <1>1, <1>2, <2>1, <2>2 DEF StepOver
<1>3. CASE ~(step < Len(current.steps))
  <2>1. Place' \in TestOver(scenario, Place)
    BY <1>3, TestPlaces DEF StepPasses
  <2>2. Place.step = step
    BY DEF Place
  <2> QED BY <1>1, <1>3, <2>1, <2>2 DEF StepOver
<1> QED BY <1>2, <1>3

\* After a step that fails.
LEMMA StepFailPlaces ==
    ASSUME HostInv, StepFails, outcome = "running", UNCHANGED scenario
    PROVE  Place' \in StepFailed(scenario, Place)
<1>1. StepAt(scenario, Place) = this
  BY DEF StepAt, TestAt, Place, current, program, this
<1>2. CASE this.strict
  <2>1. Place' \in TestFailed(scenario, Place)
    BY <1>2, FailPlaces DEF StepFails
  <2> QED BY <1>1, <1>2, <2>1 DEF StepFailed
<1>3. CASE ~this.strict
  <2>1. Place' \in StepOver(scenario, Place)
    BY <1>3, StepPlaces DEF StepFails
  <2> QED BY <1>1, <1>3, <2>1 DEF StepFailed
<1> QED BY <1>2, <1>3

\* The parts of a moment, and a moment of parts.
Mo(b, cs, e, p, a) ==
    [bases |-> b, cores |-> cs, env |-> e, place |-> p, alarms |-> a]
SettledCores == [i \in DOMAIN cores |-> Settled(cores[i])]

\* The moment, by its parts.
LEMMA MomentIs == Moment = Mo(bases, SettledCores, env, Place, log.alarms)
BY DEF Moment, Mo, SettledCores, Place

\* A moment with another place.
LEMMA MoPlace ==
    ASSUME NEW b, NEW cs, NEW e, NEW p, NEW a, NEW m, m = Mo(b, cs, e, p, a), NEW q
    PROVE  [m EXCEPT !.place = q] = Mo(b, cs, e, q, a)
BY DEF Mo

\* Where the moment is.
LEMMA MomentPlace ==
    ASSUME NEW m, m = Moment
    PROVE  /\ TestAt(scenario, m.place) = current /\ StepAt(scenario, m.place) = this
           /\ BaseAt(scenario, m) = base_addr /\ TargetAt(scenario, m) = Target
           /\ m.place.outcome = outcome /\ m.place = Place
           /\ IsSkipped(scenario, m) = Skipped
           /\ m.bases = bases /\ m.env = env /\ m.cores = SettledCores
           /\ m.alarms = log.alarms
<1>1. m.place = Place /\ m.bases = bases /\ m.env = env /\ m.cores = SettledCores
      /\ m.alarms = log.alarms
  <2>1. m = Mo(bases, SettledCores, env, Place, log.alarms)
    BY MomentIs
  <2>2. PICK a : a = log.alarms
    OBVIOUS
  <2>3. m = Mo(bases, SettledCores, env, Place, a)
    BY <2>1, <2>2
  <2>4. /\ Mo(bases, SettledCores, env, Place, a).bases = bases
        /\ Mo(bases, SettledCores, env, Place, a).cores = SettledCores
        /\ Mo(bases, SettledCores, env, Place, a).env = env
        /\ Mo(bases, SettledCores, env, Place, a).place = Place
        /\ Mo(bases, SettledCores, env, Place, a).alarms = a
    BY DEF Mo
  <2> QED BY <2>2, <2>3, <2>4
<1>2. TestAt(scenario, Place) = current /\ StepAt(scenario, Place) = this
      /\ Place.outcome = outcome
  BY DEF TestAt, StepAt, Place, current, this, program
<1>3. BaseAt(scenario, m) = base_addr
  BY <1>1, <1>2 DEF BaseAt, base_addr
<1>4. TargetAt(scenario, m) = Target
  BY <1>3 DEF TargetAt, Target
<1>5. IsSkipped(scenario, m) = Skipped
  BY <1>1, <1>2, <1>3 DEF IsSkipped, Skipped, Absent, program
<1> QED BY <1>1, <1>2, <1>3, <1>4, <1>5

-----------------------------------------------------------------------------
(* Cores that settle.                                                      *)

\* What AES has when it has expanded its key: the direction and the key.
AesResult(c) == <<Head(Reg(c, AES_ADDR_CONFIG))>> \o Reg(c, AES_ADDR_KEY)
AesDone(c, a) == [x \in CoreFields |->
    CASE x = "acc" -> a
      [] x = "op" -> "none"
      [] x = "ready" -> TRUE
      [] x = "valid" -> FALSE
      [] OTHER -> c[x]]

\* AES when it has expanded its key.
LEMMA AesFinished ==
    ASSUME NEW c, SameCore(c, "aes"), c.op = "init", NEW a, a = AesResult(c)
    PROVE  Finished(c) = AesDone(c, a)
<1>1. c.kind = "aes" /\ DOMAIN c = CoreFields
  BY DEF SameCore
<1>2. Computed(c) = [c EXCEPT !.acc = a]
  BY <1>1 DEF Computed, AesResult
<1>3. Finished(c) = [Computed(c) EXCEPT !.op = "none", !.ready = TRUE, !.valid = FALSE]
  BY <1>1 DEF Finished
<1> QED BY ONLY <1>1, <1>2, <1>3 DEF CoreFields, AesDone

\* AES's direction may be written while it expands a key: once settled, the
\* core is the same.
LEMMA SettledAes ==
    ASSUME NEW c, SameCore(c, "aes"), c.op = "init", NEW at, NEW v,
           \/ at = AES_ADDR_BLOCK
           \/ at = AES_ADDR_CONFIG /\ Head(v) = Head(Reg(c, AES_ADDR_CONFIG))
    PROVE  Settled(Write(c, at, v)) = Settled(Write(Settled(c), at, v))
<1> DEFINE d == Keep(c, at, v)
           f == Finished(c)
<1>1. at # ADDR_CTRL /\ at # AES_ADDR_KEY /\ AES_ADDR_BLOCK # AES_ADDR_CONFIG
  BY DEF AES_ADDR_BLOCK, AES_ADDR_CONFIG, AES_ADDR_KEY, ADDR_CTRL
<1>2. c.kind = "aes" /\ Write(c, at, v) = d /\ Settled(c) = f
  BY <1>1, AesWrite DEF Settled, SameCore
<1>3. SameCore(d, "aes") /\ d.op = "init" /\ d.reg = Put(c.reg, at, v)
      /\ \A x \in CoreFields : x # "reg" => d[x] = c[x]
  BY KeepIsSame DEF Keep, SameCore, CoreFields
<1>4. Reg(d, AES_ADDR_KEY) = Reg(c, AES_ADDR_KEY)
      /\ Head(Reg(d, AES_ADDR_CONFIG)) = Head(Reg(c, AES_ADDR_CONFIG))
  <2>1. \A b : Reg(d, b) = IF b = at THEN v ELSE Reg(c, b)
    BY RegKept
  <2> HIDE DEF d
  <2>2. Reg(d, AES_ADDR_KEY) = Reg(c, AES_ADDR_KEY)
    BY <1>1, <2>1
  <2>3. CASE at = AES_ADDR_BLOCK
    BY <1>1, <2>1, <2>3
  <2>4. CASE at = AES_ADDR_CONFIG /\ Head(v) = Head(Reg(c, AES_ADDR_CONFIG))
    <3>1. Reg(d, AES_ADDR_CONFIG) = v
      BY <2>1, <2>4
    <3>2. Head(Reg(d, AES_ADDR_CONFIG)) = Head(v)
      BY <3>1
    <3> QED BY <2>2, <2>4, <3>2, Zenon
  <2> QED BY <2>2, <2>3, <2>4
<1>5. Settled(d) = Finished(d)
  BY <1>3 DEF Settled
<1> HIDE DEF d
<1>6. PICK a : a = AesResult(c)
  OBVIOUS
<1>7. f = AesDone(c, a) /\ Finished(d) = AesDone(d, a)
  <2>1. f = AesDone(c, a)
    BY <1>6, AesFinished
  <2>2. a = AesResult(d)
    BY <1>4, <1>6 DEF AesResult
  <2> QED BY <1>3, <2>1, <2>2, AesFinished
<1> HIDE DEF f
<1>8. /\ DOMAIN f = CoreFields /\ f.kind = "aes" /\ f.op = "none" /\ f.reg = c.reg
  BY <1>2, <1>7 DEF CoreFields, AesDone
<1>9. Write(f, at, v) = Keep(f, at, v)
  BY <1>1, <1>8, AesWrite
<1>10. Keep(f, at, v).op = "none"
  BY <1>8 DEF Keep, CoreFields
<1>11. Settled(Write(f, at, v)) = Keep(f, at, v)
  BY <1>9, <1>10 DEF Settled
<1>12. Keep(f, at, v) = [x \in CoreFields |-> IF x = "reg" THEN Put(c.reg, at, v) ELSE f[x]]
  BY <1>8 DEF Keep
<1>13. Finished(d) = [x \in CoreFields |-> IF x = "reg" THEN Put(c.reg, at, v) ELSE f[x]]
  BY <1>3, <1>7 DEF CoreFields, AesDone
<1> QED BY <1>2, <1>5, <1>11, <1>12, <1>13

\* What the program writes while a core is at work.
LEMMA WritingAtWork ==
    ASSUME AllPatient, HostInv, RunInv, AtStep, this.do = "write", NEW i \in DOMAIN cores,
           cores[i].op # "none"
    PROVE  /\ SameCore(cores[i], "aes") /\ cores[i].op = "init"
           /\ \/ this.at = ADDR_CTRL
              \/ this.at = AES_ADDR_BLOCK
              \/ /\ this.at = AES_ADDR_CONFIG
                 /\ Head(written) = Head(Reg(cores[i], AES_ADDR_CONFIG))
<1>1. CoresAt(scenario, current, Target, cores, step)
  BY CoresHere
<1>2. /\ i = Target /\ Meant(scenario, current, i)
      /\ \E k \in 1 .. step - 1 : /\ Pending(cores[i].kind, current, k, step)
                                  /\ cores[i].op \in Bits(current.steps[k].val)
  BY <1>1 DEF CoresAt, OpsAt
<1>3. PICK k \in 1 .. step - 1 : /\ Pending(cores[i].kind, current, k, step)
                                 /\ cores[i].op \in Bits(current.steps[k].val)
  BY <1>2
<1>4. PatientTest(scenario, current, cores[i].kind) /\ step \in DOMAIN current.steps
  BY <1>2, PatientFacts
<1>5. Harmless(cores[i].kind, current, k, step)
  BY <1>3, <1>4 DEF PatientTest
<1>6. /\ cores[i].kind = "aes" /\ Bits(current.steps[k].val) = {"init"}
      /\ \/ this.at = ADDR_CTRL
         \/ this.at = AES_ADDR_BLOCK
         \/ this.at = AES_ADDR_CONFIG /\ SameLength(current, step)
  BY <1>5 DEF Harmless, Writes, this
<1>7. SameCore(cores[i], "aes") /\ cores[i].op = "init"
  BY <1>3, <1>6, CoreKinds
<1>8. ASSUME SameLength(current, step)
      PROVE  Head(written) = Head(Reg(cores[i], AES_ADDR_CONFIG))
  <2>1. PICK j \in 1 .. step - 1 :
             /\ LastWrite(current, AES_ADDR_CONFIG, j, step)
             /\ current.steps[j].var = "" /\ this.var = ""
             /\ Head(current.steps[j].val) = Head(this.val)
    BY <1>8 DEF SameLength, this
  <2>2. Reg(cores[i], AES_ADDR_CONFIG) = current.steps[j].val
    BY <1>1, <1>2, <1>6, <2>1 DEF CoresAt, ConfigAt
  <2> QED BY <2>1, <2>2 DEF written
<1> QED BY <1>6, <1>7, <1>8

-----------------------------------------------------------------------------
(***************************************************************************)
(* Steps in order.  NoFalseAlarm and DigestIsRight depend on everything a  *)
(* script ever wrote, so what is carried along is the whole of Moment: it  *)
(* forgets how far the cores are, the mapping, the probing, the polls and  *)
(* the rounds, and each action of Host takes it to one that may follow, or *)
(* leaves it.  A patient script sees no other difference: the cores it     *)
(* writes to or reads from are idle, but for AES while it expands a key.   *)
(***************************************************************************)

InStep == Moment' \in After(scenario, Moment) \cup {Moment}

\* What a step of the cores does to the settled cores.
LEMMA SettledStep ==
    ASSUME NEW i \in DOMAIN cores, NEW d, cores' = [cores EXCEPT ![i] = d]
    PROVE  SettledCores' = [SettledCores EXCEPT ![i] = Settled(d)]
BY DEF SettledCores

\* One of the settled cores.
LEMMA SettledOf ==
    ASSUME NEW i \in DOMAIN cores
    PROVE  SettledCores[i] = Settled(cores[i])
BY DEF SettledCores

\* The moments that follow one at a step of a test.
LEMMA AfterStep ==
    ASSUME AtStep, NEW m, m = Moment
    PROVE  /\ this.do = "compare" =>
                Compared(scenario, m, this, env[this.var]) \subseteq After(scenario, m)
           /\ this.do # "compare" /\ Meant(scenario, current, Target) =>
                Accessed(scenario, m, this, Target) \subseteq After(scenario, m)
<1>1. /\ outcome = "running" /\ ~(Len(bases) < Len(program.lookups)) /\ ~Skipped
  BY DEF AtStep, Testing, Searching
<1> QED BY <1>1, MomentPlace DEF After, program

\* The program may end at every moment.
LEMMA AfterFailure ==
    ASSUME outcome = "running", NEW m, m = Moment
    PROVE  [m EXCEPT !.place.outcome = "failure"] \in After(scenario, m)
BY MomentPlace DEF After

\* A step that passes.
LEMMA PassesTo ==
    ASSUME HostInv, outcome = "running", UNCHANGED scenario, StepPasses,
           log'.alarms = log.alarms, NEW p, p = Place,
           NEW m, m = Mo(bases', SettledCores', env', p, log.alarms)
    PROVE  \E q \in StepOver(scenario, p) : Moment' = [m EXCEPT !.place = q]
<1>1. Place' \in StepOver(scenario, p)
  BY StepPlaces
<1>2. PICK q : q = Place'
  OBVIOUS
<1>3. [m EXCEPT !.place = q] = Mo(bases', SettledCores', env', q, log.alarms)
  BY MoPlace
<1>4. Moment' = Mo(bases', SettledCores', env', Place', log'.alarms)
  BY DEF Moment, Mo, SettledCores, Place
<1> QED BY <1>1, <1>2, <1>3, <1>4

\* A comparison.
LEMMA ComparedTo ==
    ASSUME HostInv, outcome = "running", UNCHANGED scenario, NEW v,
           v = this.val => StepPasses /\ log'.alarms = log.alarms,
           v # this.val => StepFails /\ log'.alarms = log.alarms \cup {AlarmOf(this, v)},
           NEW m, m = Mo(bases', SettledCores', env', Place, log.alarms)
    PROVE  Moment' \in Compared(scenario, m, this, v)
<1>0. m.place = Place /\ m.alarms = log.alarms
  BY DEF Mo
<1>1. CASE v = this.val
  <2>1. PICK q \in StepOver(scenario, m.place) : Moment' = [m EXCEPT !.place = q]
    BY <1>0, <1>1, PassesTo
  <2> QED BY <1>1, <2>1 DEF Compared
<1>2. CASE v # this.val
  <2>1. PICK q \in StepFailed(scenario, m.place) : q = Place'
    BY <1>0, <1>2, StepFailPlaces
  <2>2. PICK x : x = log.alarms \cup {AlarmOf(this, v)}
    OBVIOUS
  <2>3. [m EXCEPT !.place = q, !.alarms = x] = Mo(bases', SettledCores', env', q, x)
    <3>1. PICK p, a : p = Place /\ a = log.alarms
      OBVIOUS
    <3>2. m = Mo(bases', SettledCores', env', p, a)
      BY <3>1
    <3>3. PICK n : n = [m EXCEPT !.place = q]
      OBVIOUS
    <3>4. n = Mo(bases', SettledCores', env', q, a)
      BY <3>2, <3>3, MoPlace
    <3>5. [m EXCEPT !.place = q, !.alarms = x] = [n EXCEPT !.alarms = x]
      BY <3>3
    <3>6. [n EXCEPT !.alarms = x] = Mo(bases', SettledCores', env', q, x)
      BY <3>4 DEF Mo
    <3> QED BY <3>5, <3>6
  <2>4. Moment' = Mo(bases', SettledCores', env', Place', log'.alarms)
    BY DEF Moment, Mo, SettledCores, Place
  <2>5. Moment' = [m EXCEPT !.place = q, !.alarms = x]
    BY <1>2, <2>1, <2>2, <2>3, <2>4
  <2>6. x = m.alarms \cup {AlarmOf(this, v)}
    BY <1>0, <2>2
  <2> QED BY <1>2, <2>5, <2>6 DEF Compared
<1> QED BY <1>1, <1>2

\* Until something goes wrong the patience holds.
LEMMA StillInOrder ==
    ASSUME PatienceInv, ~Excused
    PROVE  RunInv
BY DEF PatienceInv

\* A write is a step in order.
LEMMA WriteInStep ==
    ASSUME AllPatient, HostInv, PatienceInv, WriteStep, ~Excused'
    PROVE  InStep
<1> DEFINE i == CalledCore(address)
           r == CalledRegister(address)
           u == IsCommand(i, r) /\ Begun(cores[i], written) = "none"
<1>1. /\ Outpaced(i)
      /\ cores' = IF i \in DOMAIN cores
                  THEN [cores EXCEPT ![i] = Write(cores[i], r, written)] ELSE cores
      /\ log' = [log EXCEPT !.stray = @ \/ Strayed(i), !.unheard = @ \/ u,
                            !.owed = IF IsCommand(i, r) THEN @ \cup {i} ELSE @]
      /\ AtStep /\ Call(address) /\ StepPasses /\ UNCHANGED <<scenario, bases, env>>
      /\ this.do = "write"
  BY DEF WriteStep
<1>2. /\ log'.late = log.late /\ log'.stray = (log.stray \/ Strayed(i))
      /\ log'.alarms = log.alarms
  BY <1>1 DEF HostInv, LogInv
<1>3. i = Target /\ r = this.at
  BY <1>1, StepTarget
<1> HIDE DEF i, r
<1>4. RunInv /\ ~Strayed(Target) /\ outcome = "running"
  BY <1>1, <1>2, <1>3, StillInOrder DEF Excused, AtStep, Testing
<1>5. Meant(scenario, current, Target)
  BY <1>1, <1>4, TargetMeant
<1>6. i \in DOMAIN cores
  BY <1>3, <1>5, PatientFacts
<1> DEFINE d == Write(cores[i], r, written)
<1>0. PICK x : x = Settled(Write(Settled(cores[i]), r, written))
  OBVIOUS
<1>7. Settled(d) = x
  <2>1. CASE cores[i].op = "none"
    BY <1>0, <2>1 DEF Settled
  <2>2. CASE cores[i].op # "none"
    <3>1. /\ SameCore(cores[i], "aes") /\ cores[i].op = "init"
          /\ \/ r = ADDR_CTRL
             \/ r = AES_ADDR_BLOCK
             \/ r = AES_ADDR_CONFIG /\ Head(written) = Head(Reg(cores[i], AES_ADDR_CONFIG))
      BY <1>1, <1>3, <1>4, <1>6, <2>2, WritingAtWork
    <3>2. r # ADDR_CTRL
      BY <1>1, <1>3, <1>6, <3>1 DEF Outpaced, SameCore
    <3>3. PICK c : c = cores[i]
      OBVIOUS
    <3>4. Settled(Write(c, r, written)) = Settled(Write(Settled(c), r, written))
      BY <3>1, <3>2, <3>3, SettledAes
    <3> QED BY <1>0, <3>3, <3>4
  <2> QED BY <2>1, <2>2
<1>8. SettledCores' = [SettledCores EXCEPT ![i] = x]
  <2>1. cores' = [cores EXCEPT ![i] = d]
    BY <1>1, <1>6
  <2> HIDE DEF d
  <2> QED BY <1>6, <1>7, <2>1, SettledStep
<1> HIDE DEF d
<1>9. PICK m : m = Moment
  OBVIOUS
<1>10. PICK n : n = [m EXCEPT !.cores[i] = x]
  OBVIOUS
<1>11. n = Mo(bases', SettledCores', env', Place, log.alarms)
  <2>1. n = Mo(bases, [SettledCores EXCEPT ![i] = x], env, Place, log.alarms)
    <3>1. PICK p, a, b, e, cs : /\ p = Place /\ a = log.alarms
                                /\ b = bases /\ e = env /\ cs = SettledCores
      OBVIOUS
    <3>2. m = Mo(b, cs, e, p, a)
      BY <1>9, <3>1, MomentIs
    <3>3. PICK j : j = i
      OBVIOUS
    <3>4. n = [m EXCEPT !.cores[j] = x]
      BY <1>10, <3>3
    <3>5. n = Mo(b, [cs EXCEPT ![j] = x], e, p, a)
      BY ONLY <3>2, <3>4 DEF Mo
    <3> QED BY <3>1, <3>3, <3>5
  <2> QED BY <1>1, <1>8, <2>1
<1>12. PICK q \in StepOver(scenario, Place) : Moment' = [n EXCEPT !.place = q]
  BY <1>1, <1>2, <1>4, <1>11, PassesTo
<1>13. m.place = Place /\ m.cores[i] = Settled(cores[i]) /\ m.env = env
  BY <1>6, <1>9, MomentPlace, SettledOf
<1>14. x = Settled(Write(m.cores[i], this.at,
                         IF this.var = "" THEN this.val ELSE m.env[this.var]))
  BY <1>0, <1>3, <1>13 DEF written
<1>15. Moment' \in Accessed(scenario, m, this, i)
  BY <1>1, <1>10, <1>12, <1>13, <1>14 DEF Accessed
<1>16. Accessed(scenario, m, this, Target) \subseteq After(scenario, m)
  BY <1>1, <1>5, <1>9, AfterStep
<1> QED BY <1>3, <1>9, <1>15, <1>16 DEF InStep

\* A read, of a core that is not at work.
LEMMA ReadIdle ==
    ASSUME AllPatient, HostInv, RunInv, AtStep, this.do \in {"read", "expect"},
           NEW i \in DOMAIN cores
    PROVE  cores[i].op = "none"
<1> SUFFICES ASSUME cores[i].op # "none" PROVE FALSE
  OBVIOUS
<1>1. OpsAt(scenario, current, Target, cores, step)
  BY CoresHere DEF CoresAt
<1>2. Meant(scenario, current, i)
      /\ \E k \in 1 .. step - 1 : Pending(cores[i].kind, current, k, step)
  BY <1>1 DEF OpsAt
<1>3. PICK k \in 1 .. step - 1 : Pending(cores[i].kind, current, k, step)
  BY <1>2
<1>4. PatientTest(scenario, current, cores[i].kind) /\ step \in DOMAIN current.steps
  BY <1>2, PatientFacts
<1>5. Harmless(cores[i].kind, current, k, step)
  BY <1>3, <1>4 DEF PatientTest
<1> QED BY <1>5 DEF Harmless, Writes, this

\* What a read of the target does to the moment.
LEMMA ReadMoment ==
    ASSUME AllPatient, HostInv, RunInv, AtStep, this.do \in {"read", "expect"},
           UNCHANGED <<scenario, bases>>,
           NEW i \in DOMAIN cores, NEW r, ReadsCore(i, r), NEW m, m = Moment,
           NEW n, n = [m EXCEPT !.cores[i] = AfterRead(m.cores[i], r)]
    PROVE  /\ n = Mo(bases', SettledCores', env, Place, log.alarms)
           /\ m.cores[i] = cores[i]
           /\ Read(i, r) = ValueAt(m.cores[i], r)
<1> DEFINE d == AfterRead(cores[i], r)
<1>1. cores[i].op = "none"
  BY ReadIdle
<1>2. m.cores[i] = cores[i] /\ m.cores = SettledCores
  BY <1>1, MomentPlace, SettledOf DEF Settled
<1>3. Settled(d) = d
  <2>1. SameCore(cores[i], cores[i].kind)
    BY CoreKinds
  <2>2. d.op = "none"
    BY <1>1, <2>1, ReadSignals
  <2> QED BY <2>2 DEF Settled
<1>4. SettledCores' = [SettledCores EXCEPT ![i] = d]
  <2>1. cores' = [cores EXCEPT ![i] = d]
    BY DEF ReadsCore
  <2> HIDE DEF d
  <2> QED BY <1>3, <2>1, SettledStep
<1>5. n = [m EXCEPT !.cores[i] = d]
  BY <1>2
<1> HIDE DEF d
<1>6. n = Mo(bases, [SettledCores EXCEPT ![i] = d], env, Place, log.alarms)
  <2>1. PICK p, a, b, e, cs : /\ p = Place /\ a = log.alarms
                              /\ b = bases /\ e = env /\ cs = SettledCores
    OBVIOUS
  <2>2. m = Mo(b, cs, e, p, a)
    BY <2>1, MomentIs
  <2>3. PICK j, x : j = i /\ x = d
    OBVIOUS
  <2>4. n = [m EXCEPT !.cores[j] = x]
    BY <1>5, <2>3
  <2>5. n = Mo(b, [cs EXCEPT ![j] = x], e, p, a)
    BY ONLY <2>2, <2>4 DEF Mo
  <2> QED BY <2>1, <2>3, <2>5
<1>7. Read(i, r) = ValueAt(m.cores[i], r)
  BY <1>2 DEF Read
<1> QED BY <1>2, <1>4, <1>6, <1>7

\* The core a call reaches, when it does not go astray.
LEMMA CallMeant ==
    ASSUME AllPatient, HostInv, AtStep, Call(address), ~Strayed(CalledCore(address))
    PROVE  /\ CalledCore(address) = Target /\ CalledRegister(address) = this.at
           /\ Meant(scenario, current, Target) /\ Target \in DOMAIN cores
<1>1. CalledCore(address) = Target /\ CalledRegister(address) = this.at
  BY StepTarget
<1>2. Meant(scenario, current, Target)
  BY <1>1, TargetMeant
<1> QED BY <1>1, <1>2, PatientFacts

\* A read is a step in order.
LEMMA ReadInStep ==
    ASSUME AllPatient, HostInv, PatienceInv, ReadStep, ~Excused'
    PROVE  InStep
<1>1. PICK i \in {CalledCore(address)}, r \in {CalledRegister(address)} :
         ReadsCore(i, r) /\ log' = Logged(i) /\ env' = Put(env, this.var, Read(i, r))
  BY DEF ReadStep
<1>2. /\ AtStep /\ Call(address) /\ StepPasses /\ UNCHANGED <<scenario, bases>>
      /\ this.do = "read"
  BY DEF ReadStep
<1>3. /\ log'.late = log.late /\ log'.stray = (log.stray \/ Strayed(i))
      /\ log'.alarms = log.alarms
  BY <1>1 DEF HostInv, LogInv, Logged
<1>4. RunInv /\ ~Strayed(i) /\ outcome = "running"
  BY <1>2, <1>3, StillInOrder DEF Excused, AtStep, Testing
<1>5. i = Target /\ r = this.at /\ Meant(scenario, current, Target) /\ i \in DOMAIN cores
  BY <1>1, <1>2, <1>4, CallMeant
<1>6. PICK m : m = Moment
  OBVIOUS
<1>7. PICK n : n = [m EXCEPT !.cores[i] = AfterRead(m.cores[i], r)]
  OBVIOUS
<1>8. /\ n = Mo(bases', SettledCores', env, Place, log.alarms)
      /\ Read(i, r) = ValueAt(m.cores[i], r)
  BY <1>1, <1>2, <1>4, <1>5, <1>6, <1>7, ReadMoment
<1>9. PICK l : l = [n EXCEPT !.env = Put(@, this.var, ValueAt(m.cores[i], r))]
  OBVIOUS
<1>10. n.env = env
  BY <1>8 DEF Mo
<1>11. l = [n EXCEPT !.env = env']
  BY <1>1, <1>8, <1>9, <1>10
<1>12. l = Mo(bases', SettledCores', env', Place, log.alarms)
  BY <1>8, <1>11 DEF Mo
<1>13. PICK q \in StepOver(scenario, Place) : Moment' = [l EXCEPT !.place = q]
  BY <1>2, <1>3, <1>4, <1>12, PassesTo
<1>14. m.place = Place
  BY <1>6, MomentPlace
<1>15. Moment' \in Accessed(scenario, m, this, i)
  <2>1. [[m EXCEPT !.cores[i] = AfterRead(m.cores[i], this.at)]
           EXCEPT !.env = Put(@, this.var, ValueAt(m.cores[i], this.at))] = l
    BY <1>5, <1>7, <1>9
  <2>2. Accessed(scenario, m, this, i)
           = {[l EXCEPT !.place = p] : p \in StepOver(scenario, m.place)}
    BY <1>2, <2>1 DEF Accessed
  <2> QED BY <1>13, <1>14, <2>2
<1>16. Accessed(scenario, m, this, Target) \subseteq After(scenario, m)
  BY <1>2, <1>5, <1>6, AfterStep
<1> QED BY <1>5, <1>6, <1>15, <1>16 DEF InStep

\* What a comparison adds to the alarms.
LEMMA AlarmIs ==
    ASSUME HostInv, NEW v
    PROVE  Alarm(v).alarms = log.alarms \cup {AlarmOf(this, v)}
BY DEF Alarm, HostInv, LogInv

\* A read that is compared is.
LEMMA ExpectInStep ==
    ASSUME AllPatient, HostInv, PatienceInv, ExpectStep, ~Excused'
    PROVE  InStep
<1>1. PICK i \in {CalledCore(address)}, r \in {CalledRegister(address)} :
         /\ ReadsCore(i, r)
         /\ IF Read(i, r) = this.val THEN log' = Logged(i) /\ StepPasses
            ELSE log' = [Logged(i) EXCEPT !.alarms = Alarm(Read(i, r)).alarms] /\ StepFails
  BY DEF ExpectStep
<1>2. /\ AtStep /\ Call(address) /\ UNCHANGED <<scenario, bases, env>> /\ this.do = "expect"
  BY DEF ExpectStep
<1>3. /\ log'.late = log.late /\ log'.stray = (log.stray \/ Strayed(i))
      /\ log'.alarms = IF Read(i, r) = this.val THEN log.alarms
                       ELSE log.alarms \cup {AlarmOf(this, Read(i, r))}
  <2>1. CASE Read(i, r) = this.val
    BY <1>1, <2>1 DEF HostInv, LogInv, Logged
  <2>2. CASE Read(i, r) # this.val
    <3>1. PICK x : x = log.alarms \cup {AlarmOf(this, Read(i, r))}
      OBVIOUS
    <3>2. log' = [Logged(i) EXCEPT !.alarms = x]
      BY <1>1, <2>2, <3>1, AlarmIs
    <3>3. log'.late = log.late /\ log'.stray = (log.stray \/ Strayed(i)) /\ log'.alarms = x
      BY <3>2 DEF HostInv, LogInv, Logged
    <3> QED BY <2>2, <3>1, <3>3
  <2> QED BY <2>1, <2>2
<1>4. RunInv /\ ~Strayed(i) /\ outcome = "running"
  BY <1>2, <1>3, StillInOrder DEF Excused, AtStep, Testing
<1>5. i = Target /\ r = this.at /\ Meant(scenario, current, Target) /\ i \in DOMAIN cores
  BY <1>1, <1>2, <1>4, CallMeant
<1>6. PICK m : m = Moment
  OBVIOUS
<1>7. PICK n : n = [m EXCEPT !.cores[i] = AfterRead(m.cores[i], r)]
  OBVIOUS
<1>8. /\ n = Mo(bases', SettledCores', env, Place, log.alarms)
      /\ Read(i, r) = ValueAt(m.cores[i], r)
  BY <1>1, <1>2, <1>4, <1>5, <1>6, <1>7, ReadMoment
<1>9. PICK v : v = ValueAt(m.cores[i], r)
  OBVIOUS
<1>10. v = this.val => StepPasses /\ log'.alarms = log.alarms
  BY <1>1, <1>3, <1>8, <1>9
<1>11. v # this.val => StepFails /\ log'.alarms = log.alarms \cup {AlarmOf(this, v)}
  BY <1>1, <1>3, <1>8, <1>9
<1>12. n = Mo(bases', SettledCores', env', Place, log.alarms)
  BY <1>2, <1>8
<1>13. Moment' \in Compared(scenario, n, this, v)
  BY <1>2, <1>4, <1>10, <1>11, <1>12, ComparedTo
<1>14. Compared(scenario, n, this, v) = Accessed(scenario, m, this, i)
  BY <1>2, <1>5, <1>7, <1>9 DEF Accessed
<1>15. Accessed(scenario, m, this, Target) \subseteq After(scenario, m)
  BY <1>2, <1>5, <1>6, AfterStep
<1> QED BY <1>5, <1>6, <1>13, <1>14, <1>15 DEF InStep

\* A comparison is.
LEMMA CompareInStep ==
    ASSUME HostInv, CompareStep
    PROVE  InStep
<1>1. /\ AtStep /\ UNCHANGED <<scenario, cores, bases, env>> /\ this.do = "compare"
      /\ outcome = "running"
      /\ IF env[this.var] = this.val THEN UNCHANGED log /\ StepPasses
         ELSE log' = Alarm(env[this.var]) /\ StepFails
  BY DEF CompareStep, AtStep, Testing
<1>2. PICK m : m = Moment
  OBVIOUS
<1>3. PICK v : v = env[this.var]
  OBVIOUS
<1>4. v = this.val => StepPasses /\ log'.alarms = log.alarms
  BY <1>1, <1>3
<1>5. v # this.val => StepFails /\ log'.alarms = log.alarms \cup {AlarmOf(this, v)}
  BY <1>1, <1>3, AlarmIs
<1>6. m = Mo(bases', SettledCores', env', Place, log.alarms)
  <2>1. SettledCores' = SettledCores
    BY <1>1 DEF SettledCores
  <2> QED BY <1>1, <1>2, <2>1, MomentIs
<1>7. Moment' \in Compared(scenario, m, this, v)
  BY <1>1, <1>4, <1>5, <1>6, ComparedTo
<1>8. Compared(scenario, m, this, v) \subseteq After(scenario, m)
  BY <1>1, <1>2, <1>3, AfterStep
<1> QED BY <1>2, <1>7, <1>8 DEF InStep

\* A poll is a step in order when it passes, and none when it does not.
LEMMA WaitInStep ==
    ASSUME AllPatient, HostInv, WaitStep, ~Excused'
    PROVE  InStep
<1> DEFINE i == CalledCore(address)
           r == CalledRegister(address)
<1>1. /\ log' = [log EXCEPT !.stray = @ \/ Strayed(i)]
      /\ \/ StepPasses
         \/ UNCHANGED <<test, step, outcome>>
      /\ AtStep /\ Call(address) /\ UNCHANGED <<scenario, cores, bases, env>>
      /\ this.do = "wait" /\ outcome = "running"
  BY DEF WaitStep, AtStep, Testing
<1>2. /\ log'.stray = (log.stray \/ Strayed(i)) /\ log'.alarms = log.alarms
  BY <1>1 DEF HostInv, LogInv
<1> HIDE DEF i, r
<1>3. PICK m : m = Moment
  OBVIOUS
<1>4. SettledCores' = SettledCores
  BY <1>1 DEF SettledCores
<1>5. CASE UNCHANGED <<test, step, outcome>>
  BY <1>1, <1>2, <1>4, <1>5 DEF InStep, Moment, SettledCores
<1>6. CASE StepPasses
  <2>1. Meant(scenario, current, Target)
    BY <1>1, <1>2, CallMeant DEF i, Excused
  <2>2. m = Mo(bases', SettledCores', env', Place, log.alarms)
    BY <1>1, <1>3, <1>4, MomentIs
  <2>3. PICK q \in StepOver(scenario, Place) : Moment' = [m EXCEPT !.place = q]
    BY <1>1, <1>2, <1>6, <2>2, PassesTo
  <2>4. m.place = Place
    BY <1>3, MomentPlace
  <2>5. Moment' \in Accessed(scenario, m, this, Target)
    BY <1>1, <2>3, <2>4 DEF Accessed
  <2>6. Accessed(scenario, m, this, Target) \subseteq After(scenario, m)
    BY <1>1, <1>3, <2>1, AfterStep
  <2> QED BY <1>3, <2>5, <2>6 DEF InStep
<1> QED BY <1>1, <1>5, <1>6

\* The program ends where it is.
LEMMA FailureInStep ==
    ASSUME outcome = "running", outcome' = "failure",
           UNCHANGED <<scenario, cores, bases, env, test, step, log>>
    PROVE  InStep
<1>1. PICK m : m = Moment
  OBVIOUS
<1>2. SettledCores' = SettledCores
  BY DEF SettledCores
<1>3. Place' = [Place EXCEPT !.outcome = "failure"]
  BY DEF Place
<1>4. [m EXCEPT !.place.outcome = "failure"] = Moment'
  <2>1. PICK p, a, q : /\ p = Place /\ a = log.alarms
                       /\ q = [p EXCEPT !.outcome = "failure"]
    OBVIOUS
  <2>2. m = Mo(bases, SettledCores, env, p, a)
    BY <1>1, <2>1, MomentIs
  <2>3. [m EXCEPT !.place.outcome = "failure"] = [m EXCEPT !.place = q]
    BY ONLY <2>1, <2>2 DEF Mo
  <2>4. [m EXCEPT !.place = q] = Mo(bases, SettledCores, env, q, a)
    BY ONLY <2>2, MoPlace
  <2>5. Moment' = Mo(bases, SettledCores, env, Place', a)
    BY <1>2, <2>1 DEF Moment, Mo, SettledCores, Place
  <2> QED BY <1>3, <2>1, <2>3, <2>4, <2>5
<1>5. [m EXCEPT !.place.outcome = "failure"] \in After(scenario, m)
  BY <1>1, AfterFailure
<1> QED BY <1>1, <1>4, <1>5 DEF InStep

\* Nothing of the moment changes.
LEMMA StaysInStep ==
    ASSUME UNCHANGED <<cores, bases, env, test, step, outcome, log>>
    PROVE  InStep
BY DEF InStep, Moment

\* Only a program that runs accesses the bus.
LEMMA AccessingRuns == ASSUME Accessing PROVE outcome = "running"
BY DEF Accessing, Probing, Searching, AtStep, Testing

\* The set-up of the bus is no step, or the end.
LEMMA SetUpInStep ==
    ASSUME SetUp
    PROVE  InStep
<1>1. /\ UNCHANGED <<scenario, cores, bases, env, test, step, log>>
      /\ outcome' = outcome \/ outcome' = "failure"
      /\ outcome = "running"
  BY AccessingRuns DEF SetUp
<1> QED BY <1>1, FailureInStep, StaysInStep

\* A page that cannot be mapped is the end.
LEMMA MapInStep ==
    ASSUME MapFails
    PROVE  InStep
<1>1. /\ UNCHANGED <<scenario, cores, bases, env, test, step, log>>
      /\ outcome' = "failure" /\ outcome = "running"
  BY AccessingRuns DEF MapFails
<1> QED BY <1>1, FailureInStep

\* A call that fails excuses what follows; a probing that fails is no step.
LEMMA OpenInStep ==
    ASSUME HostInv, OpenFails, ~Excused'
    PROVE  InStep
<1>1. CASE Probing
  BY <1>1, StaysInStep DEF OpenFails
<1>2. CASE ~Probing
  <2>1. log' = [log EXCEPT !.late = TRUE]
    BY <1>2 DEF OpenFails
  <2>2. log'.late
    BY <2>1 DEF HostInv, LogInv
  <2> QED BY <2>2 DEF Excused
<1> QED BY <1>1, <1>2

\* A look-up finds one of the cores of the name, or none, in whatever list.
LEMMA LookUpInStep ==
    ASSUME HostInv, LookUp
    PROVE  InStep
<1> DEFINE name == program.lookups[Len(bases) + 1]
           base == IF program.scan THEN ScannedBase(found, name)
                                   ELSE tc_core_base(found, name)
<1>1. /\ bases' = Append(bases, base) /\ outcome = "running"
      /\ Len(bases) < Len(program.lookups)
      /\ UNCHANGED <<scenario, cores, env, test, step, log>>
      /\ outcome' \in LookedUp(scenario, base)
  <2>1. /\ bases' = Append(bases, base) /\ outcome = "running"
        /\ Len(bases) < Len(program.lookups)
        /\ UNCHANGED <<scenario, cores, env, test, step, log>>
    BY DEF LookUp, Searching
  <2> DEFINE o(b) == CASE b = 0 /\ program.onAbsent = "abort" -> "aborted"
                       [] b = 0 /\ program.onAbsent = "fail"  -> "failure"
                       [] OTHER -> "running"
  <2>2. outcome' = IF program.scan /\ ScanCrashes(found) THEN "crashed" ELSE o(base)
    BY DEF LookUp
  <2> HIDE DEF base
  <2>3. LookedUp(scenario, base) = (IF program.scan THEN {"crashed"} ELSE {}) \cup {o(base)}
    BY DEF LookedUp, program
  <2> HIDE DEF o
  <2>4. outcome' \in LookedUp(scenario, base)
    BY <2>2, <2>3
  <2> QED BY <2>1, <2>4
<1>2. base = 0 \/ IsBaseOf(base, name)
  <2>1. found \in Seq(Entry) /\ ScenarioInv /\ ListInv
    BY DEF HostInv, ListInv
  <2>2. name \in Names
    <3>1. program.lookups \in Seq(Names)
      BY ScenarioFacts DEF HostInv, WellFormedProgram, Names
    <3>2. bases \in Seq(Nat)
      BY DEF HostInv, BasesInv
    <3> QED BY <1>1, <3>1, <3>2
  <2>3. \/ base = 0
        \/ \E j \in 1 .. Len(found) : base = found[j].base /\ IsPrefix(name, found[j].name)
    <3>1. CASE program.scan
      BY <2>1, <2>2, <3>1, ScannedBaseIsOfName
    <3>2. CASE ~program.scan
      BY <2>1, <3>2, BaseIsOfName
    <3> QED BY <3>1, <3>2
  <2> HIDE DEF base, name
  <2> QED BY <2>1, <2>3, ListedBase
<1> HIDE DEF base
<1>3. base \in BasesOf(scenario, name)
  <2>1. scenario.fabric \in Seq([kind : Kinds, name : Seq(STRING), version : Seq(STRING)])
    BY ScenarioFacts DEF HostInv, WellFormed
  <2>2. DOMAIN scenario.fabric = 1 .. Len(scenario.fabric)
    BY <2>1, SequenceFacts
  <2> HIDE DEF name
  <2> QED BY <1>2, <2>2 DEF BasesOf, IsBaseOf
<1>4. PICK m : m = Moment
  OBVIOUS
<1>5. m.bases = bases /\ m.place.outcome = "running"
  BY <1>1, <1>4, MomentPlace
<1>6. PICK o : o = outcome'
  OBVIOUS
<1>7. [m EXCEPT !.bases = bases', !.place.outcome = o] = Moment'
  <2>1. PICK p, a, q : p = Place /\ a = log.alarms /\ q = [p EXCEPT !.outcome = o]
    OBVIOUS
  <2>2. m = Mo(bases, SettledCores, env, p, a)
    BY <1>4, <2>1, MomentIs
  <2>3. PICK x, n : x = bases' /\ n = [m EXCEPT !.bases = x]
    OBVIOUS
  <2>4. n = Mo(x, SettledCores, env, p, a)
    BY ONLY <2>2, <2>3 DEF Mo
  <2>5. [m EXCEPT !.bases = x, !.place.outcome = o] = [n EXCEPT !.place.outcome = o]
    BY ONLY <2>3
  <2>6. [n EXCEPT !.place.outcome = o] = [n EXCEPT !.place = q]
    BY ONLY <2>1, <2>4 DEF Mo
  <2>7. [n EXCEPT !.place = q] = Mo(x, SettledCores, env, q, a)
    BY ONLY <2>4, MoPlace
  <2>8. SettledCores' = SettledCores
    BY <1>1 DEF SettledCores
  <2>9. Place' = [Place EXCEPT !.outcome = o]
    BY <1>1, <1>6 DEF Place
  <2>10. Moment' = Mo(bases', SettledCores, env, Place', a)
    BY <1>1, <2>1, <2>8 DEF Moment, Mo, SettledCores, Place
  <2> QED BY <2>1, <2>3, <2>5, <2>6, <2>7, <2>9, <2>10
<1>8. [m EXCEPT !.bases = Append(@, base), !.place.outcome = o]
         = [m EXCEPT !.bases = bases', !.place.outcome = o]
  BY <1>1, <1>5
<1>9. Moment' \in LookingUp(scenario, m)
  <2>1. name = scenario.program.lookups[Len(m.bases) + 1]
    BY <1>5 DEF program
  <2> DEFINE Found(b) == {[m EXCEPT !.bases = Append(@, b), !.place.outcome = u] :
                              u \in LookedUp(scenario, b)}
  <2>2. LookingUp(scenario, m) = UNION {Found(b) : b \in BasesOf(scenario, name)}
    BY <2>1 DEF LookingUp
  <2>3. Moment' = [m EXCEPT !.bases = Append(@, base), !.place.outcome = o]
    BY <1>7, <1>8
  <2>4. o \in LookedUp(scenario, base)
    BY <1>1, <1>6
  <2>5. Moment' \in Found(base)
    BY <2>3, <2>4
  <2> HIDE DEF name, Found
  <2> QED BY <1>3, <2>2, <2>5
<1>10. LookingUp(scenario, m) \subseteq After(scenario, m)
  BY <1>1, <1>5 DEF After, program
<1> QED BY <1>4, <1>9, <1>10 DEF InStep

\* A test that is skipped is a step in order.
LEMMA SkipInStep ==
    ASSUME HostInv, SkipTest
    PROVE  InStep
<1>1. /\ UNCHANGED <<scenario, cores, bases, env, log>> /\ TestPasses /\ outcome = "running"
      /\ ~(Len(bases) < Len(program.lookups)) /\ Skipped
  BY DEF SkipTest, Testing, Searching
<1>2. PICK q \in TestOver(scenario, Place) : q = Place'
  BY <1>1, TestPlaces
<1>3. PICK m : m = Moment
  OBVIOUS
<1>4. Moment' = [m EXCEPT !.place = q]
  <2>1. SettledCores' = SettledCores
    BY <1>1 DEF SettledCores
  <2>2. PICK a : a = log.alarms
    OBVIOUS
  <2>3. PICK p : p = Place
    OBVIOUS
  <2>4. m = Mo(bases, SettledCores, env, p, a)
    BY <1>3, <2>2, <2>3, MomentIs
  <2>5. [m EXCEPT !.place = q] = Mo(bases, SettledCores, env, q, a)
    BY ONLY <2>4, MoPlace
  <2>6. Moment' = Mo(bases, SettledCores, env, Place', a)
    BY <1>1, <2>1, <2>2 DEF Moment, Mo, SettledCores, Place
  <2> QED BY <1>2, <2>5, <2>6
<1>5. After(scenario, m) = {[m EXCEPT !.place.outcome = "failure"]}
                              \cup {[m EXCEPT !.place = p] : p \in TestOver(scenario, m.place)}
  BY <1>1, <1>3, MomentPlace DEF After, program
<1>6. m.place = Place
  BY <1>3, MomentPlace
<1> QED BY <1>3, <1>4, <1>5, <1>6 DEF InStep

\* The end of an operation is none of the program's steps.
LEMMA FinishInStep ==
    ASSUME HostInv, NEW i \in DOMAIN cores, CoreFinishes(i)
    PROVE  InStep
<1>1. /\ cores[i].op # "none" /\ cores' = [cores EXCEPT ![i] = Finished(cores[i])]
      /\ log' = [log EXCEPT !.owed = @ \ {i}]
      /\ UNCHANGED <<bases, env, test, step, outcome>>
  BY DEF CoreFinishes
<1>2. log'.alarms = log.alarms
  BY <1>1 DEF HostInv, LogInv
<1>3. SameCore(cores[i], cores[i].kind) /\ cores[i].kind \in Kinds /\ cores[i].kind # "plain"
  BY <1>1, CoreKinds DEF SameCore
<1>4. Finished(cores[i]).op = "none"
  BY <1>3, FinishedCore
<1>5. Settled(Finished(cores[i])) = Settled(cores[i])
  BY <1>1, <1>4 DEF Settled
<1>6. SettledCores' = SettledCores
  BY <1>1, <1>5 DEF SettledCores
<1>7. Moment' = Moment
  BY <1>1, <1>2, <1>6 DEF Moment, SettledCores
<1> QED BY <1>7 DEF InStep

\* Every step is one in order, none, or excused.
LEMMA NextInStep ==
    ASSUME AllPatient, HostInv, PatienceInv, [Next]_vars
    PROVE  InStep \/ Excused'
<1> SUFFICES ASSUME ~Excused' PROVE InStep
  OBVIOUS
<1>1. CASE UNCHANGED vars
  BY <1>1, StaysInStep DEF vars, hostVars
<1>2. ASSUME WaitTimesOut PROVE FALSE
  <2>1. log' = [log EXCEPT !.late = TRUE]
    BY <1>2 DEF WaitTimesOut
  <2>2. log'.late
    BY <2>1 DEF HostInv, LogInv
  <2> QED BY <2>2 DEF Excused
<1>3. CASE ProbeSlot
  BY <1>3, StaysInStep DEF ProbeSlot
<1>4. CASE HostStep
  BY <1>2, <1>3, <1>4, SetUpInStep, MapInStep, OpenInStep, LookUpInStep, SkipInStep,
     WriteInStep, ReadInStep, ExpectInStep, CompareInStep, WaitInStep DEF HostStep
<1>5. ASSUME NEW i \in DOMAIN cores, CoreFinishes(i) PROVE InStep
  BY <1>5, FinishInStep
<1> QED BY <1>1, <1>4, <1>5 DEF Next

-----------------------------------------------------------------------------
(* Runs in order.                                                          *)

\* The moment is one of every set that is closed under the program's steps.
OrderInv == Excused \/ \A R : InOrder(scenario, R) => Moment \in R

\* A program that stops at whatever fails has stopped.
EndInv ==
    scenario.program.reference # <<>> /\ StopsAtOnce(scenario) /\ log.late
        => outcome \notin {"running", "success"}

\* Nothing is forgotten, and when the program is over nothing happens.
LEMMA LateStays ==
    ASSUME HostInv, HostStep \/ \E i \in DOMAIN cores : CoreFinishes(i)
    PROVE  /\ scenario' = scenario /\ outcome = "running"
           /\ Excused => Excused'
           /\ log'.late # log.late =>
                WaitTimesOut \/ (OpenFails /\ ~Probing /\ AtStep)
<1>1. log \in LogSet
  BY LogTypes DEF HostInv
<1>2. ASSUME NEW i PROVE Logged(i).late = log.late /\ (log.stray => Logged(i).stray)
  BY <1>1 DEF Logged, LogSet
<1>3. \A v : Alarm(v).late = log.late /\ Alarm(v).stray = log.stray
  BY <1>1 DEF Alarm, LogSet
<1>4. CASE SetUp \/ MapFails \/ ProbeSlot \/ LookUp \/ SkipTest
  BY <1>4, AccessingRuns DEF SetUp, MapFails, ProbeSlot, LookUp, SkipTest, Probing, Searching,
                             Testing, Excused
<1>5. CASE OpenFails
  <2>1. CASE Probing
    BY <1>5, <2>1, AccessingRuns DEF OpenFails, Excused
  <2>2. CASE ~Probing
    <3>1. log' = [log EXCEPT !.late = TRUE] /\ AtStep /\ scenario' = scenario
      BY <1>5, <2>2 DEF OpenFails, Accessing
    <3> QED BY <1>1, <1>5, <2>2, <3>1, AccessingRuns DEF Excused, LogSet, OpenFails
  <2> QED BY <2>1, <2>2
<1>6. CASE WaitTimesOut
  <2>1. log' = [log EXCEPT !.late = TRUE] /\ outcome = "running" /\ scenario' = scenario
    BY <1>6 DEF WaitTimesOut, AtStep, Testing
  <2> QED BY <1>1, <1>6, <2>1 DEF Excused, LogSet
<1>7. CASE WriteStep
  <2>1. /\ outcome = "running" /\ scenario' = scenario
        /\ \E i \in {CalledCore(address)}, r \in {CalledRegister(address)} :
              log' = [log EXCEPT
                        !.stray   = @ \/ Strayed(i),
                        !.unheard = @ \/ (IsCommand(i, r) /\ Begun(cores[i], written) = "none"),
                        !.owed    = IF IsCommand(i, r) THEN @ \cup {i} ELSE @]
    BY <1>7 DEF WriteStep, AtStep, Testing
  <2>2. log'.late = log.late /\ (log.stray => log'.stray)
    BY <1>1, <2>1 DEF LogSet
  <2> QED BY <2>1, <2>2 DEF Excused
<1>8. CASE ReadStep
  <2>1. /\ outcome = "running" /\ scenario' = scenario
        /\ \E i : log' = Logged(i)
    BY <1>8 DEF ReadStep, AtStep, Testing
  <2> QED BY <1>2, <2>1 DEF Excused
<1>9. CASE ExpectStep
  <2>1. /\ outcome = "running" /\ scenario' = scenario
        /\ \E i, x : log' = Logged(i) \/ log' = [Logged(i) EXCEPT !.alarms = x]
    BY <1>9 DEF ExpectStep, AtStep, Testing
  <2>2. PICK i, x : log' = Logged(i) \/ log' = [Logged(i) EXCEPT !.alarms = x]
    BY <2>1
  <2>3. [Logged(i) EXCEPT !.alarms = x].late = Logged(i).late
        /\ [Logged(i) EXCEPT !.alarms = x].stray = Logged(i).stray
    BY <1>1 DEF Logged, LogSet
  <2> QED BY <1>2, <2>1, <2>2, <2>3 DEF Excused
<1>10. CASE CompareStep
  <2>1. /\ outcome = "running" /\ scenario' = scenario /\ (log' = log \/ \E v : log' = Alarm(v))
    BY <1>10 DEF CompareStep, AtStep, Testing
  <2> QED BY <1>3, <2>1 DEF Excused
<1>11. CASE WaitStep
  <2>1. /\ outcome = "running" /\ scenario' = scenario
        /\ \E i : log' = [log EXCEPT !.stray = @ \/ Strayed(i)]
    BY <1>11 DEF WaitStep, AtStep, Testing
  <2>2. log'.late = log.late /\ (log.stray => log'.stray)
    BY <1>1, <2>1 DEF LogSet
  <2> QED BY <2>1, <2>2 DEF Excused
<1>12. CASE \E i \in DOMAIN cores : CoreFinishes(i)
  <2>1. /\ outcome = "running" /\ scenario' = scenario
        /\ \E i : log' = [log EXCEPT !.owed = @ \ {i}]
    BY <1>12 DEF CoreFinishes
  <2>2. log'.late = log.late /\ log'.stray = log.stray
    BY <1>1, <2>1 DEF LogSet
  <2> QED BY <2>1, <2>2 DEF Excused
<1> QED BY <1>4, <1>5, <1>6, <1>7, <1>8, <1>9, <1>10, <1>11, <1>12 DEF HostStep

\* Every step keeps to the closed sets.
LEMMA OrderStep ==
    ASSUME AllPatient, HostInv, PatienceInv, OrderInv, [Next]_vars
    PROVE  OrderInv'
<1>1. CASE UNCHANGED vars
  <2>1. Moment' = Moment /\ scenario' = scenario /\ (Excused' <=> Excused)
    BY <1>1 DEF vars, hostVars, Moment, Excused
  <2> QED BY <2>1 DEF OrderInv
<1>2. CASE Next
  <2>1. scenario' = scenario /\ (Excused => Excused')
    BY <1>2, LateStays DEF Next
  <2>2. CASE Excused'
    BY <2>2 DEF OrderInv
  <2>3. CASE ~Excused'
    <3>1. InStep
      BY <2>3, NextInStep
    <3>2. SUFFICES ASSUME NEW R, InOrder(scenario, R) PROVE Moment' \in R
      BY <2>1 DEF OrderInv
    <3>3. Moment \in R
      BY <2>1, <2>3, <3>2 DEF OrderInv
    <3>4. After(scenario, Moment) \subseteq R
      BY <3>2, <3>3 DEF InOrder
    <3> QED BY <3>1, <3>3, <3>4 DEF InStep
  <2> QED BY <2>2, <2>3
<1> QED BY <1>1, <1>2

\* A run starts in all of them.
LEMMA OrderInit == Init => OrderInv
<1> SUFFICES ASSUME Init PROVE Moment = Start(scenario)
  BY DEF OrderInv, InOrder
<1>1. /\ bases = <<>> /\ env = [v \in {} |-> <<>>] /\ log.alarms = {}
      /\ test = 1 /\ step = 1 /\ outcome = "running"
      /\ cores = [i \in DOMAIN scenario.fabric |->
                    NewCore(scenario.fabric[i].kind, scenario.fabric[i].name,
                            scenario.fabric[i].version)]
  BY DEF Init, HostInit
<1>2. ASSUME NEW k, NEW n, NEW v PROVE Settled(NewCore(k, n, v)) = NewCore(k, n, v)
  BY DEF NewCore, Settled
<1>3. SettledCores = cores
  BY <1>1, <1>2 DEF SettledCores
<1> QED BY <1>1, <1>3 DEF Moment, Start, SettledCores, At

\* Every step keeps a program that stopped at once where it is.
LEMMA EndStep ==
    ASSUME HostInv, EndInv, [Next]_vars
    PROVE  EndInv'
<1>1. CASE UNCHANGED vars
  BY <1>1 DEF vars, hostVars, EndInv
<1>2. CASE Next
  <2>1. /\ scenario' = scenario /\ outcome = "running"
        /\ log'.late # log.late => WaitTimesOut \/ (OpenFails /\ ~Probing /\ AtStep)
    BY <1>2, LateStays DEF Next
  <2>2. SUFFICES ASSUME scenario.program.reference # <<>>, StopsAtOnce(scenario), log'.late
                 PROVE  outcome' \notin {"running", "success"}
    BY <2>1 DEF EndInv
  <2>3. ~log.late
    BY <2>1, <2>2 DEF EndInv
  <2>4. StepFails
    BY <2>1, <2>2, <2>3 DEF WaitTimesOut, OpenFails
  <2>5. current \in ToSet(program.tests) /\ this \in ToSet(current.steps)
    BY <2>1, Places DEF HostInv, PlaceInv, ToSet, current, this
  <2>6. this.strict /\ current.onFail \in {"exit", "halt"}
    BY <2>2, <2>5 DEF StopsAtOnce, program
  <2> QED BY <2>4, <2>6 DEF StepFails, TestFails
<1> QED BY <1>1, <1>2

\* At first nothing has failed.
LEMMA EndInit == Init => EndInv
BY DEF Init, HostInit, EndInv

\* The cores' timing is not seen: whatever they do meanwhile and however the
\* bus is mapped, every step of the host is one of the program in order, or
\* none (tc_wait_ready and tc_wait_valid in the bodies of all tests).
THEOREM EveryRunIsInOrder == AllPatient => (Spec => RunsInOrder)
<1> SUFFICES ASSUME AllPatient PROVE Spec => RunsInOrder
  OBVIOUS
<1>1. HostInv /\ PatienceInv /\ [Next]_vars
        => [Moment' \in After(scenario, Moment) \cup {Moment} \/ Excused']_vars
  BY NextInStep DEF InStep
<1> QED BY <1>1, HostInvariant, PatienceInvariant, PTL DEF Spec, RunsInOrder

\* The invariant of runs in order.
LEMMA OrderInvariant == AllPatient => (Spec => []OrderInv)
<1> SUFFICES ASSUME AllPatient PROVE Spec => []OrderInv
  OBVIOUS
<1>1. HostInv /\ PatienceInv /\ OrderInv /\ [Next]_vars => OrderInv'
  BY OrderStep
<1> QED BY <1>1, OrderInit, HostInvariant, PatienceInvariant, PTL DEF Spec

\* The invariant of programs that stop at whatever fails.
LEMMA EndInvariant == Spec => []EndInv
<1>1. HostInv /\ EndInv /\ [Next]_vars => EndInv'
  BY EndStep
<1> QED BY <1>1, EndInit, HostInvariant, PTL DEF Spec

\* All programs are right when they are run in order.
RightInOrder(sc) == \E R : InOrder(sc, R) /\ \A m \in R : IsRight(sc, m)
AllRight == \A sc \in ToSet(Scenarios) : RightInOrder(sc)

\* A run that is not excused is at a right moment.
LEMMA MomentIsRight ==
    ASSUME AllRight, ScenarioInv, OrderInv, ~Excused
    PROVE  IsRight(scenario, Moment)
<1>1. RightInOrder(scenario)
  BY DEF AllRight, ScenarioInv
<1> QED BY <1>1 DEF RightInOrder, OrderInv

\* No test reports a wrong value for what another one or the timing of a core
\* left behind: a program that raises no alarm when it is run in order, every
\* operation over at once, raises none in any run in which no wait is given
\* up and no other core is accessed.
THEOREM NoAlarmIsFalse == AllPatient /\ AllRight => (Spec => []NoFalseAlarm)
<1> SUFFICES ASSUME AllPatient, AllRight PROVE Spec => []NoFalseAlarm
  OBVIOUS
<1>1. HostInv /\ OrderInv => NoFalseAlarm
  <2> SUFFICES ASSUME HostInv, OrderInv, ~Excused
               PROVE  /\ "value" \notin log.alarms
                      /\ "mode" \in log.alarms => LeavesModeOut(scenario)
    BY DEF NoFalseAlarm, Excused
  <2>1. IsRight(scenario, Moment)
    BY MomentIsRight DEF HostInv
  <2>2. Moment.alarms = log.alarms
    BY MomentPlace
  <2> QED BY <2>1, <2>2 DEF IsRight
<1> QED BY <1>1, HostInvariant, OrderInvariant, PTL

\* What hash.c prints is the digest of the padded file, whatever the core
\* finished when, and whatever failed: a program that stops at once prints
\* nothing after a failure.
THEOREM PrintedDigestIsRight ==
    AllPatient /\ AllRight /\ (\A sc \in ToSet(Scenarios) : StopsAtOnce(sc))
        => (Spec => []DigestIsRight)
<1> SUFFICES ASSUME AllPatient, AllRight, \A sc \in ToSet(Scenarios) : StopsAtOnce(sc)
             PROVE  Spec => []DigestIsRight
  OBVIOUS
<1>1. HostInv /\ OrderInv /\ EndInv => DigestIsRight
  <2> SUFFICES ASSUME HostInv, OrderInv, EndInv, DigestWritten, ShortFile
               PROVE  env["digest"] = DigestDue(scenario, bases)
    BY DEF DigestIsRight
  <2>1. ScenarioInv /\ RightCore
    BY DEF HostInv, LogInv
  <2>2. StopsAtOnce(scenario)
    BY <2>1 DEF ScenarioInv
  <2>3. outcome = "success" /\ program.reference # <<>> /\ program.size < 8192
    BY DEF DigestWritten, ShortFile
  <2>4. ~log.late
    BY <2>2, <2>3 DEF EndInv, program
  <2>5. ~log.stray
    BY <2>1, <2>2, <2>3 DEF RightCore, StopsAtOnce, program
  <2>6. IsRight(scenario, Moment)
    BY <2>1, <2>4, <2>5, MomentIsRight DEF Excused
  <2>7. Moment.env = env /\ Moment.place.outcome = outcome /\ Moment.bases = bases
    BY MomentPlace
  <2> QED BY <2>3, <2>6, <2>7 DEF IsRight, program
<1> QED BY <1>1, HostInvariant, OrderInvariant, EndInvariant, PTL
=============================================================================
