-------------------------------- MODULE Host --------------------------------
(***************************************************************************)
(* A test program runs against cores.  On the Novena board the program     *)
(* sets the EIM bus up when it first needs it (NovenaEim), probes for the  *)
(* cores, looks its own up by name (CoreLookup), and runs its scripts;     *)
(* on the STM32 it accesses the one core on the FMC bus directly.  The     *)
(* cores (CrypCore) finish their operations in their own time.             *)
(*                                                                         *)
(* A scenario fixes the program, the fabric it runs on, and the quiet flag.*)
(***************************************************************************)
EXTENDS NovenaEim, CoreLookup, HashTests, CipherTests, ModexpTests, CurveTests

CONSTANTS
    Scenarios, \* sequence of records [program, fabric, alone, quiet, hangs]:
               \* the program, the sequence of cores, whether the only core is
               \* alone on the bus, the -q flag, and whether cores stop for good
    Rounds     \* bound on the rounds of an endless loop

ASSUME RoundsAssumption == Rounds \in Nat \ {0}

\* Scripts: a program that looks cores up reaches them over EIM, stays inside
\* the registers of the core it found, and writes over no core's identity.
WellFormedStep(p, s) ==
    /\ s.at \in Nat
    /\ p.lookups # <<>> => s.at < CORE_SIZE
    /\ p.lookups # <<>> /\ s.do = "write" => s.at \notin {ADDR_NAME, ADDR_VERSION}

WellFormedTest(p, t) ==
    /\ t.core \in {0} \cup DOMAIN p.lookups
    /\ t.steps # <<>> /\ t.steps \in Seq(ToSet(t.steps))
    /\ \A k \in DOMAIN t.steps : WellFormedStep(p, t.steps[k])
    /\ t.onFail \in {"round", "exit", "stop", "halt"}

WellFormedProgram(p) ==
    /\ p.lookups \in Seq(Seq(STRING))
    /\ p.lookups # <<>> => p.bus = "eim"
    /\ p.onAbsent \in {"skip", "test", "abort", "fail"}
    /\ p.tests # <<>> /\ p.tests \in Seq(ToSet(p.tests))
    /\ \A k \in DOMAIN p.tests : WellFormedTest(p, p.tests[k])
    /\ p.loop \in 0 .. Len(p.tests)

\* A fabric of any size; a program that looks cores up shares the bus.
WellFormed(sc) ==
    /\ WellFormedProgram(sc.program)
    /\ sc.fabric \in Seq([kind : Kinds, name : Seq(STRING), version : Seq(STRING)])
    /\ {sc.alone, sc.quiet, sc.hangs} \subseteq BOOLEAN
    /\ sc.alone => sc.program.lookups = <<>>

ASSUME ScenariosAssumption == \A sc \in ToSet(Scenarios) : WellFormed(sc)

VARIABLES
    scenario, \* what is run: it never changes
    cores,    \* the cores' states
    found,    \* the list of cores, as far as it has been probed
    slot,     \* the slot to be probed next
    bases,    \* the bases of the cores looked up so far
    test, step, polls, round,  \* where the program is
    env,      \* the program's variables
    outcome,  \* "running", or how the program ended
    log       \* what happened so far, for the properties

hostVars == <<scenario, cores, found, slot, bases, test, step, polls, round, env,
              outcome, log>>
vars == <<eimVars, hostVars>>

program == scenario.program

\* The address space that is probed, and the mark for its end.
Slots   == 65536 \div CORE_SIZE
PROBED  == -1

HostInit ==
    /\ scenario \in ToSet(Scenarios)
    /\ cores = [i \in DOMAIN scenario.fabric |->
                    NewCore(scenario.fabric[i].kind, scenario.fabric[i].name,
                            scenario.fabric[i].version)]
    /\ found = <<>> /\ slot = 0 /\ bases = <<>>
    /\ test = 1 /\ step = 1 /\ polls = 0 /\ round = 1
    /\ env = [v \in {} |-> <<>>]
    /\ outcome = "running"
    /\ log = [late |-> FALSE, alarms |-> {}, owed |-> {}, unheard |-> FALSE,
              stale |-> FALSE, stray |-> FALSE]

Init == EimInit /\ HostInit

-----------------------------------------------------------------------------
(* The bus.                                                                *)

\* The core and the register behind a bus address.
CoreOf(address) ==
    IF scenario.alone THEN 1 ELSE BusSegment(address) * 32 + BusCore(address) + 1
RegisterOf(address) ==
    IF scenario.alone THEN BusCore(address) * CORE_SIZE + BusRegister(address)
                      ELSE BusRegister(address)

\* A call that accesses the bus at a register number.
Call(offset) ==
    IF program.bus = "eim" THEN Use(eim_offset(offset)) ELSE UNCHANGED eimVars

\* The core and the register that a call reached.
CalledCore(offset) == IF program.bus = "eim" THEN CoreOf(access'.reached) ELSE 1
CalledRegister(offset) ==
    IF program.bus = "eim" THEN RegisterOf(access'.reached) ELSE offset

-----------------------------------------------------------------------------
(* Probing and look-up.                                                    *)

Searching == outcome = "running" /\ Len(bases) < Len(program.lookups)
Probing   == Searching /\ slot # PROBED /\ (slot = 0 => found = <<>>)

\* Two reads of one slot: no name ends the list.
ProbeSlot ==
    /\ Probing
    /\ Call(slot * CORE_SIZE)
    /\ \E i \in {CalledCore(slot * CORE_SIZE)} :
       IF i \notin DOMAIN cores
       THEN /\ slot' = PROBED
            /\ UNCHANGED found
       ELSE /\ found' = Append(found, [name |-> Reg(cores[i], ADDR_NAME),
                                       version |-> Reg(cores[i], ADDR_VERSION),
                                       base |-> slot * CORE_SIZE])
            /\ slot' = IF slot + 1 < Slots THEN slot + 1 ELSE PROBED
    /\ UNCHANGED <<scenario, cores, bases, test, step, polls, round, env, outcome, log>>

\* The next look-up of the program, from the list as it is.  The list of one
\* probing serves all look-ups; an empty one makes the next look-up probe
\* again.
LookUp ==
    /\ Searching /\ ~Probing
    /\ LET name == program.lookups[Len(bases) + 1]
           base == IF program.scan THEN ScannedBase(found, name)
                                   ELSE tc_core_base(found, name)
       IN  /\ bases' = Append(bases, base)
           /\ outcome' = IF program.scan /\ ScanCrashes(found) THEN "crashed"
                         ELSE CASE base = 0 /\ program.onAbsent = "abort" -> "aborted"
                                [] base = 0 /\ program.onAbsent = "fail"  -> "failure"
                                [] OTHER -> "running"
    /\ slot' = 0
    /\ UNCHANGED <<eimVars, scenario, cores, found, test, step, polls, round, env, log>>

-----------------------------------------------------------------------------
(* Tests.                                                                  *)

Testing == outcome = "running" /\ ~Searching

current == program.tests[test]
this    == current.steps[step]

\* The base of the core the test is for.
base_addr == IF current.core = 0 THEN 0 ELSE bases[current.core]
address   == base_addr + this.at

Absent == current.core # 0 /\ base_addr = 0

\* Mutant of Skipped: absence is only noticed.
SkippedNever == FALSE

\* "not present": the test returns 0, unless the program is quiet.
Skipped == program.onAbsent = "skip" /\ Absent /\ ~scenario.quiet

AtStep == Testing /\ ~Skipped

\* What follows the last test: another round of an endless loop.
NextRound ==
    IF program.loop # 0 /\ round < Rounds
    THEN test' = program.loop /\ round' = round + 1 /\ UNCHANGED outcome
    ELSE outcome' = "success" /\ UNCHANGED <<test, round>>

\* Mutant of TestPasses: the program goes on after its last test.
TestPasses_past ==
    /\ step' = 1
    /\ IF test <= Len(program.tests)
       THEN test' = test + 1 /\ UNCHANGED <<round, outcome>>
       ELSE NextRound

TestPasses ==
    /\ step' = 1
    /\ IF test < Len(program.tests)
       THEN test' = test + 1 /\ UNCHANGED <<round, outcome>>
       ELSE NextRound

TestFails ==
    /\ step' = 1
    /\ CASE current.onFail = "round" -> NextRound
         [] current.onFail = "exit"  -> outcome' = "failure" /\ UNCHANGED <<test, round>>
         [] current.onFail = "stop"  -> outcome' = "success" /\ UNCHANGED <<test, round>>
         [] current.onFail = "halt"  -> outcome' = "halted" /\ UNCHANGED <<test, round>>

StepPasses ==
    /\ polls' = 0
    /\ IF step < Len(current.steps)
       THEN step' = step + 1 /\ UNCHANGED <<test, round, outcome>>
       ELSE TestPasses

StepFails ==
    IF this.strict THEN polls' = 0 /\ TestFails ELSE StepPasses

SkipTest ==
    /\ Testing /\ Skipped
    /\ TestPasses
    /\ UNCHANGED <<eimVars, scenario, cores, found, slot, bases, polls, env, log>>

\* What is logged of an access: it went to a core of another name; a result
\* was read from a core that still owes it.
Strayed(i) ==
    /\ current.core # 0
    /\ i \in DOMAIN cores =>
         ~IsPrefix(program.lookups[current.core], Reg(cores[i], ADDR_NAME))

Read(i, r) == IF i \in DOMAIN cores THEN ValueAt(cores[i], r) ELSE <<>>
ReadsCore(i, r) ==
    cores' = IF i \in DOMAIN cores THEN [cores EXCEPT ![i] = AfterRead(@, r)] ELSE cores
Logged(i) ==
    [log EXCEPT !.stray = @ \/ Strayed(i), !.stale = @ \/ i \in log.owed]

-----------------------------------------------------------------------------
(* Steps.                                                                  *)

written == IF this.var = "" THEN this.val ELSE env[this.var]

\* The bus is slow next to the expansion of an AES key: it is over when the
\* next command, four accesses later, arrives.
Outpaced(i) ==
    this.at = ADDR_CTRL /\ i \in DOMAIN cores => ~(cores[i].kind = "aes" /\ cores[i].op = "init")

IsCommand(i, r) == i \in DOMAIN cores /\ r = ADDR_CTRL /\ Bits(written) # {}

WriteStep ==
    /\ AtStep /\ this.do = "write"
    /\ Call(address)
    /\ \E i \in {CalledCore(address)}, r \in {CalledRegister(address)} :
           /\ Outpaced(i)
           /\ cores' = IF i \in DOMAIN cores
                       THEN [cores EXCEPT ![i] = Write(@, r, written)] ELSE cores
           /\ log' = [log EXCEPT
                !.stray   = @ \/ Strayed(i),
                !.unheard = @ \/ (IsCommand(i, r) /\ Begun(cores[i], written) = "none"),
                !.owed    = IF IsCommand(i, r) THEN @ \cup {i} ELSE @]
    /\ StepPasses
    /\ UNCHANGED <<scenario, found, slot, bases, env>>

ReadStep ==
    /\ AtStep /\ this.do = "read"
    /\ Call(address)
    /\ \E i \in {CalledCore(address)}, r \in {CalledRegister(address)} :
           /\ env' = Put(env, this.var, Read(i, r))
           /\ ReadsCore(i, r)
           /\ log' = Logged(i)
    /\ StepPasses
    /\ UNCHANGED <<scenario, found, slot, bases>>

\* A comparison of step s that fails, with v in place of what is expected: of
\* what a core says it is; of a digest, where a SHA-224 of the same blocks
\* was found; of any other value.
Alarms == {"identity", "mode", "value"}
AlarmOf(s, v) ==
    IF s.do = "expect" /\ s.at \in {ADDR_NAME, ADDR_VERSION} THEN "identity"
    ELSE IF v = <<"SHA-224">> \o s.val THEN "mode" ELSE "value"

Alarm(v) == [log EXCEPT !.alarms = @ \cup {AlarmOf(this, v)}]

ExpectStep ==
    /\ AtStep /\ this.do = "expect"
    /\ Call(address)
    /\ \E i \in {CalledCore(address)}, r \in {CalledRegister(address)} :
           /\ ReadsCore(i, r)
           /\ IF Read(i, r) = this.val
              THEN log' = Logged(i) /\ StepPasses
              ELSE log' = [Logged(i) EXCEPT !.alarms = Alarm(Read(i, r)).alarms] /\ StepFails
    /\ UNCHANGED <<scenario, found, slot, bases, env>>

CompareStep ==
    /\ AtStep /\ this.do = "compare"
    /\ IF env[this.var] = this.val THEN UNCHANGED log /\ StepPasses
                                   ELSE log' = Alarm(env[this.var]) /\ StepFails
    /\ UNCHANGED <<eimVars, scenario, cores, found, slot, bases, env>>

\* Mutant of OutOfPatience: the limit is not looked at.
OutOfPatienceNever == FALSE

\* tc_wait counts from 1 and gives up before it reads for the limit-th time.
OutOfPatience == this.limit > 0 /\ polls + 1 >= this.limit

\* One read of the status register in tc_wait.
WaitStep ==
    /\ AtStep /\ this.do = "wait" /\ ~OutOfPatience
    /\ Call(address)
    /\ \E i \in {CalledCore(address)}, r \in {CalledRegister(address)} :
           /\ log' = [log EXCEPT !.stray = @ \/ Strayed(i)]
           /\ IF i \in DOMAIN cores /\ this.bit \in StatusBits(cores[i], r)
              THEN StepPasses
              ELSE /\ polls' = IF polls < this.limit THEN polls + 1 ELSE polls
                   /\ UNCHANGED <<test, step, round, outcome>>
    /\ UNCHANGED <<scenario, cores, found, slot, bases, env>>

WaitTimesOut ==
    /\ AtStep /\ this.do = "wait" /\ OutOfPatience
    /\ log' = [log EXCEPT !.late = TRUE]
    /\ StepFails
    /\ UNCHANGED <<eimVars, scenario, cores, found, slot, bases, env>>

\* The program is about to access the bus.
Accessing ==
    \/ Probing
    \/ /\ AtStep
       /\ this.do # "compare"
       /\ ~(this.do = "wait" /\ OutOfPatience)

-----------------------------------------------------------------------------
(* The bus is set up first, and fails.                                     *)

SetUp ==
    /\ Accessing /\ program.bus = "eim" /\ stage # "done"
    /\ EimSetup
    /\ outcome' = IF exited' THEN "failure" ELSE outcome
    /\ UNCHANGED <<scenario, cores, found, slot, bases, test, step, polls, round, env, log>>

\* The memory device cannot be opened: the call returns an error, and so does
\* the probing.  The next call tries again.
OpenFails ==
    /\ Accessing /\ program.bus = "eim" /\ stage = "closed"
    /\ IF Probing
       THEN slot' = PROBED /\ UNCHANGED <<test, step, polls, round, outcome, log>>
       ELSE /\ log' = [log EXCEPT !.late = TRUE]
            /\ StepFails
            /\ UNCHANGED slot
    /\ UNCHANGED <<eimVars, scenario, cores, found, bases, env>>

\* The page cannot be mapped: the process exits.
MapFails ==
    /\ Accessing /\ program.bus = "eim"
    /\ UseFails(eim_offset(IF Probing THEN slot * CORE_SIZE ELSE address))
    /\ outcome' = "failure"
    /\ UNCHANGED <<scenario, cores, found, slot, bases, test, step, polls, round, env, log>>

-----------------------------------------------------------------------------
(* The cores.                                                              *)

\* The core finishes its operation.
CoreFinishes(i) ==
    /\ outcome = "running"
    /\ ~scenario.hangs /\ cores[i].op # "none"
    /\ cores' = [cores EXCEPT ![i] = Finished(@)]
    /\ log' = [log EXCEPT !.owed = @ \ {i}]
    /\ UNCHANGED <<eimVars, scenario, found, slot, bases, test, step, polls, round, env,
                   outcome>>

HostStep ==
    \/ SetUp \/ OpenFails \/ MapFails
    \/ ProbeSlot \/ LookUp
    \/ SkipTest
    \/ WriteStep \/ ReadStep \/ ExpectStep \/ CompareStep
    \/ WaitStep \/ WaitTimesOut

Next == HostStep \/ \E i \in DOMAIN cores : CoreFinishes(i)

\* The system does not stop while something can change: the program goes on
\* or, when all it does is to poll, a core that does not hang comes to an end.
Spec == Init /\ [][Next]_vars /\ WF_vars(Next)

-----------------------------------------------------------------------------
(* Properties.  log.late says that a wait was given up or the memory device*)
(* could not be opened, log.stray that a register of another core than the *)
(* one meant was accessed.                                                 *)

Outcomes == {"running", "success", "failure", "aborted", "halted", "crashed"}

HostTypeOK ==
    /\ scenario \in ToSet(Scenarios)
    /\ slot \in {PROBED} \cup 0 .. Slots - 1
    /\ \A k \in DOMAIN bases : bases[k] \in 0 .. Slots * CORE_SIZE - 1
    /\ outcome \in Outcomes
    /\ outcome = "running" =>
         /\ test \in DOMAIN program.tests
         /\ step \in DOMAIN program.tests[test].steps
    /\ round \in 1 .. Rounds
    /\ log.alarms \subseteq Alarms
    /\ log.owed \subseteq DOMAIN cores

\* A test is for the core it was looked up for, or for the first one.
Meant(sc, t, i) ==
    /\ i \in DOMAIN sc.fabric
    /\ IF t.core = 0 THEN i = 1
       ELSE IsPrefix(sc.program.lookups[t.core], sc.fabric[i].name)

\* A test begins a digest on the SHA-256 core of src/core without the mode
\* bit, and expects a SHA-256.
LeavesModeOut(sc) ==
    \E t \in ToSet(sc.program.tests), i \in DOMAIN sc.fabric :
        /\ Meant(sc, t, i) /\ sc.fabric[i].kind = "sha256"
        /\ \E s \in ToSet(t.steps) :
              /\ s.do = "write" /\ s.at = ADDR_CTRL
              /\ "init" \in Bits(s.val) /\ "mode" \notin ToSet(s.val)
        /\ \E s \in ToSet(t.steps) :
              s.do = "expect" /\ s.at = ADDR_DIGEST /\ "SHA-224" \notin ToSet(s.val)

\* A test that reports a wrong result - a digest, a signature, a point, a
\* block - does so because a wait was given up or an access failed, or
\* because it was run against another core; never because operands of an
\* earlier test were left in a memory or a register, or a command was lost
\* (the bodies of TC2 to TC10, testrunner, single_block_test, test_sha3,
\* test_modexpa7 and the multiplier routines).
\* A test that finds the SHA-224 of its blocks has the SHA-256 core of
\* src/core before it, and a script for the older one, without the mode bit:
\* "old code that for example simply wrote 0x01 to initiate SHA256 processing
\* will now initiate SHA224 processing" (src/core/hash/sha256/README.md).
NoFalseAlarm ==
    /\ "value" \in log.alarms => log.late \/ log.stray
    /\ "mode" \in log.alarms => log.late \/ log.stray \/ LeavesModeOut(scenario)

\* Every command the software writes begins an operation of the core: it is
\* written when the last one is over, and with the edge the core waits for
\* (tc_init and tc_next in tc_eim.c, the toggles of the STM32 drivers).
CommandHeard == log.unheard => log.late \/ log.stray

\* No result is read from a core that is still working on it: "we should
\* query valid status before reading digest, but transmit() waits for ready"
\* (hash.c:239).
NoStaleRead == log.stale => log.late \/ log.stray

\* Software that looked a core up accesses no other core in its place, the
\* board's registers at base 0 first of all, unless it was told to be quiet
\* or does not check (trng_extractor.c).
RightCore == log.stray => scenario.quiet \/ program.onAbsent = "test"

\* The length of the file in bits fits what pad_transmit stores of it.
ShortFile == program.size < 8192

DigestWritten == outcome = "success" /\ program.reference # <<>>

\* At a base is the SHA-256 core of src/core.
Sha256At(sc, base) ==
    \E i \in DOMAIN sc.fabric : base = (i - 1) * CORE_SIZE /\ sc.fabric[i].kind = "sha256"

\* The digest of the padded file that hash.c gets from the core at the base it
\* looked up.  It sets no mode bit for sha-256 (hash.c:76), so the SHA-256
\* core of src/core gives it the SHA-224 of the same blocks.
DigestDue(sc, b) ==
    (IF Sha256At(sc, b[1]) THEN <<"SHA-224">> ELSE <<>>) \o sc.program.reference

\* What hash.c prints is the digest of the padded file that is due, for files
\* below 8192 bytes, whatever the core finished when.
DigestIsRight ==
    DigestWritten /\ ShortFile => env["digest"] = DigestDue(scenario, bases)

\* The same for files of any length, as far as 64 bits can count: "properly
\* the length is 128 bits for sha-512, but we can't actually count above 64
\* bits" (hash.c:174).
DigestOfAnyFile == DigestWritten => env["digest"] = program.reference

\* The program waits, without a limit, for a core that has stopped or that
\* is another than the one meant; or for the status of a source of random
\* words, where the header has it and the cores do not (cryptech.h:202).
Abandoned ==
    /\ AtStep
    /\ this.do = "wait" /\ this.limit = 0
    /\ scenario.hangs \/ log.stray \/ this.at = RNG_ADDR_STATUS

\* Every program ends, with every core that may hang and every call that may
\* fail, except in the waits that have no limit.
EveryRunEnds == <>(outcome # "running" \/ Abandoned)
=============================================================================
