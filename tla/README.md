# Formal models of Cryptech: the cores and the software that drives them

TLA+ models of the hardware in `src/core` and of the C programs beside it, the
TLC runs that check them and the theorems about them that TLAPS proves.
Everything is translated from the Verilog and C sources; `PROJECT.json` maps
each definition to its lines.

## 1. The system

Cryptech is the FPGA part of a hardware security module: a collection of cores
that share a register bus (`cs`, `we`, `address`, `write_data`, `read_data`),
reached from a host processor over one of several links.

| Component | Source (under `src/core`) | State it keeps | Operations | Hard parts |
|---|---|---|---|---|
| TRNG output FIFO | `rng/trng/.../trng_csprng_fifo.v` | 4 blocks of 512 bits, two pointers, counter, word selector, two FSMs | request, store, offer, take, discard | store and release in one cycle; discards that only one FSM obeys |
| TRNG generator | `rng/trng/.../trng_csprng.v` | control FSM, seed registers, block budget, control registers | seed, init, next, cancel; register access | stale `more_data`, late cipher results, lost strobes, torn budgets |
| TRNG mixer | `rng/trng/.../trng_mixer.v` | collector FSM, 32-word block, timeout counter, mixer FSM | collect, hash, offer, restart | discards the collector does not see, dead sources, a seed left on offer |
| TRNG top | `rng/trng/.../trng.v` | discard strobe, debug selector | composition | everything above at once |
| ChaCha, AES, AES (speed) | `cipher/*` | round counters, state, key memory | init, next | strobes while busy, shared S-boxes, round keys in the right order |
| SHA-1, SHA-256, SHA-3, SHA-512 | `hash/*` | round counters, window of message words, digest | init, next | strobes while busy, window indices |
| Entropy sources | `rng/avalanche_entropy`, `rng/rosc_entropy`, `rng/vndecorrelator` | sample shift register, word counters | collect, offer, acknowledge | a word offered twice, disable while a word is pending |
| coretest | `comm/coretest` | receive and transmit buffers, three FSMs | parse a command, access a core, respond | counter updates that collide, four-phase handshakes |
| UART, I2C | `comm/uart`, `comm/i2c` | bit engines | receive, transmit | waits without timeout, stop condition mid-transfer |
| EIM, FMC | `comm/eim`, `comm/fmc` | bus FSM, pulse synchronisers | read, write across two clocks | transaction abandoned by the bus master, late acknowledge |
| modexp, modexpa7, modexps6 | `math/*` | operand memories, nested FSMs | load, exponentiate | word and bit indices, memory port timing |
| Curve libraries, ECDSA, ECDH, Ed25519 | `math/*lib`, `pkey/*` | microprogram memory, operand memories | point multiplication | microcode order |
| Master key memory | `util/mkmif` | command FSM, SPI shifter | init, read, write | bit counters, busy/ready protocol |
| EIM access layer | `platform/novena/sw/novena-eim.c`, `tc_eim.c` | memory device, the one mapped page, set-up done or not | set up, translate, remap, read, write, wait | page boundary, set-up in three other pages, failures at every call |
| Core discovery | `platform/novena/sw/capability.c` | list of cores | probe, find, first, next, base | `tc_core_next` leaves out a neighbour, base 0 is also the board |
| Test programs | `platform/novena/sw/*_tester.c`, `trng_extractor.c`, `hash.c` | bases of the cores, buffers, `quiet`, `repeat` | scripts of register accesses and comparisons | what an earlier test left in a core, commands not heard, waits without limit, padding |
| Drivers for the STM32 | `stm32*/*_driver_sample.c` of sha3, modexpa7, ecdsa, ecdhp | state of the endless loop | prepare, sign, multiply, absorb | edge-sensitive commands, leftovers of the last round |
| C model of modexp | `math/modexp/src/model/c/src` | arrays of words | residue, Montgomery product, exponentiation | lost carries, loops that do not shrink, length of the exponent |
| Platforms | `platform/*`, `src/sw` | address decoding | wiring | vendored code and pin wiring are left aside |

Interactions. A core is reached by single register accesses; the data flow
that has a life of its own is inside the TRNG:

    entropy sources --syn/ack--> mixer --seed_syn/seed_ack/more_seed--> generator
        generator --init/next/ready/valid--> ChaCha
        generator --valid/discard/more_data--> FIFO --rnd_syn/rnd_ack--> readers

    host --rx_syn/rx_ack--> coretest --cs/we/address--> core
    host <--tx_syn/tx_ack-- coretest <--read_data/error-- core

    test program --tc_write/tc_read/tc_wait--> tc_eim --address--> novena-eim
        novena-eim --mapped page--> EIM bus --> core, which works in its own time
    driver on the STM32 --fmc_read_32/fmc_write_32--> core

All of this runs on one clock with registered outputs, so each handshake sees
the other side's state of the cycle before. There are two kinds of reader: the
register interface, whose read of the data register acknowledges the word, and
the debug port. Software may reconfigure, disable, reseed and discard in any
cycle. What makes the TRNG correct: words in sequence and never repeated, every
keystream block from the seed in force, every seed from a full block of entropy
that is used once, the budget of a seed respected, and words that keep coming.
What makes coretest correct: every command carried out once and in order, the
response of each telling what happened, no byte lost between link and parser.
What makes the software correct: each access reaches the register it is meant
for, on a bus that has been set up; each command is heard and its result read
when it is there; a test fails only if the core did; the program ends; and the
model of the exponentiation computes powers.

## 2. How the RTL is modelled

One TLA+ step of a component is one rising edge of `clk`. Each `always @*`
FSM becomes a group of actions, one per branch, that set the registers this FSM
drives; `XClock` operators conjoin the FSMs of one component, because the hardware
clocks them together, and a composition conjoins the `XClock`s of its parts,
passing signals as parameters. Combinational signals are operators. Registers
keep their source names. Asynchronous reset is `Init`; a reset in mid-flight
starts a new behaviour from it and is not an action.

| Module | Models | Notes |
|---|---|---|
| `WordQueue` | abstract promise of the FIFO | queue of blocks, one word offered at a time |
| `TrngCsprngFifo` | `trng_csprng_fifo.v` | `RdCtrl` and `WrCtrl` are the two FSMs, `FifoCtr` the counter with the source's order of assignment |
| `ChachaCore` | `chacha_core.v` | the control FSM; the data are abstracted to a block number and to whether key and counter were loaded from what the ports hold now |
| `TrngCsprng` | `trng_csprng.v` | EXTENDS the two above, adds the control FSM, the budget and the registers |
| `TrngMixer` | `trng_mixer.v`, control of `sha512_core.v` | collector and mixer FSMs, timeout; a digest is `none`, `fresh`, `stale` or `used` |
| `Trng` | `trng.v` | joins generator and mixer |
| `RemoteMemory` | abstract promise of coretest | commands issued, executed one at a time, answered |
| `Coretest` | `coretest.v` | `RxEngine`, `TxEngine`, `TestEngine` are the three FSMs, `RxBufferPointers` the receive pointers and counter; bytes are strings |
| `CoretestSystem` | the host of `tb_coretest.v`, a memory-like core | joins host, coretest and core; bounds `Window` and `MaxCommands` |
| `NovenaEim` | `novena-eim.c`, set-up and translation of `tc_eim.c` | one page mapped at a time; `access` is the address asked for and the one reached |
| `CoreLookup` | `capability.c`, the scan of `hash.c` | the list of cores as a sequence; a name is a sequence of parts |
| `CrypCore` | the register interfaces of sha1/256/512 (SHA-256 with and without the mode bit), sha3, aes, modexp, modexps6, modexpa7 and the curve cores | one record per core; `kind` selects how commands are taken |
| `HostSteps` | `tc_eim.c` and its FMC counterpart | a call is a step, a test a sequence of steps, a program a sequence of tests |
| `HashTests`, `CipherTests`, `ModexpTests`, `CurveTests` | `hash.c`, the testers and drivers, `tb_sha256.v` | the scripts, test by test under the names of the source |
| `Host` | what `main`, `init` and the macros do around the scripts | joins the four above: probing, look-up, skipping, failing, repeating |
| `Patience` | what can be read off a script without running it | `Patient(sc)`: no command, write or read of a core before a wait has shown that its operation is over; commands that need an edge have one |
| `Orderly` | abstract promise of `Host` | the program alone, every operation over as soon as it begins: `Start`, `After` on moments; `RunsInOrder` relates the two |
| `BigNum` | `bignum_uint32_t.c`, `findN` | functions on sequences of words |
| `MontProd` | `mont_prod_array` | one bit of the multiplier per step, arrays as numbers modulo `Base` (`Add`, `Halve`) |
| `ModExp` | `mont_exp_array`, `mont_exp_array2`, `m_residue_2_2N_array`, `modulus_array` | EXTENDS `MontProd` and `BigNum`, one step per turn of each loop |
| `MC*` | constants, scenarios, and the reader of `MCTrngCsprngReader` | |
| `TrngCsprngFifoProofs`, `TrngCsprngProofs`, `TrngProofs`, `CoretestProofs`, `CoretestMemoryProofs`, `HostProofs`, `BigNumProofs`, `ModExpProofs` | theorems | each about the module of its name; `CoretestMemoryProofs` about `CoretestSystem` |

Abstractions. A block is a model value or a number, a word is the pair of its
block and its index. Four round states of ChaCha and two of SHA-512 are one
state of any length. History variables (`discarded`, `exact`, `dropped`,
`block_stale`, `hash_stale`, `state_current`, `ctr_current`, the `used` digest,
and `executed` and `unread` of coretest)
observe and never guard an action of the hardware. Left out: statistics counters, the mixer's
restart bit and the test mode bit (registers that no logic reads), test seed
addresses (no register behind them), the divider that paces the debug strobe
(an input that may be high in any cycle instead).

History in the FIFO: `exact` turns false when a store meets a release, or when
a discard finds the write FSM outside `WR_IDLE`; a discard that both FSMs obey
makes it true again.

### The software and its cores

Most of the C code is straight-line register traffic, so it is modelled as
data: a program is a record that holds its tests, a test a sequence of steps
(`tc_write`, `tc_read`, `tc_expected`, `tc_wait`, a comparison). `Host` is the
one interpreter of these records. Its actions are what the C code does at each
call: `WriteStep`, `ReadStep`, `ExpectStep`, `WaitStep`, `WaitTimesOut`,
`CompareStep`, `SkipTest`; before them `ProbeSlot` and `LookUp`; below them
`SetUp`, `OpenFails`, `MapFails` of the access layer; beside them
`CoreFinishes(i)`, by which a core ends its operation at any moment. A step
keeps what the C code does with a failure: a call whose return value is
ignored (`Ignored`), a test that returns 1, a program that exits, a driver
that blinks for ever (`"halt"`), a loop that leaves the rest of a round out.

An operand is a sequence of two or so symbolic words, which is enough to tell a
word order (`two_card_monty`, the least significant word first or last) and a
partial overwrite from the right contents. The result of an operation is the
sequence of the operands it was computed from, so a digest, signature, point or
block that was computed from a leftover differs from the expected one. Long
operands (`LONG_OPERAND`) are longer than short ones, so that a pointer that
was not reset shows. The test vectors themselves are not in the model.

Cores differ as their RTL does. `sha`, `aes` and `modexp` start for every
command that is written (a pulse); `modexps6`, `modexpa7`, SHA-3 and the curve
cores look for a rising edge; `modexps6` lowers a flag only when the bit it answers
is cleared; `modexpa7` keeps `ready` during a signature and `valid` during a
preparation; a hash core ignores writes while it works, and hides its digest
then, but for the SHA-256 core of `src/core`, which goes on showing the last one; the
data ports of `modexp` advance a pointer; SHA-3 keeps the part of the block
memory that was not written, and the curve cores a point at infinity as zeros.
Cores whose commands no program uses, the TRNG's among them, are `plain`.

There are two SHA-256 cores. The C programs were written for one with version "0.81"
(`cryptech.h:176`), whose commands are `init` and `next` alone, like those of the
SHA-1 core (kind `sha`); it is not in the repository any more. The core in `src/core` is
version "1.82" (kind `sha256`): bit 2 of every write to its command register is the
mode, and without it a digest begins as a SHA-224 (`sha256.v:273-279`,
`sha256_core.v:333-357`). `InitialValue` carries the mode into the digest, which is then
the sequence of blocks with `"SHA-224"` before it; the scripts of `tb_sha256.v`, which sets the bit,
compute both. The fabrics of `MCHost` hold the older core where the versions of
`cryptech.h` are asked for, and the one of `src/core` in `Today`.

A scenario is a program, the cores on the bus in their slots, the quiet flag,
and whether the cores stop working for good after a command.

In `ModExp` an array is the number it stands for, reduced modulo `Base` where the C
code drops a carry; `WordArithmetic` checks in every state that the word
functions of `BigNum` do the same. `qsum` is a history variable.

## 3. Runs

| Run | Asks | Bounds | Result |
|---|---|---|---|
| `trng_fifo` | is the FIFO a word queue while its counter is exact; can the counter wrap | 4 blocks of 3 words, 2 block values; about 42 thousand states | holds |
| `trng_csprng` | generator, cipher and FIFO together, under reads, disabling, reseeding, changes of the budget and discards | 2 blocks of 2 words, hard limit 3, halves of 0 and 1; about 66 thousand states | holds |
| `trng_reader` | does a polite reader get the words in sequence | as above, no cancellation, 16 block numbers | violated: finding 1 |
| `trng` | mixer and generator, two sources that may be slow or dead, disabling, reseeding, discards | FIFO of 1 block of 1 word, 2 words per entropy block, timeout 1; about 25 thousand states | holds |
| `trng_discard` | two different seed blocks per seed, with a discard at any time | as above | violated: finding 2 |
| `coretest` | is coretest a remote memory for a host that sends known commands and waits for each response | 3 of 6 commands, receive buffer of 3 bytes; about 26 thousand states | holds |
| `coretest_pipelined` | what survives a host that does not wait and sends unknown commands too | 2 of 4 commands, 2 outstanding, buffer of 3 bytes; about 34 thousand states | holds |
| `coretest_unknown` | does the element counter count the elements, if the host waits but sends an unknown command | 2 commands, buffer of 15 bytes as in the source | violated: finding 3 |
| `host` | do all programs do what they are for, whatever the cores and the memory device do | 59 scenarios; pages of 4096 bytes, 3 polls for a wait of 100000000, 2 rounds of an endless loop, 3 blocks of the huge message, 2 words per random sample; about 7.6 thousand states | holds |
| `host_tc7` | is every command of TC7 of `modexps6_tester.c` heard | one scenario; about 300 states | violated: finding 4 |
| `host_longfile` | is the digest of a long file right | a file of 8192 bytes; about 3 thousand states | violated: finding 5 |
| `modexp` | does the C model compute powers, do its loops end | two words of 3 bits, every odd modulus up to 10 and message, ten exponents, both loops; about 57 thousand states | holds |

What the properties say, beyond the comments in the modules:

* `StreamsInOrder` is the refinement of `WordQueue` by the FIFO for every step
  that leaves `exact` true, and says nothing of the others: those from a store that meets
  a release (finding 1) or a discard that only the read FSM obeys, until the next discard
  that both obey. It relates blocks, pointers, the word selector, the
  counter and the offered word; the mutant that forgets to reset the read
  pointer breaks it.
* `CounterNeverWraps` relates the counter to the FSM states that rely on it.
* `KeystreamOfThisSeed`: a block enters the FIFO only if the cipher run that made it
  began with the key in force, and key and input block came from the mixer, although
  a cancellation does not stop the cipher and `CTRL_NEXT1` only looks at
  `ready` and `data_out_valid`. It says nothing of the block counter:
  `CounterOfThisSeed`, stated with the mixer in `Trng`, does.
* `HardBlockLimit`: an equality test on a budget that software rewrites in two
  halves still bounds the blocks per seed by the hard limit.
* `OneBlockLostAtMost`: the generator may compute a block that the full FIFO
  ignores, never two in a row.
* `FifoSpec` as a property of the generator discharges the assumption
  `GeneratorProtocol` under which the FIFO is checked alone and proved.
* `SeedsAreFresh`, `RequestIsHeard`, `CollectorWorksForMixer`: the seed handshake
  and the collector, which is not told of a discard, stay in step.
* `WordsKeepComing`, `RandomKeepsComing`: liveness, also with one dead source.
* `IsRemoteMemory` is the refinement of `RemoteMemory`: each command takes effect
  at the edge at which the core sees it, exactly once, and what the host decodes
  from the bytes on the link is the answer to it. Data bytes include SOC and EOC.
* `NeverOverrun`, `BusStable`, `ResponseFrozen`, `BytesAreTaken` need nothing of
  the host but the handshake: the counter errs on the safe side, commands that
  wait in the buffer do not move the bus of a running access, the next command
  does not touch a response on its way, and the link is never stuck.
* `CommandsAreAnswered` is the same question for whole commands; it needs the
  host of run `coretest`.
* `NoFalseAlarm`, `CommandHeard`, `NoStaleRead` are about sequences of tests: what
  one test leaves in levels, pointers, memories and flags against what the next
  one assumes. They are excused only by an access that failed, a wait that
  was given up (`log.late`) or a core that is not the one meant (`log.stray`);
  `RightCore` bounds the second excuse: only `-q` and `trng_extractor`, which
  does not check, get there. Alarms are of three kinds: a name or version that differs
  (`identity`), the SHA-224 of the very blocks whose SHA-256 was expected (`mode`), any
  other wrong result (`value`). A `mode` alarm needs a script that leaves the mode bit out and
  the SHA-256 core of `src/core` before it (`LeavesModeOut`); the tests of `tb_sha256.v` raise none.
* `AccessReachesItsAddress` compares what each remapping history makes of an
  address with the address; fabrics of five and more cores lie on two pages.
* `FpgaUsedWhenConfigured`: whatever failed and was tried again, the three peripherals
  were configured before the first access to the FPGA.
* `ProgramIsRight` is what the theorems about scripts assume, evaluated as each run
  begins: the script is `Patient`, the moments it reaches in order are closed under
  `After`, none of them has a wrong comparison, those at the end of `hash.c` have the
  digest that is due, and `hash.c` stops at whatever fails. It also states the converse for
  the mode bit (`ToldApart`): on the core of `src/core` no SHA-256 test of `hash_tester.c`
  ends well without a `mode` alarm. There is no timing in it, so it
  looks at a few moments per scenario and speaks about all the interleavings.
* `DigestIsRight` compares the blocks that `hash.c` sends, with the mode and the
  `init` and `next` of each, with the padding of the standard, at file lengths
  around every boundary of it, for short and long blocks. On the SHA-256 core of
  `src/core` the digest due (`DigestDue`) is the SHA-224 of the same blocks, because `hash.c` sets
  no mode bit.
* `EveryRunEnds`: with cores that hang and calls that fail, a program only stays in a
  wait that has no limit; the property names those.
* `LoopInvariant`, `PartialProduct`, `ResultIsPower`: at the head of each loop,
  after each bit, and at the end. The result may be the modulus itself where 0 is
  meant. `NothingOverflows` adds that results, which are only reduced below twice
  the modulus, are still small enough to be multiplied again.
* `Terminates`: both loops of `modulus_array` end.

Why the bounds are enough. The FIFO's control depends on its counter only
through empty, full and the wrap, and on the word selector only through first, middle
and last word: 4 (the size in the source) and 3 contain every case. In the
composed runs the FIFO has 2 blocks (1 in `trng`), enough for a store to meet a
release and for a full FIFO. A hard limit of 3 with halves below 2 puts the
soft limit below, at and never reaching the hard one. Two words per entropy
block let a discard fall before, between and after the words; a timeout of 1
lets the counter be reached and missed. A receive buffer of 3 bytes (capacity
`BUFFER_MAX`) is shorter than every command but one, so it fills and wraps several
times; three commands let one be read back after a write and a reset in between.
The delays of the host are not bounded.

In `host` a wait gives up after two polls that find the core busy (a wait with a
limit of its own, the 10 of `hash.c`, keeps it), so a core can be early,
late and too late for each wait. The second round of an endless loop meets
what the first one left. Two words tell an order, three blocks a first, a
middle and a last one. The scenarios run every program on a complete fabric,
those that look their cores up on fabrics without them, with them adjacent or last in the list, with the
cores and versions of `src/core` today, quiet and repeated, and with hanging cores. In `modexp` a modulus of
up to a sixth of `Base` leaves the room the proof needs and a little more; the
exponents have leading zeros, single bits, all bits, and a bit in either word.

Conditions on the environment, by name:

* `GeneratorProtocol` (FIFO alone): the cipher's strobe and a discard exclude each other
  and a discard lasts one cycle. Checked of the generator by `FifoSpec`.
* `Delivers` (`Trng`): the last word of an entropy block does not arrive while
  the cipher or the hash core is still busy. A block takes 32 words of 32
  sampled bits, more than a thousand cycles; cipher and hash need less than 200.
* `HarmlessDiscard` (`Trng`, run `trng` only): a discard does not take effect in
  `CTRL_ACK`, nor in `CTRL_COLLECT` while words are being collected. In
  `CTRL_ACK` it is finding 2. In `CTRL_COLLECT` the collector goes on, and what it
  collected before the discard ends up in the next seed; no document says it may not,
  so this is stated as a condition and not as a finding. Both are allowed in
  `trng_discard`.
* The hosts of the coretest runs (`HostSends`, `HostReceives`): four-phase
  handshakes with any delay, the next command only when fewer than `Window` are
  unanswered. A response counts as received when its last byte was
  acknowledged and released. The core answers in the cycle in which it is selected; it
  sees `cs` for two cycles per access, so the second write repeats the first.

* The software runs alone: no second process accesses the bus (the C code has no
  lock). Accesses are slow next to the few cycles in which a core takes a
  command (`CrypCore`) and in which AES expands its key, four accesses
  long (`Outpaced`, `Host`): `aes_tester.c` starts the block without waiting for the key.
* The registers that `eim_setup` writes for one peripheral lie on one page, as
  they do with pages of 4096 bytes.
* `Solvable` (`ModExp`): an odd modulus, a message below it, and room for the sum of
  six moduli in the array, which callers provide by a spare word at the front.
  Without it carries are lost, and with the first bit of the modulus set
  `modulus_array` does not end.

Fairness. The clock ticks (weak fairness of a cycle without register access;
a bus access takes several cycles, so such cycles never cease). ChaCha leaves
its round states and SHA-512 its own, because their counters count up; for
ChaCha this needs `num_rounds` of at least 2 (`ChachaLastRound`). A source
that lives answers if it is asked again and again (strong fairness); the other source
gets no fairness at all. `WordsKeepComing` speaks of behaviours in which
cancellations cease, since software can cancel for ever. The host of coretest
finishes a handshake and a command it has begun, and need not begin one.

In `host` and `modexp` the fairness is `WF_vars(Next)`: a program that can go on
does, and while it polls, a core that does not hang comes to an end. Nothing
is assumed of calls that may fail, nor of a core that hangs.

Deadlock is checked in every run of the hardware: the clock has a successor in every
state. The runs of the software do not check it, because programs end.

## 4. Findings

1. **A store that meets a release is not counted** (`trng_reader`,
   `trng_csprng_fifo.v:328`). `fifo_ctr` serves its requests by consecutive
   assignments, so the decrement hides the increment. The counter is one short
   until the next discard, the write FSM fills a FIFO that is already full and
   overwrites the block being read. `README.md:119-121` of the TRNG promises
   words "in sequence"; the comment at `trng_csprng_fifo.v:293-294` says the
   counter tracks the number of elements.
2. **A discard can leave a seed on offer** (`trng_discard`,
   `trng_mixer.v:1027`). A discard in `CTRL_ACK` returns to `CTRL_IDLE`
   without lowering `seed_syn_reg`; the generator then takes the same digest
   for both seed blocks, where `README.md:103-104` asks for two.
3. **A byte that is stored while another is taken is miscounted**
   (`coretest_unknown`, `coretest.v:626`). The increment of the receive counter
   hides the decrement, so the counter shows a byte that is not there. A host
   that waits for each response can cause it: coretest refuses an unknown command
   at its second byte and finds the EOC later, in the cycle in which the next SOC
   is counted. The comment at `coretest.v:614-617` calls it the "rx buffer element
   counter". The testbench does not even wait for responses (`tb_coretest.v:473-481`), so
   bytes arrive there while others are taken as a matter of course.
4. **TC7 signs one message, not four** (`host_tc7`,
   `modexps6_tester.c:438`). The next bit is written for each message and
   never cleared; `modexps6` starts on a rising edge while `valid` is low
   (`modexps6_top.v:360-362`, `:679`), so the second command is lost and `valid`
   still answers for the first. The comment at `modexps6_tester.c:390` says
   "Signing of multiple 1024-bit messages with same key".
5. **The length of a long file is cut** (`host_longfile`, `hash.c:177`). Both
   halves of the length in bits are masked with `0xffff`. From 8192 bytes on the
   digest is wrong, where the comment above says that only what exceeds 64 bits
   is not counted.

One more disagreement is part of run `host`, which states it positively and has no
counterexample of its own: **the SHA-256 software and the SHA-256 core of `src/core` do not fit**.
`tc_init` and `tc_next` (`tc_eim.c:164-178`) write 0x01 and 0x02, without the mode bit that
`sha256.v:275` takes from the same write, so TC5 to TC7 of `hash_tester.c`
("SHA-256 Single block message test as specified by NIST", `hash_tester.c:393`) report errors of a
correct core, and `hash` run for `sha-256` (`hash.c:76`) prints a SHA-224.
`src/core/hash/sha256/README.md:98-108` describes it for old code: writing 0x01
"will now initiate SHA224 processing". `ToldApart`, `NoFalseAlarm` and `DigestDue` say exactly what comes of it;
without the mode bit in `InitialValue`, `ProgramIsRight` and `NoFalseAlarm` are violated.

In the software, worth knowing and contradicting no document: `cryptech.h:202`,
`:212` and `:236` put the status of the entropy sources and the generator at 0x11,
the cores have it at 0x09, so TC3, TC5 and TC7 of `trng_tester.c` and
`trng_extractor.c` wait for ever (`EveryRunEnds` names this wait); reading a
word of the avalanche core over the bus acknowledges nothing, unlike the
other sources; `tc_core_next` leaves out the neighbour of the core it starts from,
so `hash.c` misses a core next to another one and crashes when a `sha` core is
last in the list; "modexp" is a prefix of the names of the other
exponentiators; with `-q` the tests of an absent core run against the board's registers;
with `-r` a failure ends the program successfully; a short read from a
pipe is taken for the last block of a file; the version strings of `cryptech.h` are older than the
cores, so the tests of names and versions fail on them; the C model may return the modulus in place of 0.

Behaviour worth knowing of the hardware that contradicts no document: `num_rounds` 0 or 1 hangs
the cipher; disabling the mixer while it collects leaves it waiting until a
discard; a word that arrives does not restart the timeout; the word selector
survives a discard.

## 5. Proofs

Every theorem below is about the specification that the runs check, for every value of
its constants. The invariant in brackets is the inductive one.

### The TRNG

* `TrngCsprngFifoProofs`. `FifoTypeCorrect` and `CounterCorrect`, for every `FIFO_MAX`
  and `WORDS` greater than 0 (`FifoInv`). The two properties are not inductive: the
  write FSM clears the counter, and a word on offer in that moment would be left without
  its block. `DiscardTogether` excludes it: both FSMs enter their discard states at the
  same edge, because a discard lasts one cycle. `FifoIsWordQueue` is the refinement
  `StreamsInOrder`, step by step: what the read FSM does is `Wait`, `Offer` or `Take` of
  `WordQueue`, a store in the same cycle is its arrival, a discard `Discard`. It needs
  `OrderInv`: while `exact`, the write pointer is the read pointer plus the counter,
  modulo the size, and the word on offer is the one the pointer and the word selector
  name. The theorem has the condition of
  its property: it claims nothing of steps after a store that met a release (finding 1) or
  a discard only the read FSM obeyed, until the next discard that both FSMs obey.
* `TrngCsprngProofs`. `BudgetKept`, for every limit (`BudgetInv`: a block is under way
  only below the limit, and the counter is 0 in `CTRL_INIT1`), nothing assumed of the
  cipher, the FIFO, the seeds or the software. `CsprngTypeCorrect`, `KeystreamCorrect`
  and `LossBounded` from `GenInv`, whose parts are the FIFO's invariant, the types,
  where the cipher may be in each state of the control FSM (`ProtocolInv`, `CipherInv`),
  which states the seed registers are filled in (`KeyInv`), and why a lost block is
  followed by a wait for the FIFO (`LossInv`). `KeystreamCorrect` is about key and seed;
  that the counter was loaded needs the pace of the mixer and is `CounterLoaded`
  below. `GeneratorDrivesFifo` shows that every
  edge of the generator is an edge of `FifoSpec`: the environment that the FIFO's
  theorems assume is the one the generator provides. So `GeneratorStreamsInOrder`
  carries the refinement into the generator, again while `exact` holds: the
  generator does store in the cycle of a release (finding 1).
* `TrngProofs`. `TrngTypeCorrect` and `GeneratorInsideTrng` hold whenever discards are
  written (`PartsInv`): every edge of `trng.v` is one of the generator, so keystream,
  budget, loss bound and FIFO hold behind the mixer. `SeedsFresh`, `RequestHeard`,
  `CollectorServes` and `CounterLoaded` have `CarefulDiscards` as hypothesis, which is
  `HarmlessDiscard` on every edge; run `trng_discard` shows that without it a digest is
  used twice. The invariant joins the handshake between generator and mixer
  (`HandshakeInv`), that hash core and cipher are not overtaken (`PaceInv`, from
  `Delivers`), and that what is collected, hashed and offered is younger than the last
  discard (`FreshInv`).

### Coretest

* `CoretestProofs`. For any host, however fast: `CoretestTypeCorrect`,
  `ReceiveBufferSafe`, `CoreSeesStableBus` and `ResponseNotRewritten`, for every buffer
  size, command set, window and core. `BufferInv` adds to `NeverOverrun` that a byte
  that was stored and not counted still has room, because only decrements happen in
  between. `EngineInv` is the lockstep: the core is selected only within an access, and
  while `tx_engine` runs `test_engine` waits with its request up; `response_sent_reg` is
  up in `TX_DONE` only, which is why both return to idle at the same edge.
* `CoretestMemoryProofs`. For a `Paced` host, one that waits for each answer and sends
  commands whose length coretest knows: `CounterCounts` (no decrement is lost) and
  `CoretestIsRemoteMemory`, the refinement `IsRemoteMemory`. The abstract `Execute`
  happens at the clock that leaves the wait state of an access or enters `CMD_ERROR`,
  `Deliver` when the last byte of the answer is released. `MemoryInv` follows the one
  outstanding command through the system: on the line (`LineInv`), in the buffer
  (`RingInv`), in the parser (`CommandInv`, which says how many bytes are taken, which
  ones come, and what the registers hold of the first), at the core (`BusInv`,
  `ExecInv`), and its answer in `tx_buffer` (`MessageInv`) and back on the line
  (`TxLineInv`, `GotInv`). `RaceInv` says that a byte never arrives while `test_engine`
  cannot take it, hence at most one byte is in the buffer and no increment meets a
  decrement. `Paced` is needed: `coretest_unknown` loses a decrement with an unknown
  command (finding 3), and a host that does not wait lets bytes arrive while others are
  taken.

### The software

* `HostProofs`. Of the access layer alone, `EveryAccessReachesItsAddress` and
  `NoAccessBeforeSetup` for every page size and every sequence of accesses and failures;
  the addresses are all of those of the FPGA. `EimInv` adds to the two properties that
  the mapped page is the one of `mem_base_addr`, and what has been configured at each
  stage of `eim_setup`. `TranslationRoundTrip` shows that `eim_offset` keeps segment,
  core and register apart. `HostUsesEim`: every step of a program is a step of that
  specification or leaves the access layer alone, so `ProgramAccessesReachTheirAddress`
  follows for the host. `LookedUpCoreIsUsed` is `RightCore`: for every fabric, every
  page size and every well-formed script, a program that looked its core up reads and
  writes no other, unless it is quiet or does not check. `HostInv` goes the whole way:
  the list holds the cores found so far at their slots (`ListInv`, `CoresInv`), each
  base looked up is that of a core with the name, unless the program goes on without one
  (`BasesInv`), the access layer reaches the address asked for (`EimInv`), so the core
  selected is the one of the list. `HashScanVisitsNodes` is the search of `hash.c`,
  which steps over neighbours.
* `HostProofs`, the scripts. `EveryCommandIsHeard` and `NoResultIsReadEarly` are
  `CommandHeard` and `NoStaleRead` for every set of patient scripts, every fabric and
  every timing (`AllPatient`). `PatienceInv` keeps account, step by step of the script:
  which core may be at work and with which operation, that its flags show it
  (`Signalling`), which commands its command register may hold, also those another test
  left (`Left`), and which way AES goes. That the core accessed is the one meant comes
  from `HostInv`.
* `HostProofs`, runs in order. `EveryRunIsInOrder` is `RunsInOrder`: forget how far the cores are
  (`Settled`), the mapping, the list, the polls and the rounds, and each step of `Host`
  becomes a step of the program run in order, or none, until a wait is given up or an
  access goes astray (`Excused`). Each action is shown to be the step of `After` it
  stands for; AES, which may be written to while it expands a key, needs `SettledAes`.
  Hence (`OrderInv`) every set of moments that holds the first one and is closed under
  `After` holds the moment the run is at. `NoAlarmIsFalse` and `PrintedDigestIsRight`
  conclude `NoFalseAlarm` and `DigestIsRight`, if there is such a set in which no
  comparison is wrong and the digest is the one due (`AllRight`); the second also needs that
  a program that prints a digest stops when a call fails (`StopsAtOnce`, `EndInv`).
  The SHA-256 core of `src/core` is in both, hypothesis and conclusion: comparisons may
  find a SHA-224 there if the script leaves the mode bit out, and the digest due is
  then a SHA-224 (`DigestDue`).

### The exponentiation

* `BigNumProofs`. `ValueOfWords`, `SumOfWords`, `DifferenceOfWords`,
  `ComparisonOfWords`, and the lemmas on halving and doubling: what the loops over words
  with their carries and borrows compute is arithmetic on numbers modulo `Base`, for
  every word size and every length. The loops are recursive functions, and the
  proofs are by induction. An induction theorem that takes an operator cannot be
  used, so the induction (`Induction`) is derived from the well-founded order of the
  naturals, with the property given as a set.
* `ModExpProofs`. Of one product: `SumsAlwaysFit`, `PartialProductHolds` and
  `ProductIsCorrect`, for every size of the array. The invariant (`IInv`) says that
  `pow * s` is the partial product plus `qsum * M`, that `rest` is what is left of the
  factor, and that `s` stays below `A + M`, which is why `2 * (A + M) <= Base` is enough
  and why every halving is exact. Of the exponentiation: `ModExpTypeCorrect`,
  `NothingOverflowsEver`, `ProductsExact`, `LoopCorrect` and `ResultCorrect`, the result
  is `X^E` modulo `M` (`M` itself may stand for 0), for every word size,
  length, odd modulus with `6 * M <= Base`, message below it and exponent, for the loops of `mont_exp_array` and `mont_exp_array2`
  alike. `ExpInv` joins the product in progress (`ProductInv`), the bounds of the arrays
  (`RangeInv`), the residue of `2^(2N)` (`ResidueInv`), which product is computed for
  what (`CallInv`), and the powers for the bits seen (`LoopInv`). `WordsAreNumbers` is
  `WordArithmetic`, which lets the model compute on numbers.

### Assumptions

The provers know of the constants only what the `ASSUME`s of the modules say, and TLC
evaluates each on some run. Most give a size (greater than 0) or name a set of commands
or of accesses. The others:

* `BlocksAssumption`, `SeedsAssumption`, `DigestAssumption` (`TrngCsprng`, `Trng`):
  blocks and seeds are in the sets named, and no digest is the value of the cleared seed
  register. The four digests of `TrngMixer` are seeds.
* `DataAssumption` (`Coretest`): data bytes are those without a meaning in the protocol.
  Addresses and words are made of `Byte`, which has the others as well, so an argument
  may look like a code.
* `BaseIsTheArray`, `ProblemsAssumption` (`ModExp`): `Base` is two to the bits of the
  array, operands are numbers; what they must satisfy is `Solvable`.
* `ScenariosAssumption` (`Host`): a script has a test, each test a step; a program that
  looks its cores up uses the EIM bus, names registers below `CORE_SIZE`, and writes no
  name or version register. TLC evaluates it on the scenarios of the runs, which hold
  every program that is modelled.

The theorems about scripts have hypotheses of their own, `AllPatient`, `AllRight` and
`StopsAtOnce`, because they do not hold of every well-formed script: the one of finding 4
is not patient. They speak about the text of a script and the program run in order, never
about timing. `ProgramIsRight` shows that every program of the repository satisfies
them, on each fabric of run `host`, TC7 excepted.

### Only model-checked

* `ProgramIsRight`: that the scripts of the repository are patient and right when run in
  order. It is a computation on each script, nothing that holds for all of them.
* Liveness, which is beyond the prover, and with it `ENABLED`: `WordsKeepComing`,
  `RandomKeepsComing`, `CommandsAreAnswered`, `BytesAreTaken`, `EveryRunEnds`,
  `Terminates`.

## 6. Not modelled

* `tc_i2c.c`: the calls of `tc_eim.c` over an I2C bus, with no state but a file
  descriptor; its peer `coretest` is modelled. `devmem3.c`: one read or write
  from the command line.
* Of the software that is modelled: command lines, help texts and printing; the
  bytes of test vectors; that an operand takes many bus accesses (it takes one
  here, at its first register, so a failure in the middle of an operand is
  one before it); `-r` with an interrupt.
* `restore_state_test` of `tb_sha256.v`, and with it writing the digest registers of the
  SHA-256 core. `mont_exp_array2` with an `explength` that is
  not `modlength`; nothing in the repository
  calls `mod_exp_array2`.
* The test benches of the C model (`simple_tests.c`,
  `autogenerated_tests.c`, `montgomery_array_test.c`): vectors; run `modexp`
  tries every operand of a small size instead.
* The data paths of ciphers, hashes and curves, and the FSMs of the cores that `CrypCore`
  covers only at the register interface.
* UART, I2C, the EIM and FMC bridges, the entropy sources, the master key
  memory: planned, below.
* Timing and metastability (single-bit synchronisers would be modelled by delay only), analogue
  noise, pin wiring, vendored code.

## 7. Plan

Done since the first part: the C software (access layer, discovery, test programs,
drivers) and the C model of the exponentiation, which item 6 of the first plan asked
for. Next, most important first:

1. `UartCore`: two UARTs against each other at bit level, an abstract byte pipe
   as their specification, and the handshake conditions the hosts of
   `CoretestSystem` assume.
2. `EntropySource`: the avalanche and ring-oscillator collection FSMs, the decorrelator and
   their handshake with the mixer, replacing `Delivers`.
3. `BusBridge`: the EIM and FMC arbiters on two clocks with the pulse
   synchroniser; an abstract register access as its specification, on which
   `NovenaEim` can rest.
4. `I2cSlave` against a bus master and coretest.
5. `RoundCores`: the control of AES (S-box sharing, round key order), SHA-1/256/512 (message window),
   ChaCha rounds, as refinements of the cores of `CrypCore`.
6. The exponentiators in RTL against `ModExp`.
7. `Mkmif`: command FSM and SPI shifter against a serial memory.

Proofs: every safety invariant and action property of the present runs but `ProgramIsRight` is
proved. What is left are the specifications of the modules above as implementations of what the
present ones assume.
