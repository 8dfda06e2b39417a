------------------------------ MODULE HashTests ------------------------------
(***************************************************************************)
(* The programs that use the hash cores: hash_tester.c and hash.c of       *)
(* src/core/platform/novena/sw, the test bench of the SHA-256 core, and    *)
(* the SHA-3 driver for the STM32,                                         *)
(* src/core/hash/sha3/stm32/sha3_driver_sample.c.  A block and a digest    *)
(* are symbolic: a digest is the mode, then the blocks that went in.       *)
(***************************************************************************)
EXTENDS HostSteps

CONSTANT HugeBlocks  \* stands for the 1000 blocks of the huge message

ASSUME HugeBlocksAssumption == HugeBlocks \in Nat /\ HugeBlocks > 1

SHA1_NAME   == <<"sha", "1">>
SHA256_NAME == <<"sha", "2-256">>
SHA512_NAME == <<"sha", "2-512">>

\* hash_tester.c looks up the three cores; these are their places.
SHA1   == 1
SHA256 == 2
SHA512 == 3

-----------------------------------------------------------------------------
(* hash_tester.c                                                           *)

hash_TC0 == Test(0, <<tc_write(BOARD_ADDR_DUMMY, <<"time">>)>>
                    \o Identify(<<"PVT1", "    ">>, <<"0.10">>)
                    \o <<tc_expected(BOARD_ADDR_DUMMY, <<"time">>)>>)

hash_TC1 == Test(SHA1, Identify(SHA1_NAME, <<"0.50">>))

\* One block, the results of all calls but the last ignored.
hash_TC2 ==
    Test(SHA1, Ignored(<<tc_write(ADDR_BLOCK, <<"single">>), tc_init(ADDR_CTRL),
                         tc_wait_valid(ADDR_STATUS)>>)
               \o <<tc_expected(ADDR_DIGEST, <<"single">>)>>)

hash_TC3 ==
    Test(SHA1, Ignored(<<tc_write(ADDR_BLOCK, <<"double0">>), tc_init(ADDR_CTRL),
                         tc_wait_valid(ADDR_STATUS),
                         tc_expected(ADDR_DIGEST, <<"double0">>),
                         tc_write(ADDR_BLOCK, <<"double1">>), tc_next(ADDR_CTRL),
                         tc_wait_valid(ADDR_STATUS)>>)
               \o <<tc_expected(ADDR_DIGEST, <<"double0", "double1">>)>>)

hash_TC4 == Test(SHA256, Identify(SHA256_NAME, <<"0.81">>))

hash_TC5 ==
    Test(SHA256, <<tc_write(ADDR_BLOCK, <<"single">>), tc_init(ADDR_CTRL),
                   tc_wait_valid(ADDR_STATUS),
                   tc_expected(ADDR_DIGEST, <<"single">>)>>)

hash_TC6 ==
    Test(SHA256, <<tc_write(ADDR_BLOCK, <<"double0">>), tc_init(ADDR_CTRL),
                   tc_wait_valid(ADDR_STATUS),
                   tc_expected(ADDR_DIGEST, <<"double0">>),
                   tc_write(ADDR_BLOCK, <<"double1">>), tc_next(ADDR_CTRL),
                   tc_wait_valid(ADDR_STATUS),
                   tc_expected(ADDR_DIGEST, <<"double0", "double1">>)>>)

\* The same block over and over: it is written once.
hash_TC7 ==
    Test(SHA256, <<tc_write(ADDR_BLOCK, <<"huge">>),
                   tc_init(ADDR_CTRL), tc_wait_ready(ADDR_STATUS)>>
                 \o FlattenSeq([i \in 1 .. HugeBlocks - 1 |->
                        <<tc_next(ADDR_CTRL), tc_wait_ready(ADDR_STATUS)>>])
                 \o <<tc_wait_valid(ADDR_STATUS),
                      tc_expected(ADDR_DIGEST, [i \in 1 .. HugeBlocks |-> "huge"])>>)

hash_TC8 == Test(SHA512, Identify(SHA512_NAME, <<"0.80">>))

\* The four modes of the SHA-512 core.
Modes == <<"512/224", "512/256", "384", "512">>

tc9(mode) ==
    <<tc_write(ADDR_BLOCK, <<"single">>), tc_write(ADDR_CTRL, <<"init", mode>>),
      tc_wait_valid(ADDR_STATUS),
      tc_expected(SHA512_ADDR_DIGEST, <<mode, "single">>)>>

hash_TC9 == Test(SHA512, FlattenSeq([i \in 1 .. 4 |-> tc9(Modes[i])]))

tc10(mode) ==
    <<tc_write(ADDR_BLOCK, <<"double0">>), tc_write(ADDR_CTRL, <<"init", mode>>),
      tc_wait_ready(ADDR_STATUS),
      tc_write(ADDR_BLOCK, <<"double1">>), tc_write(ADDR_CTRL, <<"next", mode>>),
      tc_wait_valid(ADDR_STATUS),
      tc_expected(SHA512_ADDR_DIGEST, <<mode, "double0", "double1">>)>>

hash_TC10 == Test(SHA512, FlattenSeq([i \in 1 .. 4 |-> tc10(Modes[i])]))

\* main of hash_tester.c with no arguments; -r and test numbers are
\* Repeated and Only, and the groups are these.
hash_tester ==
    Program(<<SHA1_NAME, SHA256_NAME, SHA512_NAME>>, "skip",
            <<hash_TC0, hash_TC1, hash_TC2, hash_TC3, hash_TC4, hash_TC5, hash_TC6,
              hash_TC7, hash_TC8, hash_TC9, hash_TC10>>)

sha1_tests   == <<2, 3, 4>>
sha256_tests == <<5, 6, 7, 8>>
sha512_tests == <<9, 10, 11>>

-----------------------------------------------------------------------------
(* hash.c: the digest of a file of n bytes.  A block is described by the   *)
(* file bytes at its start, the place of the byte 0x80, and the number in  *)
(* its last bytes; all other bytes are zero.                               *)

ctrl == [algo \in {"sha-1", "sha-256", "sha-512/224", "sha-512/256", "sha-384", "sha-512"} |->
    CASE algo = "sha-1"   -> [name |-> SHA1_NAME, block_len |-> 64,
                              digest_addr |-> ADDR_DIGEST, mode |-> <<>>]
      [] algo = "sha-256" -> [name |-> SHA256_NAME, block_len |-> 64,
                              digest_addr |-> ADDR_DIGEST, mode |-> <<>>]
      [] OTHER            -> [name |-> SHA512_NAME, block_len |-> 128,
                              digest_addr |-> SHA512_ADDR_DIGEST, mode |-> <<algo>>]]

NoMark == -1
Block(from, count, mark, length) ==
    <<ToString(IF count = 0 THEN 0 ELSE from), ToString(count), ToString(mark),
      ToString(length)>>

\* Bytes of the length field for a block length.
LengthField(blen) == IF blen = 64 THEN 8 ELSE 16

transmit(block, mode, first) ==
    <<tc_write(ADDR_BLOCK, block),
      tc_write(ADDR_CTRL, <<IF first THEN "init" ELSE "next">> \o mode),
      tc_wait(ADDR_STATUS, "ready", 10)>>

\* The length as the last two words of the block hold it: sixteen bits each.
StoredLength(tlen) ==
    <<((tlen \div 65536) \div 65536) % 65536, tlen % 65536>>

\* Mutant of pad_transmit: a length field that lacks one byte is written.
pad_transmit_tight(from, flen, blen, mode, tlen, first) ==
    IF blen - (flen + 1) < LengthField(blen) - 1
    THEN transmit(Block(from, flen, flen, <<0, 0>>), mode, first)
         \o transmit(Block(0, 0, NoMark, StoredLength(tlen)), mode, FALSE)
    ELSE transmit(Block(from, flen, IF flen < blen - 8 THEN flen ELSE NoMark,
                        StoredLength(tlen)), mode, first)

\* The last bytes of the file with the padding, in one block or two.
pad_transmit(from, flen, blen, mode, tlen, first) ==
    IF blen - (flen + 1) < LengthField(blen)
    THEN transmit(Block(from, flen, flen, <<0, 0>>), mode, first)
         \o transmit(Block(0, 0, NoMark, StoredLength(tlen)), mode, FALSE)
    ELSE transmit(Block(from, flen, IF flen < blen - 8 THEN flen ELSE NoMark,
                        StoredLength(tlen)), mode, first)

\* Full blocks as they are read, then the last one, which may be empty.
hash(algo, n) ==
    LET blen == ctrl[algo].block_len
        mode == ctrl[algo].mode
        nblk == n \div blen
    IN  FlattenSeq([i \in 1 .. nblk |->
            transmit(Block((i - 1) * blen, blen, NoMark, <<0, 0>>), mode, i = 1)])
        \o pad_transmit(nblk * blen, n % blen, blen, mode, n * 8, nblk = 0)
        \o <<tc_read(ctrl[algo].digest_addr, "digest")>>

\* The padding of the standard: as many blocks as the bytes, the mark and the
\* length field need, the length (below 2^32) in the last of them.
PaddedMessage(algo, n) ==
    LET blen   == ctrl[algo].block_len
        blocks == (n + 1 + LengthField(blen) + blen - 1) \div blen
        Count(i) == IF n >= i * blen THEN blen
                    ELSE IF n <= (i - 1) * blen THEN 0 ELSE n - (i - 1) * blen
    IN  ctrl[algo].mode \o FlattenSeq([i \in 1 .. blocks |->
            Block((i - 1) * blen, Count(i),
                  IF n \div blen = i - 1 THEN n % blen ELSE NoMark,
                  IF i = blocks THEN <<0, n * 8>> ELSE <<0, 0>>)])

hash_program(algo, n) ==
    [Program(<<ctrl[algo].name>>, "fail", <<Test(1, hash(algo, n))>>)
        EXCEPT !.scan = TRUE, !.size = n, !.reference = PaddedMessage(algo, n)]

-----------------------------------------------------------------------------
(* tb_sha256.v, the test bench of the SHA-256 core: each test in one of the*)
(* core's two modes, which it selects with every command.  It waits for the*)
(* core without a limit, and counts errors without stopping.               *)

ModeBit(mode)     == IF mode = "SHA-256" THEN <<"mode">> ELSE <<>>
InMode(mode, seq) == IF mode = "SHA-256" THEN seq ELSE <<mode>> \o seq

check_name_version ==
    <<tc_read(ADDR_NAME, "name"), tc_read(ADDR_VERSION, "version")>>

\* A block goes in, and the digest of all so far is read.
tb_block(mode, command, block, blocks) ==
    <<tc_write(ADDR_BLOCK, <<block>>), tc_write(ADDR_CTRL, <<command>> \o ModeBit(mode)),
      tc_wait(ADDR_STATUS, "ready", 0), tc_expected(ADDR_DIGEST, InMode(mode, blocks))>>

tb_single_block_test(mode) ==
    Test(0, Ignored(tb_block(mode, "init", "single", <<"single">>)))

tb_double_block_test(mode) ==
    Test(0, Ignored(tb_block(mode, "init", "double0", <<"double0">>)
                    \o tb_block(mode, "next", "double1", <<"double0", "double1">>)))

tb_sha256 ==
    [Program(<<>>, "test",
             <<Test(0, check_name_version),
               tb_single_block_test("SHA-224"), tb_double_block_test("SHA-224"),
               tb_single_block_test("SHA-256"), tb_double_block_test("SHA-256")>>)
        EXCEPT !.bus = "fmc"]

-----------------------------------------------------------------------------
(* The SHA-3 driver.  The state is 50 words, of which a block takes 18, 26,*)
(* 34 or 36: five segments, of which it takes one to four.  A byte written *)
(* over a segment leaves what is called by the message and block number.   *)

StateSegments == 5
SegmentsOf(rate) ==
    CASE rate = 72 -> 1 [] rate = 104 -> 2 [] rate = 136 -> 3 [] rate = 144 -> 4

Zeros(n) == [i \in 1 .. n |-> "0"]

\* Block number b of a message: what fills its segments.
Sha3Block(msg, b, rate) ==
    [i \in 1 .. SegmentsOf(rate) |-> ToString(<<msg, b, rate>>)]

\* Mutant of sha3_absorb: the rest of the state is never written.
sha3_absorb_short(msg, b, rate) ==
    <<tc_write(SHA3_BLOCK, Sha3Block(msg, b, rate)),
      tc_write(ADDR_CTRL, <<>>),
      tc_write(ADDR_CTRL, IF b > 0 THEN <<"next">> ELSE <<"init">>),
      tc_wait(ADDR_STATUS, "valid", 0)>>

\* The first block covers the whole state, so that nothing of an earlier
\* message is left.
sha3_absorb(msg, b, rate) ==
    <<tc_write(SHA3_BLOCK,
               Sha3Block(msg, b, rate)
               \o (IF b = 0 THEN Zeros(StateSegments - SegmentsOf(rate)) ELSE <<>>)),
      tc_write(ADDR_CTRL, <<>>),
      tc_write(ADDR_CTRL, IF b > 0 THEN <<"next">> ELSE <<"init">>),
      tc_wait(ADDR_STATUS, "valid", 0)>>

\* A message of n bytes: its full blocks and one with the padding.
test_sha3(msg, n, rate) ==
    Test(0, FlattenSeq([b \in 1 .. n \div rate + 1 |-> sha3_absorb(msg, b - 1, rate)])
            \o <<tc_expected(SHA3_STATE,
                    FlattenSeq([b \in 1 .. n \div rate + 1 |->
                        Sha3Block(msg, b - 1, rate)
                        \o Zeros(StateSegments - SegmentsOf(rate))]))>>)

Sha3Rates == <<144, 136, 104, 72>>

sha3_driver ==
    Driver(Identify(<<"sha3", "    ">>, <<"0.10">>), <<>>,
           [i \in 1 .. 4 |-> test_sha3("empty", 0, Sha3Rates[i])]
           \o [i \in 1 .. 4 |-> test_sha3("short", 3, Sha3Rates[i])]
           \o [i \in 1 .. 4 |-> test_sha3("long", 200, Sha3Rates[i])])
=============================================================================
