----------------------------- MODULE CipherTests -----------------------------
(***************************************************************************)
(* The programs that use the AES core and the sources of random words:     *)
(* aes_tester.c, trng_tester.c and trng_extractor.c of                     *)
(* src/core/platform/novena/sw.                                            *)
(***************************************************************************)
EXTENDS HostSteps

CONSTANT NumWords  \* the number of random words asked for (-n)

ASSUME NumWordsAssumption == NumWords \in Nat \ {0}

-----------------------------------------------------------------------------
(* aes_tester.c.  Every register access is checked: an error ends the      *)
(* program.  The comparisons at the end only print OK or BAD.              *)

\* Mutant of single_block_test: the result is read without waiting for it.
single_block_test_hasty(keylength, key, block) ==
    Test(1, <<tc_write(AES_ADDR_KEY, key),
              tc_write(AES_ADDR_CONFIG, <<keylength, "dec">>),
              tc_write(ADDR_CTRL, <<"init">>),
              tc_write(AES_ADDR_BLOCK, block),
              tc_write(AES_ADDR_CONFIG, <<keylength, "enc">>),
              tc_write(ADDR_CTRL, <<"next">>),
              tc_read(AES_ADDR_RESULT, "enc_result")>>
         \o Ignored(<<Compare("enc_result",
                              Cipher(<<keylength, "enc">>, <<keylength>> \o key, block))>>))

\* The key is expanded without waiting for it, a block encrypted, and what
\* comes out decrypted again.
single_block_test(keylength, key, block) ==
    Test(1, <<tc_write(AES_ADDR_KEY, key),
              tc_write(AES_ADDR_CONFIG, <<keylength, "dec">>),
              tc_write(ADDR_CTRL, <<"init">>),
              tc_write(AES_ADDR_BLOCK, block),
              tc_write(AES_ADDR_CONFIG, <<keylength, "enc">>),
              tc_write(ADDR_CTRL, <<"next">>),
              tc_wait_ready(ADDR_STATUS),
              tc_read(AES_ADDR_RESULT, "enc_result"),
              WriteBack(AES_ADDR_BLOCK, "enc_result"),
              tc_write(AES_ADDR_CONFIG, <<keylength, "dec">>),
              tc_write(ADDR_CTRL, <<"next">>),
              tc_wait_ready(ADDR_STATUS),
              tc_read(AES_ADDR_RESULT, "dec_result")>>
         \o Ignored(<<Compare("enc_result",
                              Cipher(<<keylength, "enc">>, <<keylength>> \o key, block)),
                      Compare("dec_result", block)>>))

run_nist_tests ==
    LET plaintext == <<"plaintext0", "plaintext1", "plaintext2", "plaintext3">>
    IN  [i \in 1 .. 4 |-> single_block_test("128", <<"key128">>, <<plaintext[i]>>)]
        \o [i \in 1 .. 4 |-> single_block_test("256", <<"key256">>, <<plaintext[i]>>)]

\* check_aes_access asserts that there is a core.
aes_tester == Program(<<<<"aes">>>>, "abort", run_nist_tests)

-----------------------------------------------------------------------------
(* trng_tester.c                                                           *)

\* The four cores it looks up.
TRNG     == 1
ENTROPY1 == 2
ENTROPY2 == 3
CSPRNG   == 4

trng_TC0 == Test(0, <<tc_write(BOARD_ADDR_DUMMY, <<"time">>)>>
                    \o Identify(<<"PVT1", "    ">>, <<"0.10">>)
                    \o <<tc_expected(BOARD_ADDR_DUMMY, <<"time">>)>>)

\* Words are read one by one, each when the status says there is one: a wait
\* without a limit, for the count starts at 0.
RandomWords(n) ==
    FlattenSeq([i \in 1 .. n |->
        <<tc_wait(RNG_ADDR_STATUS, "ready", 0), tc_read(RNG_ADDR_RANDOM, "entropy")>>])

trng_TC1 == Test(TRNG, Identify(<<"trng", "    ">>, <<"0.51">>))
trng_TC2 == Test(ENTROPY1, Identify(<<"extnoise">>, <<"0.10">>))
trng_TC3 == Test(ENTROPY1, RandomWords(NumWords))
trng_TC4 == Test(ENTROPY2, Identify(<<"rosc ent">>, <<"0.10">>))
trng_TC5 == Test(ENTROPY2, RandomWords(NumWords))
trng_TC6 == Test(CSPRNG, Identify(<<"csprng", "  ">>, <<"0.50">>))
trng_TC7 == Test(CSPRNG, RandomWords(NumWords))

trng_tester ==
    Program(<<<<"trng">>, <<"extnoise">>, <<"rosc ent">>, <<"csprng">>>>, "skip",
            <<trng_TC0, trng_TC1, trng_TC2, trng_TC3, trng_TC4, trng_TC5, trng_TC6,
              trng_TC7>>)

-----------------------------------------------------------------------------
(* trng_extractor.c: words of one of three cores, with no check that it is *)
(* there.                                                                  *)

extract(source) ==
    Test(source, <<tc_wait(RNG_ADDR_STATUS, "ready", 0),
                   tc_read(RNG_ADDR_RANDOM, "entropy")>>)

trng_extractor(source) ==
    Program(<<<<"extnoise">>, <<"rosc ent">>, <<"csprng">>>>, "test",
            [i \in 1 .. NumWords |-> extract(source)])
=============================================================================
