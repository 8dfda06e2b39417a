----------------------------- MODULE ModexpTests -----------------------------
(***************************************************************************)
(* The programs that use the three modular exponentiation cores:           *)
(* modexp_tester.c and modexps6_tester.c of src/core/platform/novena/sw,   *)
(* and the modexpa7 driver for the STM32,                                  *)
(* src/core/math/modexpa7/src/stm32/modexpa7_driver_sample.c.  Operands    *)
(* are symbolic; a result names the operands it was computed from.         *)
(***************************************************************************)
EXTENDS HostSteps

-----------------------------------------------------------------------------
(* modexp_tester.c                                                         *)

\* An operand of n words; a length is as many words as it counts.
Operand(name, n) == [i \in 1 .. n |-> ToString(<<name, i>>)]
Length(n) == [i \in 1 .. n |-> "word"]

\* Mutant of testrunner: the message pointer is not reset.
testrunner_resume(exp_len, exponent, mod_len, modulus, message) ==
    Test(1, <<tc_write(MODEXP_EXPONENT_LENGTH, Length(exp_len)),
              tc_write(MODEXP_EXPONENT_PTR_RST, <<>>),
              tc_write(DataPort(MODEXP_EXPONENT_PTR_RST), SubSeq(exponent, 1, mod_len)),
              tc_write(MODEXP_MODULUS_LENGTH, Length(mod_len)),
              tc_write(MODEXP_MODULUS_PTR_RST, <<>>),
              tc_write(DataPort(MODEXP_MESSAGE_PTR_RST), SubSeq(message, 1, mod_len)),
              tc_write(DataPort(MODEXP_MODULUS_PTR_RST), SubSeq(modulus, 1, mod_len)),
              tc_init(ADDR_CTRL), tc_wait_ready(ADDR_STATUS),
              tc_write(MODEXP_RESULT_PTR_RST, <<>>),
              tc_read(DataPort(MODEXP_RESULT_PTR_RST), "result")>>
         \o Ignored(<<Compare("result", PowMod(message, exponent, modulus))>>))

\* The operands are written through pointers that advance; a wrong word of
\* the result only prints an error.  (The exponent is written in as many
\* words as the modulus has: every caller passes equal lengths.)
testrunner(exp_len, exponent, mod_len, modulus, message) ==
    Test(1, <<tc_write(MODEXP_EXPONENT_LENGTH, Length(exp_len)),
              tc_write(MODEXP_EXPONENT_PTR_RST, <<>>),
              tc_write(DataPort(MODEXP_EXPONENT_PTR_RST), SubSeq(exponent, 1, mod_len)),
              tc_write(MODEXP_MODULUS_LENGTH, Length(mod_len)),
              tc_write(MODEXP_MESSAGE_PTR_RST, <<>>),
              tc_write(MODEXP_MODULUS_PTR_RST, <<>>),
              tc_write(DataPort(MODEXP_MESSAGE_PTR_RST), SubSeq(message, 1, mod_len)),
              tc_write(DataPort(MODEXP_MODULUS_PTR_RST), SubSeq(modulus, 1, mod_len)),
              tc_init(ADDR_CTRL), tc_wait_ready(ADDR_STATUS),
              tc_write(MODEXP_RESULT_PTR_RST, <<>>),
              tc_read(DataPort(MODEXP_RESULT_PTR_RST), "result")>>
         \o Ignored(<<Compare("result", PowMod(message, exponent, modulus))>>))

modexp_tc1 == testrunner(1, Operand("0x07", 1), 1, Operand("0x0b", 1), Operand("0x03", 1))
modexp_tc2 == testrunner(1, Operand("e2", 1), 1, Operand("n2", 1), Operand("m2", 1))
modexp_tc3 == testrunner(1, Operand("0x41", 1), 1, Operand("0x87", 1), Operand("0x81", 1))
modexp_tc4 == testrunner(2, Operand("e4", 2), 2, Operand("n4", 2), Operand("m4", 2))
modexp_tc5 == testrunner(4, Operand("e5", 4), 4, Operand("n5", 4), Operand("m5", 4))
modexp_tc6 == testrunner(3, Operand("65537", 3), 3, Operand("n6", 3), Operand("m6", 3))
modexp_tc7 == testrunner(9, Operand("65537", 9), 9, Operand("n7", 9), Operand("m7", 9))

\* The lengths of the last two, 65 and 64 words, are shortened to these.
LONG_OPERAND == 6
modexp_tc8 == testrunner(LONG_OPERAND + 1, Operand("65537", LONG_OPERAND + 1),
                         LONG_OPERAND + 1, Operand("n8", LONG_OPERAND + 1),
                         Operand("m8", LONG_OPERAND + 1))
modexp_tc9 == testrunner(LONG_OPERAND, Operand("e9", LONG_OPERAND),
                         LONG_OPERAND, Operand("n9", LONG_OPERAND),
                         Operand("m9", LONG_OPERAND))

\* check_modexp_access asserts that there is a core; main runs all nine.
modexp_tester ==
    Program(<<<<"modexp">>>>, "abort",
            <<modexp_tc1, modexp_tc2, modexp_tc3, modexp_tc4, modexp_tc5, modexp_tc6,
              modexp_tc7, modexp_tc8, modexp_tc9>>)

-----------------------------------------------------------------------------
(* modexps6_tester.c.  The core is alone on the bus, at absolute addresses.*)
(* Operands are written with their words reversed, least significant first.*)

two_card_monty(operand) == Reverse(operand)

\* The key, message and signature of each width: n, e, d, m and s.
Key(component, width) == Operand(ToString(<<component, width>>), 2)

\* Widths are numbers of bits.
tc_width(at, bits) == tc_write(at, <<ToString(bits)>>)

s6_TC0 == Test(0, Identify(<<"modexp", "s6">>, <<"0.10">>))

s6_Expected(message, exponent, exponent_bits, modulus, bits) ==
    tc_expected(S6_RESULT,
                two_card_monty(PowMod(message, exponent \o <<ToString(exponent_bits)>>,
                                      modulus \o <<ToString(bits)>>)))

\* The modulus and what is precomputed from it.
s6_Prepare(mode, modulus, bits) ==
    <<tc_write(MODE, <<mode>>),
      tc_width(MODULUS_BITS, bits),
      tc_write(S6_MODULUS, two_card_monty(modulus)),
      tc_init(ADDR_CTRL), tc_wait_ready(ADDR_STATUS)>>

\* One message: every result but that of the comparison is ignored.
s6_Single(mode, message, exponent, exponent_bits, modulus, bits) ==
    Test(0, Ignored(s6_Prepare(mode, modulus, bits)
                    \o <<tc_write(S6_MESSAGE, two_card_monty(message)),
                         tc_width(EXPONENT_BITS, exponent_bits),
                         tc_write(S6_EXPONENT, two_card_monty(exponent)),
                         tc_next(ADDR_CTRL), tc_wait_valid(ADDR_STATUS)>>)
            \o <<s6_Expected(message, exponent, exponent_bits, modulus, bits)>>)

s6_Sign(mode, bits) ==
    s6_Single(mode, Key("m", bits), Key("d", bits), bits, Key("n", bits), bits)

s6_TC1 == s6_Sign("fast", 1024)
s6_TC2 == s6_Sign("slow", 1024)
s6_TC3 == s6_Sign("fast", 2048)
s6_TC4 == s6_Sign("slow", 2048)
s6_TC5 == s6_Sign("fast", 4096)
s6_TC6 == s6_Sign("slow", 4096)

\* Four messages with one key: the coefficient is computed once, and the
\* command register is never cleared between messages.
s6_TC7 ==
    Test(0, Ignored(s6_Prepare("fast", Key("n", 1024), 1024)
                    \o <<tc_width(EXPONENT_BITS, 1024),
                         tc_write(S6_EXPONENT, two_card_monty(Key("d", 1024)))>>)
            \o FlattenSeq([i \in 1 .. 4 |->
                  LET message == Operand(ToString(<<"m_1024", i>>), 2)
                  IN  Ignored(<<tc_write(S6_MESSAGE, two_card_monty(message)),
                                tc_next(ADDR_CTRL), tc_wait_valid(ADDR_STATUS)>>)
                      \o <<s6_Expected(message, Key("d", 1024), 1024,
                                       Key("n", 1024), 1024)>>]))

\* Verification: the public exponent, written with a width of 18 bits.
s6_TC8 ==
    s6_Single("fast", Key("s", 4096), Key("e", 4096), 18, Key("n", 4096), 4096)

modexps6_tester ==
    Program(<<>>, "test", <<s6_TC0, s6_TC1, s6_TC2, s6_TC3, s6_TC4, s6_TC5, s6_TC6,
                            s6_TC7, s6_TC8>>)

-----------------------------------------------------------------------------
(* The modexpa7 driver.  Each modulus is prepared once: its coefficient and*)
(* its Montgomery factor are read back and kept in variables.              *)

Kept(what, modulus) == ToString(<<what, modulus>>)
Modulus(name, bits) == Operand(ToString(<<name, bits>>), 2)

\* The control bit is cleared and then set: the core starts on its edge.
Trigger(word) == <<tc_write(ADDR_CTRL, <<>>), tc_write(ADDR_CTRL, word)>>

setup_modexpa7(n, bits) ==
    Test(0, <<tc_width(MODULUS_BITS, bits), tc_write(A7_MODULUS, Reverse(n))>>
            \o Trigger(<<"init">>)
            \o <<tc_wait(ADDR_STATUS, "ready", 0),
                 tc_read(A7_COEFF_OUT, Kept("coeff", n)),
                 tc_read(A7_FACTOR_OUT, Kept("factor", n))>>)

\* Mutant of sign_modexpa7: the command register is not cleared first.
sign_modexpa7_level(n, m, d, bits, mode) ==
    Test(0, <<tc_width(MODULUS_BITS, bits), tc_width(EXPONENT_BITS, bits),
              tc_write(MODE, <<mode>>),
              tc_write(A7_MODULUS, Reverse(n)), tc_write(A7_MESSAGE, Reverse(m)),
              tc_write(A7_EXPONENT, Reverse(d)),
              WriteBack(A7_COEFF_IN, Kept("coeff", n)),
              WriteBack(A7_FACTOR_IN, Kept("factor", n)),
              tc_write(ADDR_CTRL, <<"next">>)>>
            \o <<tc_wait(ADDR_STATUS, "valid", 0),
                 tc_expected(A7_RESULT,
                     Reverse(PowMod(m \o <<mode>>, d \o <<ToString(bits)>>,
                                    n \o <<ToString(bits)>>)))>>)

\* What the two tests share: in CRT mode the message is twice as long as the
\* modulus.
sign_modexpa7(n, m, d, bits, mode) ==
    Test(0, <<tc_width(MODULUS_BITS, bits), tc_width(EXPONENT_BITS, bits),
              tc_write(MODE, <<mode>>),
              tc_write(A7_MODULUS, Reverse(n)), tc_write(A7_MESSAGE, Reverse(m)),
              tc_write(A7_EXPONENT, Reverse(d)),
              WriteBack(A7_COEFF_IN, Kept("coeff", n)),
              WriteBack(A7_FACTOR_IN, Kept("factor", n))>>
            \o Trigger(<<"next">>)
            \o <<tc_wait(ADDR_STATUS, "valid", 0),
                 tc_expected(A7_RESULT,
                     Reverse(PowMod(m \o <<mode>>, d \o <<ToString(bits)>>,
                                    n \o <<ToString(bits)>>)))>>)

test_modexpa7(n, m, d, bits)     == sign_modexpa7(n, m, d, bits, "whole")
test_modexpa7_crt(n, m, d, bits) == sign_modexpa7(n, m, d, bits, "crt")

\* A key of 384 or 512 bits with its two primes.
a7_Setups(bits) ==
    <<setup_modexpa7(Modulus("n", bits), bits),
      setup_modexpa7(Modulus("p", bits \div 2), bits \div 2),
      setup_modexpa7(Modulus("q", bits \div 2), bits \div 2)>>

a7_Tests(bits) ==
    LET m == Operand(ToString(<<"m", bits>>), 2)
    IN  <<test_modexpa7(Modulus("n", bits), m, Operand(ToString(<<"d", bits>>), 2), bits),
          test_modexpa7_crt(Modulus("p", bits \div 2), m,
                            Operand(ToString(<<"dp", bits>>), 2), bits \div 2),
          test_modexpa7_crt(Modulus("q", bits \div 2), m,
                            Operand(ToString(<<"dq", bits>>), 2), bits \div 2)>>

modexpa7_driver ==
    Driver(Identify(<<"modexp", "a7">>, <<"0.25">>),
           a7_Setups(384) \o a7_Setups(512), a7_Tests(384) \o a7_Tests(512))
=============================================================================
