----------------------------- MODULE CurveTests -----------------------------
(***************************************************************************)
(* The STM32 drivers of the four elliptic curve multipliers,               *)
(* src/core/pkey/*/stm32_driver/*_driver_sample.c.  A core multiplies a    *)
(* point by a scalar: the ECDSA cores the base point G, the ECDH cores the *)
(* point written.  The drivers for the curves of 256 and 384 bits differ   *)
(* in the places of the registers, in the numbers, and where it is said.   *)
(***************************************************************************)
EXTENDS HostSteps

G == {"G"}

\* Mutant of multiplier: the status is not waited for.
multiplier_hasty(k, operands, point) ==
    Test(0, <<tc_write(EC_K, <<k>>)>> \o operands
            \o <<tc_write(ADDR_CTRL, <<>>), tc_next(ADDR_CTRL),
                 tc_expected(EC_XOUT, Coordinate("x", point)),
                 tc_expected(EC_YOUT, Coordinate("y", point))>>)

\* What the multiplier routines share: operands are the writes between the
\* scalar and the command, point is the result expected.
multiplier(k, operands, point) ==
    Test(0, <<tc_write(EC_K, <<k>>)>> \o operands
            \o <<tc_write(ADDR_CTRL, <<>>), tc_next(ADDR_CTRL),
                 tc_wait(ADDR_STATUS, "valid", 0),
                 tc_expected(EC_XOUT, Coordinate("x", point)),
                 tc_expected(EC_YOUT, Coordinate("y", point))>>)

-----------------------------------------------------------------------------
(* ECDSA: the base point is implied.                                       *)

test_p256_multiplier(k, point) == multiplier(k, <<>>, point)
test_p384_multiplier(k, point) == multiplier(k, <<>>, point)

\* main: Q, R, O = 0 * G, G, O = n * G, G, and H twice.  The name is checked,
\* the version is not.
ecdsa256_driver ==
    Driver(<<tc_expected(ADDR_NAME, <<"ecds", "a256">>)>>, <<>>,
           <<test_p256_multiplier("d", G \cup {"d"}),
             test_p256_multiplier("k", G \cup {"k"}),
             test_p256_multiplier("0", Infinity), test_p256_multiplier("1", G),
             test_p256_multiplier("n", Infinity), test_p256_multiplier("n+1", G),
             test_p256_multiplier("2", G \cup {"2"}),
             test_p256_multiplier("n+2", G \cup {"2"})>>)

ecdsa384_driver ==
    Driver(<<tc_expected(ADDR_NAME, <<"ecds", "a384">>)>>, <<>>,
           <<test_p384_multiplier("d", G \cup {"d"}),
             test_p384_multiplier("k", G \cup {"k"}),
             test_p384_multiplier("0", Infinity), test_p384_multiplier("1", G),
             test_p384_multiplier("n", Infinity), test_p384_multiplier("n+1", G),
             test_p384_multiplier("2", G \cup {"2"}),
             test_p384_multiplier("n+2", G \cup {"2"})>>)

-----------------------------------------------------------------------------
(* ECDH: the point is written, and with 256 bits read back too.            *)

XIn(point) == tc_write(EC_XIN, Coordinate("x", point))
YIn(point) == tc_write(EC_YIN, Coordinate("y", point))

dh_p256_multiplier(k, in, out) ==
    multiplier(k, <<XIn(in), YIn(in), tc_read(EC_XIN, "qx"), tc_read(EC_YIN, "qy")>>, out)
dh_p384_multiplier(k, in, out) == multiplier(k, <<XIn(in), YIn(in)>>, out)

\* The two public points and the shared secret.
QA     == G \cup {"dA"}
QB     == G \cup {"dB"}
Shared == G \cup {"dA", "dB"}

ecdhp256_driver ==
    Driver(<<tc_expected(ADDR_NAME, <<"ecdh", "p256">>)>>, <<>>,
           <<dh_p256_multiplier("dA", G, QA), dh_p256_multiplier("dB", G, QB),
             dh_p256_multiplier("dA", QB, Shared), dh_p256_multiplier("dB", QA, Shared),
             dh_p256_multiplier("0", QA, Infinity), dh_p256_multiplier("0", QB, Infinity),
             dh_p256_multiplier("1", QA, QA), dh_p256_multiplier("1", QB, QB),
             dh_p256_multiplier("n+1", G, G), dh_p256_multiplier("n+1", G, G),
             dh_p256_multiplier("2", G, G \cup {"2"}),
             dh_p256_multiplier("n+2", G, G \cup {"2"}),
             dh_p256_multiplier("2", QA, QA \cup {"2"}),
             dh_p256_multiplier("n+2", QA, QA \cup {"2"}),
             dh_p256_multiplier("2", QB, QB \cup {"2"}),
             dh_p256_multiplier("n+2", QB, QB \cup {"2"})>>)

\* The ninth test multiplies by n here.
ecdhp384_driver ==
    Driver(<<tc_expected(ADDR_NAME, <<"ecdh", "p384">>)>>, <<>>,
           <<dh_p384_multiplier("dA", G, QA), dh_p384_multiplier("dB", G, QB),
             dh_p384_multiplier("dA", QB, Shared), dh_p384_multiplier("dB", QA, Shared),
             dh_p384_multiplier("0", QA, Infinity), dh_p384_multiplier("0", QB, Infinity),
             dh_p384_multiplier("1", QA, QA), dh_p384_multiplier("1", QB, QB),
             dh_p384_multiplier("n", G, Infinity), dh_p384_multiplier("n+1", G, G),
             dh_p384_multiplier("2", G, G \cup {"2"}),
             dh_p384_multiplier("n+2", G, G \cup {"2"}),
             dh_p384_multiplier("2", QA, QA \cup {"2"}),
             dh_p384_multiplier("n+2", QA, QA \cup {"2"}),
             dh_p384_multiplier("2", QB, QB \cup {"2"}),
             dh_p384_multiplier("n+2", QB, QB \cup {"2"})>>)
=============================================================================
