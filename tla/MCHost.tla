------------------------------- MODULE MCHost -------------------------------
(***************************************************************************)
(* The scenarios: every program against fabrics that have its cores, that  *)
(* lack them, in which they never finish, with and without -q.  A page of  *)
(* 4096 bytes holds four cores, so that every fabric of five or more makes *)
(* the probing replace the mapping.                                        *)
(***************************************************************************)
EXTENDS Orderly

Core(kind, name, version) == [kind |-> kind, name |-> name, version |-> <<version>>]

\* The cores the software was written for, with the versions it expects of
\* them (cryptech.h).
board  == Core("plain", <<"PVT1", "    ">>, "0.10")
sha1   == Core("sha", SHA1_NAME, "0.50")
sha256 == Core("sha", SHA256_NAME, "0.81")
sha512 == Core("sha", SHA512_NAME, "0.80")
aes    == Core("aes", <<"aes", "     ">>, "0.80")
modexp == Core("modexp", <<"modexp", "  ">>, "0.51")
s6     == Core("modexps6", <<"modexp", "s6">>, "0.10")
a7     == Core("modexpa7", <<"modexp", "a7">>, "0.25")
trng   == Core("plain", <<"trng", "    ">>, "0.51")
extnoise == Core("plain", <<"extnoise">>, "0.10")
rosc   == Core("plain", <<"rosc ent">>, "0.10")
csprng == Core("plain", <<"csprng", "  ">>, "0.50")
sha3   == Core("keccak", <<"sha3", "    ">>, "0.10")
Curve(name) == Core("ec", name, "0.20")

\* As the hash cores are in src/core today: the software tells them apart from
\* those above by their versions, and the SHA-256 core by its mode bit.
sha1_now   == Core("sha", SHA1_NAME, "0.60")
sha256_now == Core("sha256", SHA256_NAME, "1.82")
sha512_now == Core("sha", SHA512_NAME, "0.81")

Everything == <<board, trng, sha1, extnoise, rosc, sha256, csprng, sha512, aes, modexp>>
Scattered  == <<board, sha1, aes, sha256, trng, sha512, csprng>>
Adjacent   == <<board, sha1, sha256, sha512, aes>>
ShaLast    == <<board, aes, sha1>>
Small      == <<board, aes, sha256>>
NoCores    == <<board>>
Today      == <<board, sha1_now, aes, sha256_now, trng, sha512_now, csprng>>

On(p, fabric) ==
    [program |-> p, fabric |-> fabric, alone |-> FALSE, quiet |-> FALSE, hangs |-> FALSE]
Quiet(s) == [s EXCEPT !.quiet = TRUE]
Hangs(s) == [s EXCEPT !.hangs = TRUE]
Alone(p, core) == [On(p, <<core>>) EXCEPT !.alone = TRUE]

HashTesterScenarios ==
    <<On(hash_tester, Everything),
      On(hash_tester, <<board, sha1_now, sha256_now>>),
      On(hash_tester, Small), Hangs(On(hash_tester, Adjacent)),
      On(Only(hash_tester, sha256_tests), Adjacent),
      On(Only(hash_tester, sha512_tests), Small),
      Quiet(On(Only(hash_tester, sha1_tests), Small)),
      Quiet(On(Only(hash_tester, <<3>>), Small)),
      On(Repeated(hash_tester, 4), Adjacent), On(Repeated(hash_tester, 2), NoCores),
      On(Only(hash_tester, <<6>>), Today), On(Only(hash_tester, <<7>>), Today),
      On(Only(hash_tester, <<8>>), Today), On(Repeated(hash_tester, 6), Today),
      On(tb_sha256, <<sha256_now>>), Hangs(On(tb_sha256, <<sha256_now>>))>>

HashScenarios ==
    <<On(hash_program("sha-1", 0), Scattered), On(hash_program("sha-1", 55), Scattered),
      On(hash_program("sha-1", 56), Scattered), On(hash_program("sha-256", 63), Scattered),
      On(hash_program("sha-256", 64), Scattered), On(hash_program("sha-256", 119), Scattered),
      On(hash_program("sha-256", 120), Scattered), On(hash_program("sha-384", 111), Scattered),
      On(hash_program("sha-512", 112), Scattered), On(hash_program("sha-512", 128), Scattered),
      On(hash_program("sha-512/256", 3), Adjacent), On(hash_program("sha-256", 3), Adjacent),
      On(hash_program("sha-1", 3), ShaLast), On(hash_program("sha-1", 3), Small),
      On(hash_program("sha-256", 64), Today), On(hash_program("sha-256", 119), Today),
      On(hash_program("sha-512", 112), Today),
      Hangs(On(hash_program("sha-1", 64), Scattered))>>

CipherScenarios ==
    <<On(aes_tester, Everything), On(aes_tester, NoCores),
      On(trng_tester, Everything), On(trng_tester, Small), Quiet(On(trng_tester, Small)),
      Hangs(On(trng_tester, Everything)), On(Repeated(trng_tester, 8), Everything),
      On(trng_extractor(1), Everything), On(trng_extractor(2), Everything),
      On(trng_extractor(3), Scattered), On(trng_extractor(1), Small)>>

\* TC7 of modexps6_tester.c has a run of its own.
s6_without_TC7 == Only(modexps6_tester, <<1, 2, 3, 4, 5, 6, 7, 9>>)

ModexpScenarios ==
    <<On(modexp_tester, Everything), On(modexp_tester, Small),
      Hangs(On(modexp_tester, Everything)),
      Alone(s6_without_TC7, s6), Hangs(Alone(s6_without_TC7, s6)),
      On(modexpa7_driver, <<a7>>), Hangs(On(modexpa7_driver, <<a7>>)),
      On(modexpa7_driver, <<s6>>)>>

DriverScenarios ==
    <<On(sha3_driver, <<sha3>>), Hangs(On(sha3_driver, <<sha3>>)),
      On(ecdsa256_driver, <<Curve(<<"ecds", "a256">>)>>),
      On(ecdsa384_driver, <<Curve(<<"ecds", "a384">>)>>),
      On(ecdhp256_driver, <<Curve(<<"ecdh", "p256">>)>>),
      On(ecdhp384_driver, <<Curve(<<"ecdh", "p384">>)>>)>>

MCScenarios ==
    HashTesterScenarios \o HashScenarios \o CipherScenarios \o ModexpScenarios
    \o DriverScenarios

MCTC7 == <<Alone(Only(modexps6_tester, <<8>>), s6)>>

\* The moments that a program reaches in order.
RECURSIVE Reach(_, _, _)
Reach(sc, seen, front) ==
    IF front = {} THEN seen
    ELSE LET new == UNION {After(sc, m) : m \in front} \ seen
         IN  Reach(sc, seen \cup new, new)

Moments(sc) == Reach(sc, {Start(sc)}, {Start(sc)})

\* The SHA-256 tests of hash_tester.c cannot pass on the core of src/core: in
\* order, each ends with the alarm.
TestsSha256(sc) ==
    {t.steps : t \in ToSet(sc.program.tests)}
        \cap {hash_TC5.steps, hash_TC6.steps, hash_TC7.steps} # {}

ToldApart(sc, m) ==
    TestsSha256(sc) /\ m.place.outcome = "success" /\ Sha256At(sc, m.bases[SHA256])
        => "mode" \in m.alarms

\* What the theorems about the programs assume of them, looked at as a run
\* begins: the program leaves a core alone until it is done, and run in order,
\* every operation over at once, it finds every value it compares right and
\* has the digest of its file at the end - one that prints a digest stops at
\* whatever fails (the bodies of all tests, transmit() and main() of hash.c).
ProgramIsRight ==
    Moment = Start(scenario) /\ slot = 0 /\ stage = "closed" =>
        /\ Patient(scenario) /\ StopsAtOnce(scenario)
        /\ InOrder(scenario, Moments(scenario))
        /\ \A m \in Moments(scenario) : IsRight(scenario, m) /\ ToldApart(scenario, m)

\* A file of 8192 bytes has 65536 bits.
MCLongFile == <<On(hash_program("sha-1", 8192), Scattered)>>
=============================================================================
