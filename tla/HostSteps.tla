------------------------------ MODULE HostSteps ------------------------------
(***************************************************************************)
(* What a test program does is a script: a sequence of steps, each a call  *)
(* of src/core/platform/novena/sw/tc_eim.c (or of the FMC functions the    *)
(* drivers for the STM32 use in its place) or a comparison of what was     *)
(* read.  A test is a script for one of the cores the program looked up;   *)
(* a program is a sequence of tests.  Tests differ in what they do with    *)
(* failures, which is kept in the step and in the test.                    *)
(***************************************************************************)
EXTENDS CrypCore

CONSTANT WaitLimit  \* stands for the 100000000 of tc_wait_ready, tc_wait_valid

ASSUME WaitLimitAssumption == WaitLimit \in Nat /\ WaitLimit > 1

\* A step with nothing in it: do names the call, at the register, val the
\* value written or expected, var the variable written from or read into,
\* bit and limit what is waited for (limit 0: forever), and strict whether a
\* failure of the step makes the test fail.
Step == [do |-> "", at |-> 0, val |-> <<>>, var |-> "", bit |-> "", limit |-> 0,
         strict |-> TRUE]

tc_write(at, val)    == [Step EXCEPT !.do = "write", !.at = at, !.val = val]
tc_read(at, var)     == [Step EXCEPT !.do = "read", !.at = at, !.var = var]
tc_expected(at, val) == [Step EXCEPT !.do = "expect", !.at = at, !.val = val]

tc_init(ctrl) == tc_write(ctrl, <<"init">>)
tc_next(ctrl) == tc_write(ctrl, <<"next">>)

tc_wait(at, bit, limit) ==
    [Step EXCEPT !.do = "wait", !.at = at, !.bit = bit, !.limit = limit]
tc_wait_ready(at) == tc_wait(at, "ready", WaitLimit)
tc_wait_valid(at) == tc_wait(at, "valid", WaitLimit)

\* A write of what was read before, and a comparison of it.
WriteBack(at, var) == [tc_write(at, <<>>) EXCEPT !.var = var]
Compare(var, val)  == [Step EXCEPT !.do = "compare", !.var = var, !.val = val]

\* The caller does not look at what these calls return.
Ignored(steps) == [i \in DOMAIN steps |-> [steps[i] EXCEPT !.strict = FALSE]]

\* A core's name words and version, as the tests that identify a core check.
Identify(name, version) ==
    <<tc_expected(ADDR_NAME, name), tc_expected(ADDR_VERSION, version)>>

\* A test: the core it is for (its place among the program's look-ups, 0 for
\* absolute addresses), its steps, and what follows when it fails: "exit"
\* with a failure, "stop" with success (a test that is repeated), "round"
\* (go on with the next round of the loop), "halt" (while (1)).
Test(core, steps) == [core |-> core, steps |-> steps, onFail |-> "exit"]
OnFail(what, tests) == [i \in DOMAIN tests |-> [tests[i] EXCEPT !.onFail = what]]

\* A program: how it reaches the cores ("eim" or "fmc"), the names it looks
\* up, what it does when one is absent ("skip" its tests, "test" regardless,
\* "abort" or "fail"), its tests, and the test its endless loop begins with
\* (0 for none).  scan, size and reference are for hash.c: its own way to
\* look up, the bytes of the file, and the digest it should print.
Program(lookups, onAbsent, tests) ==
    [bus |-> "eim", lookups |-> lookups, onAbsent |-> onAbsent, tests |-> tests,
     loop |-> 0, scan |-> FALSE, size |-> 0, reference |-> <<>>]

\* -r: one test, repeated until it fails, which is a success.
Repeated(program, n) ==
    [program EXCEPT !.tests = OnFail("stop", <<program.tests[n]>>), !.loop = 1]

\* The tests named on the command line.
Only(program, chosen) ==
    [program EXCEPT !.tests = [i \in DOMAIN chosen |-> program.tests[chosen[i]]]]

\* A driver for the STM32: it checks the core's identity and stops with the
\* red light on when it is another; then its preparations, and its tests in
\* an endless loop that leaves the rest of a round out after a failure.
Driver(identity, preparations, tests) ==
    [Program(<<>>, "test", OnFail("halt", <<Test(0, identity)>> \o preparations)
                           \o OnFail("round", tests))
        EXCEPT !.bus = "fmc", !.loop = Len(preparations) + 2]
=============================================================================
