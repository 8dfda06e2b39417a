------------------------------- MODULE Orderly -------------------------------
(***************************************************************************)
(* The programs of Host as they are meant: in order, every operation of a  *)
(* core over as soon as it begins, every wait answered, however long it    *)
(* takes, and as many rounds as one likes.  What is left of the state is a *)
(* moment: the bases looked up, the cores, the variables, the place in the *)
(* script and the alarms raised.                                           *)
(*                                                                         *)
(* A run of Host in which no wait is given up and no access goes astray is *)
(* a run of this program (RunsInOrder).                                    *)
(***************************************************************************)
EXTENDS Patience

\* The core once it has finished what it is doing.
Settled(c) == IF c.op = "none" THEN c ELSE Finished(c)

-----------------------------------------------------------------------------
(* Places in the script.                                                   *)

At(t, s) == [test |-> t, step |-> s, outcome |-> "running"]

TestAt(sc, p) == sc.program.tests[p.test]
StepAt(sc, p) == TestAt(sc, p).steps[p.step]

\* The last test is followed by the end or by another round.
RoundOver(sc, p) ==
    {[p EXCEPT !.step = 1, !.outcome = "success"]}
    \cup (IF sc.program.loop = 0 THEN {} ELSE {At(sc.program.loop, 1)})

TestOver(sc, p) ==
    IF p.test < Len(sc.program.tests) THEN {At(p.test + 1, 1)} ELSE RoundOver(sc, p)

StepOver(sc, p) ==
    IF p.step < Len(TestAt(sc, p).steps) THEN {At(p.test, p.step + 1)} ELSE TestOver(sc, p)

TestFailed(sc, p) ==
    CASE TestAt(sc, p).onFail = "round" -> RoundOver(sc, p)
      [] TestAt(sc, p).onFail = "exit"  -> {[p EXCEPT !.step = 1, !.outcome = "failure"]}
      [] TestAt(sc, p).onFail = "stop"  -> {[p EXCEPT !.step = 1, !.outcome = "success"]}
      [] TestAt(sc, p).onFail = "halt"  -> {[p EXCEPT !.step = 1, !.outcome = "halted"]}

StepFailed(sc, p) ==
    IF StepAt(sc, p).strict THEN TestFailed(sc, p) ELSE StepOver(sc, p)

-----------------------------------------------------------------------------
(* Moments.                                                                *)

\* A look-up finds one of the cores of the name, or none.
BasesOf(sc, name) ==
    {0} \cup {(i - 1) * CORE_SIZE :
                i \in {i \in DOMAIN sc.fabric : IsPrefix(name, sc.fabric[i].name)}}

LookedUp(sc, b) ==
    (IF sc.program.scan THEN {"crashed"} ELSE {})
    \cup {CASE b = 0 /\ sc.program.onAbsent = "abort" -> "aborted"
            [] b = 0 /\ sc.program.onAbsent = "fail"  -> "failure"
            [] OTHER -> "running"}

LookingUp(sc, m) ==
    UNION {{[m EXCEPT !.bases = Append(@, b), !.place.outcome = o] : o \in LookedUp(sc, b)} :
           b \in BasesOf(sc, sc.program.lookups[Len(m.bases) + 1])}

\* The core the test accesses.
BaseAt(sc, m)   == IF TestAt(sc, m.place).core = 0 THEN 0
                   ELSE m.bases[TestAt(sc, m.place).core]
TargetAt(sc, m) == BaseAt(sc, m) \div CORE_SIZE + 1

IsSkipped(sc, m) ==
    /\ sc.program.onAbsent = "skip" /\ ~sc.quiet
    /\ TestAt(sc, m.place).core # 0 /\ BaseAt(sc, m) = 0

\* What follows a comparison of the value v.
Compared(sc, m, s, v) ==
    IF v = s.val THEN {[m EXCEPT !.place = q] : q \in StepOver(sc, m.place)}
    ELSE {[m EXCEPT !.place = q, !.alarms = @ \cup {AlarmOf(s, v)}] :
             q \in StepFailed(sc, m.place)}

\* What follows an access to core i: a write's operation is over at once.
Accessed(sc, m, s, i) ==
    LET c    == m.cores[i]
        v    == IF s.var = "" THEN s.val ELSE m.env[s.var]
        read == [m EXCEPT !.cores[i] = AfterRead(c, s.at)]
        Over(n) == {[n EXCEPT !.place = q] : q \in StepOver(sc, m.place)}
    IN  CASE s.do = "write"  -> Over([m EXCEPT !.cores[i] = Settled(Write(c, s.at, v))])
          [] s.do = "read"   -> Over([read EXCEPT !.env = Put(@, s.var, ValueAt(c, s.at))])
          [] s.do = "expect" -> Compared(sc, read, s, ValueAt(c, s.at))
          [] s.do = "wait"   -> Over(m)
          [] OTHER           -> {}

\* The moments that may follow: a step of the program, or its exit because
\* the bus cannot be set up or mapped.
After(sc, m) ==
    IF m.place.outcome # "running" THEN {}
    ELSE {[m EXCEPT !.place.outcome = "failure"]}
         \cup (IF Len(m.bases) < Len(sc.program.lookups) THEN LookingUp(sc, m)
               ELSE IF IsSkipped(sc, m)
               THEN {[m EXCEPT !.place = q] : q \in TestOver(sc, m.place)}
               ELSE LET s == StepAt(sc, m.place)
                        i == TargetAt(sc, m)
                    IN  IF s.do = "compare"
                        THEN Compared(sc, m, s, m.env[s.var])
                        ELSE IF Meant(sc, TestAt(sc, m.place), i)
                        THEN Accessed(sc, m, s, i) ELSE {})

Start(sc) ==
    [bases |-> <<>>,
     cores |-> [i \in DOMAIN sc.fabric |->
                    NewCore(sc.fabric[i].kind, sc.fabric[i].name, sc.fabric[i].version)],
     env |-> [v \in {} |-> <<>>], place |-> At(1, 1), alarms |-> {}]

\* A set of moments that holds all those of the program.
InOrder(sc, R) == Start(sc) \in R /\ \A m \in R : After(sc, m) \subseteq R

\* The program, run in order, has not compared a value wrongly, but for the
\* mode bit where it leaves that out, and has the digest of the file that is
\* due when it is over (Host.NoFalseAlarm, Host.DigestIsRight).
IsRight(sc, m) ==
    /\ "value" \notin m.alarms
    /\ "mode" \in m.alarms => LeavesModeOut(sc)
    /\ m.place.outcome = "success" /\ sc.program.reference # <<>> /\ sc.program.size < 8192
         => m.env["digest"] = DigestDue(sc, m.bases)

\* A program that prints a digest does not when anything fails.
StopsAtOnce(sc) ==
    sc.program.reference # <<>> =>
        /\ ~sc.quiet /\ sc.program.onAbsent # "test"
        /\ \A t \in ToSet(sc.program.tests) :
              t.onFail \in {"exit", "halt"} /\ \A s \in ToSet(t.steps) : s.strict

-----------------------------------------------------------------------------
(* The moment a run of Host is at, and the runs that are in order.         *)

Moment ==
    [bases |-> bases,
     cores |-> [i \in DOMAIN cores |-> Settled(cores[i])],
     env |-> env, place |-> [test |-> test, step |-> step, outcome |-> outcome],
     alarms |-> log.alarms]

\* A wait was given up or the bus failed, or another core was accessed.
Excused == log.late \/ log.stray

\* The cores' timing is not seen: until a wait is given up or an access goes
\* astray, every step of the host, whatever the cores do meanwhile and
\* however the bus is mapped, is one of the program in order or none at all
\* (tc_wait_ready and tc_wait_valid in the bodies of all tests).
RunsInOrder ==
    [][Moment' \in After(scenario, Moment) \cup {Moment} \/ Excused']_vars
=============================================================================
