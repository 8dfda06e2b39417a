------------------------------ MODULE Patience ------------------------------
(***************************************************************************)
(* Scripts that are patient: they leave a core alone until its status has  *)
(* shown that the operation it was told to begin is over.  Whether a       *)
(* script is, is seen in its text, test by test: nothing is run.  TC7 of   *)
(* modexps6_tester.c is the one script in the repository that is not.      *)
(***************************************************************************)
EXTENDS Host

\* The status bits that are down as long as the operation is in progress.
Signals(kind, op) ==
    CASE kind \in {"keccak", "ec"} -> {"valid"}
      [] kind = "modexpa7"         -> IF op = "init" THEN {"ready"} ELSE {"valid"}
      [] OTHER                     -> {"ready", "valid"}

Writes(s, at) == s.do = "write" /\ s.at = at
Commands(s)   == Writes(s, ADDR_CTRL) /\ Bits(s.val) # {}

\* A step that passes only when the operation step c began is over.
Shows(kind, c, s) ==
    /\ s.do = "wait" /\ s.at = ADDR_STATUS
    /\ \A op \in Bits(c.val) : s.bit \in Signals(kind, op)

\* The operation that step k of a test began may be in progress at step m.
Pending(kind, t, k, m) ==
    /\ k \in 1 .. m - 1 /\ Commands(t.steps[k])
    /\ \A j \in k + 1 .. m - 1 : ~Shows(kind, t.steps[k], t.steps[j])

\* Step j is the last write at a register before step m.
LastWrite(t, at, j, m) ==
    /\ j \in 1 .. m - 1 /\ Writes(t.steps[j], at)
    /\ \A l \in j + 1 .. m - 1 : ~Writes(t.steps[l], at)

\* The key length of AES is written over with the one that is there.
SameLength(t, m) ==
    \E j \in 1 .. m - 1 :
        /\ LastWrite(t, AES_ADDR_CONFIG, j, m)
        /\ t.steps[j].var = "" /\ t.steps[m].var = ""
        /\ Head(t.steps[j].val) = Head(t.steps[m].val)

\* Step m may come while the operation of step k is in progress: a wait, a
\* comparison that has no consequence, and while AES expands its key, the
\* block and the direction, and the next command, which the bus delays.
Harmless(kind, t, k, m) ==
    LET s == t.steps[m]
    IN  \/ s.do = "wait"
        \/ s.do = "compare" /\ ~s.strict
        \/ /\ kind = "aes" /\ Bits(t.steps[k].val) = {"init"}
           /\ \/ Writes(s, ADDR_CTRL)
              \/ Writes(s, AES_ADDR_BLOCK)
              \/ Writes(s, AES_ADDR_CONFIG) /\ SameLength(t, m)

\* A test ends after its last step, and at a comparison that it must pass.
Endpoint(t, m) ==
    \/ m = Len(t.steps) + 1
    \/ /\ m \in DOMAIN t.steps /\ t.steps[m].strict
       /\ t.steps[m].do \in {"expect", "compare"}

\* The commands a test may leave in the command register, and those that may
\* be there at step m: what the test wrote last, or what another one left.
Left(sc) ==
    {{}} \cup
    UNION {{Bits(t.steps[j].val) :
                j \in {j \in DOMAIN t.steps : \E m \in 1 .. Len(t.steps) + 1 :
                           Endpoint(t, m) /\ LastWrite(t, ADDR_CTRL, j, m)}} :
           t \in ToSet(sc.program.tests)}
ControlAt(sc, t, m) ==
    IF \E j \in 1 .. m - 1 : LastWrite(t, ADDR_CTRL, j, m)
    THEN {Bits(t.steps[j].val) : j \in {j \in 1 .. m - 1 : LastWrite(t, ADDR_CTRL, j, m)}}
    ELSE Left(sc)

\* A command is one the core has, and is a rising edge where it must be.
Audible(sc, t, kind, m) ==
    Commands(t.steps[m]) =>
        /\ kind # "plain"
        /\ kind \notin Pulsed =>
             \A b \in ControlAt(sc, t, m) : Bits(t.steps[m].val) \ b # {}

PatientTest(sc, t, kind) ==
    /\ \A m \in DOMAIN t.steps : Audible(sc, t, kind, m)
    /\ \A m \in DOMAIN t.steps : \A k \in 1 .. m - 1 :
          Pending(kind, t, k, m) => Harmless(kind, t, k, m)
    /\ \A k \in DOMAIN t.steps : ~Pending(kind, t, k, Len(t.steps) + 1)

\* Where a script's accesses go: a program without look-ups has the core to
\* itself, and a lone core has the addresses of one segment.
AddressesCore(sc) ==
    /\ sc.fabric # <<>>
    /\ sc.program.lookups = <<>> /\ sc.program.bus = "eim" => sc.alone
    /\ \A t \in ToSet(sc.program.tests) : \A s \in ToSet(t.steps) :
          /\ sc.alone => s.at < 32 * CORE_SIZE
          /\ Writes(s, ADDR_CTRL) => s.var = ""

Patient(sc) ==
    /\ AddressesCore(sc)
    /\ \A t \in ToSet(sc.program.tests) : \A i \in DOMAIN sc.fabric :
          Meant(sc, t, i) => PatientTest(sc, t, sc.fabric[i].kind)
=============================================================================
