------------------------------ MODULE CrypCore ------------------------------
(***************************************************************************)
(* The cores as the host software sees them: registers behind a bus, a     *)
(* command register, two status bits and an operation that takes its time. *)
(* What differs between cores is how they take commands (a pulse for every *)
(* write, or a rising edge of a level), which flags an operation clears    *)
(* and sets, and what it computes.  What a register or a bank of registers *)
(* holds is a sequence of strings.  Results are symbolic: the operands they*)
(* were computed from, so a stale or wrong operand shows.                  *)
(*                                                                         *)
(* The bus is slower than the few cycles a core needs to react, so a       *)
(* command has cleared the flags before the next access.                   *)
(***************************************************************************)
EXTENDS Integers, SequencesExt

\* Registers common to all cores (the name is two words, 0 and 1).
ADDR_NAME        == 0
ADDR_VERSION     == 2
ADDR_CTRL        == 8
ADDR_STATUS      == 9
BOARD_ADDR_DUMMY == 255

\* Hash cores.
ADDR_BLOCK         == 16
ADDR_DIGEST        == 32
SHA512_ADDR_DIGEST == 64

\* Sources of random words, as cryptech.h has them.  The cores themselves have
\* nothing at the first address: their status is at ADDR_STATUS.
RNG_ADDR_STATUS == 17
RNG_ADDR_RANDOM == 32

\* AES, whose key, block and result are written and read word by word.
AES_ADDR_CONFIG == 10
AES_ADDR_KEY    == 16
AES_ADDR_BLOCK  == 32
AES_ADDR_RESULT == 48

\* The modexp core: lengths, and memories behind a pointer and a data port.
MODEXP_MODULUS_LENGTH   == 32
MODEXP_EXPONENT_LENGTH  == 33
MODEXP_MODULUS_PTR_RST  == 48
MODEXP_EXPONENT_PTR_RST == 64
MODEXP_MESSAGE_PTR_RST  == 80
MODEXP_RESULT_PTR_RST   == 96
DataPort(ptr)           == ptr + 1

\* modexps6 and modexpa7: modes, widths and banks.
MODE           == 16
MODULUS_BITS   == 17
EXPONENT_BITS  == 18
S6_MODULUS     == 512
S6_MESSAGE     == 640
S6_EXPONENT    == 768
S6_RESULT      == 896
A7_MODULUS     == 1024
A7_MESSAGE     == 1152
A7_EXPONENT    == 1280
A7_RESULT      == 1408
A7_COEFF_OUT   == 1536
A7_COEFF_IN    == 1664
A7_FACTOR_OUT  == 1792
A7_FACTOR_IN   == 1920

\* SHA-3 and the elliptic curve multipliers (ECDH, 256 bits).
SHA3_BLOCK == 128
SHA3_STATE == 192
EC_K       == 64
EC_XIN     == 72
EC_YIN     == 80
EC_XOUT    == 88
EC_YOUT    == 96

-----------------------------------------------------------------------------
\* kind selects a core's behaviour: "plain" stands for the board's registers
\* and for cores of which the software uses no command.  "sha256" is the
\* SHA-256 core as it is in src/core, whose command register has a mode bit;
\* "sha" are the other SHA-1 and SHA-2 cores, the SHA-256 core of the older
\* interface among them.
Kinds == {"plain", "sha", "sha256", "keccak", "aes", "modexp", "modexps6", "modexpa7", "ec"}

HashCores == {"sha", "sha256"}

\* A core after reset.
NewCore(kind, name, version) ==
    [kind  |-> kind,
     reg   |-> [a \in {ADDR_NAME, ADDR_VERSION} |-> IF a = ADDR_NAME THEN name ELSE version],
     ctl   |-> <<>>,                \* the command register
     op    |-> "none",              \* the operation in progress
     ready |-> kind \in HashCores \cup {"aes", "modexp", "keccak", "ec"},
     valid |-> kind \in {"keccak", "ec"},
     ptr   |-> [p \in {} |-> 0],    \* pointers of the memories of modexp
     acc   |-> IF kind = "ec" THEN <<"G">> ELSE <<>>]
                                    \* what the core keeps between operations

Reg(c, a) == IF a \in DOMAIN c.reg THEN c.reg[a] ELSE <<>>

\* A function with another value at x, which may be new to it.
Put(f, x, v) == [y \in DOMAIN f \cup {x} |-> IF y = x THEN v ELSE f[y]]

Keep(c, a, v) == [c EXCEPT !.reg = Put(@, a, v)]

Bits(w) == ToSet(w) \cap {"init", "next"}

\* Cores that start an operation for every command written, and those that
\* watch the bits of their command register for a rising edge.
Pulsed == HashCores \cup {"aes", "modexp"}

\* The operations a write of w to the command register asks for.
Asked(c, w) == IF c.kind \in Pulsed THEN Bits(w) ELSE Bits(w) \ Bits(c.ctl)

\* The operation that begins: none while one is in progress, init first.
Begun(c, w) ==
    IF c.op # "none" \/ c.kind = "plain" \/ Asked(c, w) = {} THEN "none"
    ELSE IF "init" \in Asked(c, w) THEN "init" ELSE "next"

\* The flags while op is in progress.
ReadyDuring(c, op) == \/ c.kind \in {"keccak", "ec"}
                      \/ c.kind = "modexpa7" /\ op = "next" /\ c.ready
ValidDuring(c, op) == c.kind = "modexpa7" /\ op = "init" /\ c.valid

\* modexps6 lowers a flag once the bit it answers has been cleared.
Lowered(c, w) ==
    IF c.kind = "modexps6" /\ c.op = "none"
    THEN [c EXCEPT !.ready = @ /\ "init" \in Bits(w),
                   !.valid = @ /\ "next" \in Bits(w)]
    ELSE c

\* The hash cores take no write while they work.
Deaf(c) == c.kind \in HashCores /\ c.op # "none"

\* A write to the command register.
Command(c, w) ==
    LET op == Begun(c, w)
    IN  IF c.kind = "plain" \/ Deaf(c) THEN c
        ELSE IF op = "none" THEN [Lowered(c, w) EXCEPT !.ctl = w]
        ELSE [c EXCEPT !.ctl = w, !.op = op,
                       !.ready = ReadyDuring(c, op), !.valid = ValidDuring(c, op)]

\* Words written from position n on, over what a bank held.
Overlay(old, n, v) ==
    SubSeq(old, 1, n) \o v \o SubSeq(old, n + Len(v) + 1, Len(old))

Pointer(c, p) == IF p \in DOMAIN c.ptr THEN c.ptr[p] ELSE 0
SetPointer(c, p, n) == [c EXCEPT !.ptr = Put(@, p, n)]

PointerRegisters == {MODEXP_MODULUS_PTR_RST, MODEXP_EXPONENT_PTR_RST,
                     MODEXP_MESSAGE_PTR_RST, MODEXP_RESULT_PTR_RST}

\* A write to another register: the modexp core's data ports advance their
\* pointer.
WriteRegister(c, a, v) ==
    CASE Deaf(c) -> c
      [] c.kind = "plain" /\ a # BOARD_ADDR_DUMMY -> c
      [] c.kind = "modexp" /\ a \in PointerRegisters -> SetPointer(c, a, 0)
      [] c.kind = "modexp" /\ a - 1 \in PointerRegisters ->
            SetPointer(Keep(c, a, Overlay(Reg(c, a), Pointer(c, a - 1), v)),
                       a - 1, Pointer(c, a - 1) + Len(v))
      [] c.kind = "keccak" /\ a = SHA3_BLOCK -> Keep(c, a, Overlay(Reg(c, a), 0, v))
      [] c.kind = "keccak" /\ a = SHA3_STATE -> c
      [] OTHER -> Keep(c, a, v)

Write(c, a, v) == IF a = ADDR_CTRL THEN Command(c, v) ELSE WriteRegister(c, a, v)

-----------------------------------------------------------------------------
(* Operations.  The banks of modexps6 and modexpa7 hold the least          *)
(* significant word first, those of the modexp core the most significant.  *)

\* AES under a key expanded for one key length: decryption undoes encryption
\* under the same key, and gives nonsense else.
Cipher(config, expanded, block) ==
    LET length == Head(config)
        sealed == <<"enc">> \o expanded
    IN  IF Head(expanded) # length THEN <<"nonsense">>
        ELSE IF config[2] = "enc"  THEN sealed \o block
        ELSE IF SubSeq(block, 1, Len(sealed)) = sealed
             THEN SubSeq(block, Len(sealed) + 1, Len(block))
             ELSE <<"dec">> \o expanded \o block

PowMod(message, exponent, modulus) ==
    <<"pow">> \o message \o exponent \o modulus

\* Multiples of a curve point.  A point is a pair of coordinates; what they
\* hold is the set of scalars multiplied into the base point G, whose order
\* is n, and zeros at infinity.
Infinity == {}
Scale(k, point) ==
    IF k \in {"0", "n"} \/ point = Infinity THEN Infinity
    ELSE CASE k \in {"1", "n+1"} -> point
           [] k = "n+2"          -> point \cup {"2"}
           [] OTHER              -> point \cup {k}

Coordinate(axis, point) ==
    IF point = Infinity THEN <<"0">> ELSE <<axis>> \o SetToSeq(point)
PointOf(x) == IF x = <<"0">> THEN Infinity ELSE ToSet(Tail(x))

\* The first words of a memory behind a pointer; a length is in words.
PortContents(c, ptr, n) == SubSeq(Reg(c, DataPort(ptr)), 1, n)

\* What a digest starts from.  The mode bit is taken from the very write that
\* begins the operation: without it the SHA-256 core starts a SHA-224.  The
\* SHA-512 core's modes are words of the same write.
InitialValue(c) ==
    IF c.kind = "sha256"
    THEN IF "mode" \in ToSet(c.ctl) THEN <<>> ELSE <<"SHA-224">>
    ELSE SelectSeq(c.ctl, LAMBDA m : m \notin {"init", "next"})

\* What the operation in progress leaves in the registers and in acc.
Computed(c) ==
    CASE c.kind \in HashCores ->
            LET a == (IF c.op = "init" THEN InitialValue(c) ELSE c.acc) \o Reg(c, ADDR_BLOCK)
            IN  [Keep(Keep(c, ADDR_DIGEST, a), SHA512_ADDR_DIGEST, a) EXCEPT !.acc = a]
      [] c.kind = "keccak" ->
            LET a == (IF c.op = "init" THEN <<>> ELSE c.acc) \o Reg(c, SHA3_BLOCK)
            IN  [Keep(c, SHA3_STATE, a) EXCEPT !.acc = a]
      [] c.kind = "aes" ->
            IF c.op = "init"
            THEN [c EXCEPT !.acc = <<Head(Reg(c, AES_ADDR_CONFIG))>> \o Reg(c, AES_ADDR_KEY)]
            ELSE Keep(c, AES_ADDR_RESULT,
                      Cipher(Reg(c, AES_ADDR_CONFIG), c.acc, Reg(c, AES_ADDR_BLOCK)))
      [] c.kind = "modexp" ->
            LET n == Len(Reg(c, MODEXP_MODULUS_LENGTH))
                e == Len(Reg(c, MODEXP_EXPONENT_LENGTH))
            IN  Keep(c, DataPort(MODEXP_RESULT_PTR_RST),
                     PowMod(PortContents(c, MODEXP_MESSAGE_PTR_RST, n),
                            PortContents(c, MODEXP_EXPONENT_PTR_RST, e),
                            PortContents(c, MODEXP_MODULUS_PTR_RST, n)))
      [] c.kind = "modexps6" ->
            IF c.op = "init" THEN [c EXCEPT !.acc = Reg(c, S6_MODULUS)]
            ELSE Keep(c, S6_RESULT,
                      IF c.acc = Reg(c, S6_MODULUS)
                      THEN Reverse(PowMod(Reverse(Reg(c, S6_MESSAGE)),
                                  Reverse(Reg(c, S6_EXPONENT)) \o Reg(c, EXPONENT_BITS),
                                  Reverse(Reg(c, S6_MODULUS)) \o Reg(c, MODULUS_BITS)))
                      ELSE <<"nonsense">>)
      [] c.kind = "modexpa7" ->
            IF c.op = "init"
            THEN Keep(Keep(c, A7_COEFF_OUT, <<"coeff">> \o Reg(c, A7_MODULUS)),
                      A7_FACTOR_OUT, <<"factor">> \o Reg(c, A7_MODULUS))
            ELSE Keep(c, A7_RESULT,
                      IF /\ Reg(c, A7_COEFF_IN) = <<"coeff">> \o Reg(c, A7_MODULUS)
                         /\ Reg(c, A7_FACTOR_IN) = <<"factor">> \o Reg(c, A7_MODULUS)
                      THEN Reverse(PowMod(Reverse(Reg(c, A7_MESSAGE)) \o Reg(c, MODE),
                                  Reverse(Reg(c, A7_EXPONENT)) \o Reg(c, EXPONENT_BITS),
                                  Reverse(Reg(c, A7_MODULUS)) \o Reg(c, MODULUS_BITS)))
                      ELSE <<"nonsense">>)
      [] c.kind = "ec" ->
            LET p == Scale(Head(Reg(c, EC_K)),
                           IF Reg(c, EC_XIN) = <<>> THEN ToSet(c.acc)
                                                    ELSE PointOf(Reg(c, EC_XIN)))
            IN  Keep(Keep(c, EC_XOUT, Coordinate("x", p)), EC_YOUT, Coordinate("y", p))

\* The operation ends.
Finished(c) ==
    LET d == Computed(c)
    IN  [d EXCEPT
          !.op = "none",
          !.ready = CASE c.kind = "modexps6" -> c.op = "init" /\ "init" \in Bits(c.ctl)
                      [] c.kind = "modexpa7" -> c.ready \/ c.op = "init"
                      [] OTHER -> TRUE,
          !.valid = CASE c.kind = "aes" -> c.op = "next"
                      [] c.kind = "modexps6" -> c.op = "next" /\ "next" \in Bits(c.ctl)
                      [] c.kind = "modexpa7" -> c.valid \/ c.op = "next"
                      [] c.kind = "modexp" -> FALSE
                      [] OTHER -> TRUE]

-----------------------------------------------------------------------------
(* Reads.                                                                  *)

\* The value a read returns: a hash core shows its digest only when ready,
\* but for the SHA-256 core, which shows the last one meanwhile; the modexp
\* core its result from the pointer on.
ValueAt(c, a) ==
    CASE c.kind = "sha" /\ ~c.ready /\ a \in {ADDR_DIGEST, SHA512_ADDR_DIGEST} -> <<>>
      [] c.kind = "modexp" /\ a = DataPort(MODEXP_RESULT_PTR_RST) ->
            IF Pointer(c, a - 1) = 0 THEN Reg(c, a) ELSE <<"nonsense">>
      [] OTHER -> Reg(c, a)

\* The status bits that are up in a register.
StatusBits(c, a) ==
    {b \in {"ready", "valid"} :
        /\ c.kind # "plain" /\ a = ADDR_STATUS
        /\ b = "ready" => c.ready
        /\ b = "valid" => c.valid}

\* What a read changes: the pointer of the modexp core's result moves.
AfterRead(c, a) ==
    IF c.kind = "modexp" /\ a = DataPort(MODEXP_RESULT_PTR_RST)
    THEN SetPointer(c, a - 1, Len(Reg(c, a)))
    ELSE c
=============================================================================
