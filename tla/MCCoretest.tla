----------------------------- MODULE MCCoretest -----------------------------
(***************************************************************************)
(* CoretestSystem with a core of one address and the commands that tell    *)
(* the behaviours apart.  Data bytes include SOC and EOC.                  *)
(***************************************************************************)
EXTENDS CoretestSystem

MCData      == {"a0", "a1"}
Here        == <<"a0", "a1">>
Nowhere     == <<EOC, SOC>>
MCAddresses == {Here}

Reset       == [op |-> "reset"]
Unknown     == [op |-> "unknown"]
Read(a)     == [op |-> "read", addr |-> a]
Garbled(a)  == [op |-> "garbled", addr |-> a]
Write(a, d) == [op |-> "write", addr |-> a, data |-> d]

\* Commands whose length coretest knows.
Known == {Reset, Read(Here), Read(Nowhere), Garbled(Here),
          Write(Nowhere, ZeroWord), Write(Here, <<SOC, EOC, SOC, "a1">>)}

\* An unknown command leaves its last byte behind.
Any   == {Reset, Read(Here), Garbled(Nowhere), Unknown}
=============================================================================
