------------------------------ MODULE MCModExp ------------------------------
(***************************************************************************)
(* Arrays of two words of three bits.  Every odd modulus that leaves room, *)
(* every message, and exponents with leading zeros, with all bits set and  *)
(* with single bits.                                                       *)
(***************************************************************************)
EXTENDS ModExp

MCProblems ==
    [x : 0 .. 9, e : {0, 1, 2, 3, 5, 6, 8, 13, 32, 63}, m : 1 .. 10]
=============================================================================
