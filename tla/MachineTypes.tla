----------------------------- MODULE MachineTypes -----------------------------
(* What the classes share of the machine they run on. *)
EXTENDS Integers

CONSTANTS SizeMod,  \* 2^64: the modulus of size_t
          Garbage   \* a byte read from memory that does not hold one any more

ASSUME SizeModAssumption == SizeMod \in Nat \ {0}

\* size_t addition and subtraction
Plus(a, b) == (a + b) % SizeMod
Difference(a, b) == (a - b) % SizeMod
===============================================================================
