--------------------------- MODULE WrappingIntegers ---------------------------
(***************************************************************************)
(* WrappingInt32 (libsponge/wrapping_integers.{hh,cc}): 32-bit sequence    *)
(* numbers and the absolute 64-bit ones they stand for.  A WrappingInt32   *)
(* is its raw value, a number below SeqMod.                                *)
(***************************************************************************)
EXTENDS Integers

CONSTANT SeqMod  \* 2^32: the modulus of uint32_t

ASSUME SeqModAssumption == SeqMod \in Nat /\ SeqMod > 0 /\ SeqMod % 2 = 0

Half == SeqMod \div 2

Wrap(n, isn) == (isn + n) % SeqMod

\* Mutant of Minus: the difference as a uint32_t.
MinusUnsigned(a, b) == (a - b) % SeqMod

\* operator-: the difference of two raw values as an int32_t.
Minus(a, b) ==
  LET d == (a - b) % SeqMod
  IN  IF d < Half THEN d ELSE d - SeqMod

\* Mutant of Unwrap: the next number at or after the checkpoint.
UnwrapAhead(n, isn, checkpoint) == checkpoint + ((n - Wrap(checkpoint, isn)) % SeqMod)

Unwrap(n, isn, checkpoint) ==
  LET rst == checkpoint - Minus(Wrap(checkpoint, isn), n)
  IN  IF rst < 0 THEN rst + SeqMod ELSE rst

\* How far apart two numbers are; unwrap()'s comment speaks of the closest one.
Distance(a, b) == IF a <= b THEN b - a ELSE a - b
===============================================================================
