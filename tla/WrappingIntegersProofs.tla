------------------------ MODULE WrappingIntegersProofs ------------------------
(***************************************************************************)
(* Theorems about WrappingIntegers for every even modulus, 2^32 included,  *)
(* every initial sequence number and every checkpoint.                     *)
(***************************************************************************)
EXTENDS CommonLemmas

\* No other number that wraps alike is nearer to the checkpoint.
LEMMA UnwrapNearest ==
  ASSUME NEW i \in Int, NEW a \in Nat, NEW c \in Nat
  PROVE  Distance(Unwrap(Wrap(a, i), i, c), c) <= Distance(a, c)
<1> DEFINE u == Unwrap(Wrap(a, i), i, c)
<1>1. PICK m \in -Half..Half - 1, k \in Int :
        /\ c - a = k * SeqMod + m
        /\ u = IF c - m < 0 THEN c - m + SeqMod ELSE c - m
  BY UnwrapShifts
<1> HIDE DEF u
<1> DEFINE shift == k * SeqMod
<1>2. /\ m \in Int /\ shift \in Int /\ c - a = shift + m
      /\ k >= 1 => shift >= SeqMod
      /\ k <= -1 => shift <= -SeqMod
      /\ k = 0 => shift = 0
  BY <1>1, HalfOfSeqMod, MultiplesApart
<1> HIDE DEF shift
<1>3. CASE c - m < 0
  <2>1. k <= -1
    BY <1>2, <1>3, HalfOfSeqMod
  <2> QED
    BY <1>1, <1>2, <1>3, <2>1, HalfOfSeqMod DEF Distance, u
<1>4. CASE ~(c - m < 0)
  BY <1>1, <1>2, <1>4, HalfOfSeqMod DEF Distance, u
<1> QED
  BY <1>3, <1>4

\* unwrap() undoes wrap() for every number less than half the sequence space before the
\* checkpoint or at most half the space after it, however close to 0 the checkpoint is.
THEOREM RoundTripCorrect ==
  ASSUME NEW isn \in 0..SeqMod - 1, NEW checkpoint \in Nat, NEW absolute \in Nat,
         checkpoint - absolute < Half, absolute - checkpoint <= Half
  PROVE  Unwrap(Wrap(absolute, isn), isn, checkpoint) = absolute
<1>1. isn \in Int
  BY SeqModAssumption
<1> QED
  BY <1>1, UnwrapNear

\* unwrap() returns an unsigned number, of all that wrap alike the one closest to the
\* checkpoint.
THEOREM ClosestCorrect ==
  ASSUME NEW isn \in 0..SeqMod - 1, NEW checkpoint \in Nat, NEW absolute \in Nat
  PROVE  LET found == Unwrap(Wrap(absolute, isn), isn, checkpoint)
         IN  /\ found \in Nat /\ Wrap(found, isn) = Wrap(absolute, isn)
             /\ Distance(found, checkpoint) <= Distance(absolute, checkpoint)
<1>1. isn \in Int
  BY SeqModAssumption
<1> QED
  BY <1>1, UnwrapInverts, UnwrapNearest
===============================================================================
