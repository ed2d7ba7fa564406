---------------------------- MODULE OrderedDelivery ----------------------------
(***************************************************************************)
(* What a reassembler promises to a peer that respects its window: bytes   *)
(* may arrive in any order, the reader sees each exactly once and in       *)
(* order, as soon as all before it are there; nothing outside the window   *)
(* is kept; and the stream closes exactly when its last byte is in place.  *)
(***************************************************************************)
EXTENDS Integers

CONSTANTS Capacity, StreamLen

VARIABLES have,      \* indices of the bytes the reassembler holds or has passed on
          front,     \* bytes passed on to the reader's side
          taken,     \* bytes the reader took
          finKnown,  \* the length of the stream is known
          closed     \* the reader's side was closed

Promise == <<have, front, taken, finKnown, closed>>

Window == (front..taken + Capacity - 1) \cap (0..StreamLen - 1)

Init ==
  /\ have = {} /\ front = 0 /\ taken = 0
  /\ finKnown = FALSE /\ closed = FALSE

Arrive ==
  /\ \E S \in SUBSET Window : have' = have \cup S
  /\ finKnown' \in {finKnown, TRUE}
  /\ front' \in 0..StreamLen
  /\ 0..front' - 1 \subseteq have' /\ front' \notin have'
  /\ closed' = (finKnown' /\ front' = StreamLen)
  /\ UNCHANGED taken

Take ==
  /\ taken' \in taken + 1..front
  /\ UNCHANGED <<have, front, finKnown, closed>>

Next == Arrive \/ Take

Spec == Init /\ [][Next]_Promise
===============================================================================
