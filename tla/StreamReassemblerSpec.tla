------------------------ MODULE StreamReassemblerSpec ------------------------
(***************************************************************************)
(* One StreamReassembler between a peer that pushes slices of a stream of  *)
(* StreamLen bytes, in any order and as often as it likes, and a reader of *)
(* its output.  A byte is the pair of its index and a version: a peer that *)
(* is not polite may send an index again with other contents (only the     *)
(* version differs) and may run ahead of the window.                       *)
(***************************************************************************)
EXTENDS StreamReassembler

CONSTANTS Capacity,   \* the argument of the constructor
          StreamLen,  \* bound: length of the peer's stream
          MaxPush,    \* bound: longest substring
          Versions,   \* the contents an index may be sent with; a polite peer's is 0
          Manners,    \* may the peer be polite (TRUE), impolite (FALSE)?
          Junk        \* how many bytes of a freed string may be overwritten

ASSUME CapacityAssumption == Capacity \in Nat
ASSUME StreamAssumption == StreamLen \in Nat /\ MaxPush \in Nat /\ 0 \in Versions /\ Manners \subseteq BOOLEAN
ASSUME WidthAssumption == SizeMod \in Nat /\ SizeMod > StreamLen + MaxPush + Capacity
ASSUME JunkAssumption == Junk \subseteq Nat
ASSUME GarbageAssumption == Garbage \notin (0..StreamLen) \X Versions

VARIABLES r, delivered,
          polite  \* the peer stays inside the window and never changes its mind

vars == <<r, delivered, polite>>

Slice(index, len, version) == [j \in 1..len |-> <<index + j - 1, version>>]

\* What the owner reports to the peer as the right edge of the window.
FirstUnacceptable == r.exIdx + r.capacity - r.output.size

Init ==
  /\ r = NewStreamReassembler(Capacity)
  /\ delivered = <<>>
  /\ polite \in Manners

Push(index, len, version, eof, junk) ==
  /\ index + len <= StreamLen
  /\ eof => index + len = StreamLen
  /\ polite => index + len <= FirstUnacceptable /\ version = 0
  /\ r' = PushSubstring(r, Slice(index, len, version), index, eof, junk)
  /\ UNCHANGED <<delivered, polite>>

Read(len) ==
  /\ len <= r.output.size
  /\ delivered' = delivered \o PeekOutput(r.output, len)
  /\ r' = [r EXCEPT !.output = PopOutput(@, len)]
  /\ UNCHANGED polite

PushAny ==
  \E index \in 0..StreamLen, len \in 0..MaxPush, version \in Versions, eof \in BOOLEAN, junk \in Junk :
    Push(index, len, version, eof, junk)

ReadAny == \E len \in 1..Capacity : Read(len)

Next == PushAny \/ ReadAny

Spec == Init /\ [][Next]_vars

\* The peer's TCPSender retransmits the oldest byte that was not acknowledged until it is.
PushOldest ==
  \E junk \in Junk : Push(r.exIdx, 1, 0, r.exIdx + 1 = StreamLen, junk)

\* ENABLED <<PushOldest>>_vars, written out.
OldestExpected ==
  /\ r.exIdx < StreamLen
  /\ polite => r.exIdx < FirstUnacceptable
  /\ \E junk \in Junk : r # PushSubstring(r, Slice(r.exIdx, 1, 0), r.exIdx, r.exIdx + 1 = StreamLen, junk)

\* Weak fairness of the reader and of PushOldest.
FairSpec ==
  /\ Spec
  /\ WF_vars(ReadAny)
  /\ []<>(~OldestExpected) \/ []<><<PushOldest>>_vars

(* Properties *)

Stored == UNION {k..TailIdx(r.strs, k) - 1 : k \in DOMAIN r.strs}

\* The members of the class have their C++ types.
TypeOK ==
  /\ r.exIdx \in Nat /\ r.eofIdx \in Nat /\ r.unassembledSize \in Nat
  /\ r.eofSignRecv \in BOOLEAN
  /\ DOMAIN r.strs \subseteq Nat
  /\ \A k \in DOMAIN r.strs :
       r.strs[k] \in Seq(((0..StreamLen) \X Versions) \cup {Garbage})

\* The map stays what cutData() and the push loop assume of it: no empty string, no two
\* strings on one index, nothing before _exIdx, which counts what the output took.
MapWellFormed ==
  /\ \A k \in DOMAIN r.strs :
       /\ r.strs[k] # <<>> /\ k >= r.exIdx
       /\ \A j \in DOMAIN r.strs : j < k => TailIdx(r.strs, j) <= k
  /\ r.exIdx = r.output.numWritten

\* The output ends exactly when the announced end is reached: not while a byte is
\* missing, and not later than the push that brings the last byte or the eof flag.
EndsExactlyAtEof == r.output.isInputEnd <=> r.eofSignRecv /\ r.exIdx = StreamLen

\* The byte at every place of the output is a byte the peer sent for that index.
DeliveredInOrder ==
  LET all == delivered \o r.output.buf
  IN  \A i \in 1..Len(all) : all[i] # Garbage /\ all[i][1] = i - 1

\* A peer inside the window gets that: push_substring() needs no window check of its own as
\* long as the receiver's callers make one.
InOrderInsideWindow == polite => DeliveredInOrder

\* unassembled_bytes(), which is kept by hand, is what the map holds, and a peer inside the
\* window never makes the reassembler hold more than its capacity.
CountedWithinCapacity ==
  /\ r.unassembledSize = MapThenSumSet(LAMBDA k : Len(r.strs[k]), DOMAIN r.strs)
  /\ polite => r.output.size + r.unassembledSize <= r.capacity

\* When an index that is still stored is sent again, the contents sent last are the ones
\* kept, whichever way the old and the new string overlap.
NewestWins ==
  \A index \in 0..StreamLen, len \in 1..MaxPush, version \in Versions :
    ~r.output.isInputEnd =>
      LET after == PushSubstring(r, Slice(index, len, version), index, FALSE, 0)
      IN  \A k \in DOMAIN after.strs :
            \A i \in (index..index + len - 1) \cap (k..TailIdx(after.strs, k) - 1) :
              after.strs[k][i - k + 1] = <<i, version>>

\* The reassembler keeps the promise of OrderedDelivery to a peer inside the window.
Promised == INSTANCE OrderedDelivery WITH
  have <- Stored \cup 0..r.exIdx - 1, front <- r.exIdx, taken <- r.output.numRead,
  finKnown <- r.eofSignRecv, closed <- r.output.isInputEnd

KeepsPromise ==
  /\ polite => Promised!Init
  /\ [][polite => Promised!Next \/ UNCHANGED Promised!Promise]_vars

\* If the peer keeps retransmitting the oldest missing byte and the reader keeps
\* reading, the reader gets to the end of the stream.
StreamCompletes == polite => <>(r.output.numRead = StreamLen)
===============================================================================
