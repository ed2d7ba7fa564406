--------------------------- MODULE StreamReassembler ---------------------------
(***************************************************************************)
(* Class StreamReassembler (libsponge/stream_reassembler.{hh,cc}): puts    *)
(* substrings that arrive out of order, overlapping or twice back into one *)
(* ByteStream.  As in ByteStream, an object is a record of its members and *)
(* a method is an operator on it.  _unassembledStrs, a map from the index  *)
(* of a first byte to a string, is the function strs.                      *)
(***************************************************************************)
EXTENDS MachineTypes, ByteStream, FiniteSetsExt

NewStreamReassembler(capacity) ==
  [exIdx |-> 0, strs |-> <<>>, unassembledSize |-> 0, eofSignRecv |-> FALSE,
   eofIdx |-> 0, output |-> NewByteStream(capacity), capacity |-> capacity]

\* The index after the last byte of the entry with key k.
TailIdx(strs, k) == k + Len(strs[k])

\* std::string::replace of the bytes of s after the first `from` by those of data.
Overwrite(s, from, data) ==
  [i \in 1..Len(s) |-> IF i \in from + 1..from + Len(data) THEN data[i - from] ELSE s[i]]

\* getFrontItr(): the entry with the largest key <= idx, as a set of at most one key.
\* (For idx = 2^64 - 1 the code's idx+1 wraps and it may return begin(); every entry
\* ends below that idx, so the caller does nothing with either one.)
GetFrontItr(strs, idx) ==
  {k \in DOMAIN strs : k <= idx /\ \A j \in DOMAIN strs : j <= idx => j <= k}

\* getBackItr(): the entries an iterator that starts there runs over.
GetBackItr(strs, idx) ==
  {k \in DOMAIN strs : IF idx = 0 THEN k > 0 ELSE k >= idx}

\* Mutant of CutFront: what was already written to the output is not cut off.
CutFrontUncut(r, idx, data) ==
  [drop |-> idx < r.exIdx /\ Plus(idx, Len(data)) <= r.exIdx,
   idx |-> IF idx < r.exIdx THEN r.exIdx ELSE idx, data |-> data, strs |-> r.strs]

\* Mutant of CutFront: the entry in front keeps its old bytes.
CutFrontKeepsOld(r, idx, data) ==
  LET overlapped == {f \in GetFrontItr(r.strs, idx) : TailIdx(r.strs, f) > idx}
      from == IF idx < r.exIdx \/ overlapped = {} THEN r.exIdx ELSE TailIdx(r.strs, CHOOSE f \in overlapped : TRUE)
      cut == idx < r.exIdx \/ overlapped # {}
  IN  [drop |-> cut /\ Plus(idx, Len(data)) <= from, idx |-> IF cut THEN from ELSE idx,
       data |-> IF cut THEN SubSeq(data, from - idx + 1, Len(data)) ELSE data, strs |-> r.strs]

\* First half of cutData(): cut what lies before exIdx or overlaps the entry in front.
CutFront(r, idx, data) ==
  LET tail == Plus(idx, Len(data))
      From(i) == SubSeq(data, i - idx + 1, Len(data))
      overlapped == {f \in GetFrontItr(r.strs, idx) : TailIdx(r.strs, f) > idx}
      f == CHOOSE k \in overlapped : TRUE
      fTail == TailIdx(r.strs, f)
  IN  CASE idx < r.exIdx ->
             [drop |-> tail <= r.exIdx, idx |-> r.exIdx, data |-> From(r.exIdx), strs |-> r.strs]
        [] idx >= r.exIdx /\ overlapped = {} ->
             [drop |-> FALSE, idx |-> idx, data |-> data, strs |-> r.strs]
        [] idx >= r.exIdx /\ overlapped # {} ->
             [drop |-> tail <= fTail, idx |-> fTail, data |-> From(fTail),
              strs |-> [r.strs EXCEPT ![f] = Overwrite(@, idx - f, SubSeq(data, 1, Least(Len(data), fTail - idx)))]]

\* Mutant of CutBack: entries inside the data are kept.
CutBackKeepsInside(strs, idx, data) == [drop |-> FALSE, idx |-> idx, data |-> data, strs |-> strs]

\* Mutant of CutBack: entries that reach past the data's tail are erased too.
CutBackErasesAll(strs, idx, data) ==
  LET overlapped == {b \in GetBackItr(strs, idx) : b < Plus(idx, Len(data))}
  IN  [drop |-> FALSE, idx |-> idx, data |-> data, strs |-> [k \in DOMAIN strs \ overlapped |-> strs[k]]]

\* Second half of cutData(): entries inside the data are erased, and an entry that
\* reaches the data's tail is overwritten and takes the overlap off the data.
CutBack(strs, idx, data) ==
  LET tail == Plus(idx, Len(data))
      overlapped == {b \in GetBackItr(strs, idx) : b < tail}
      inside == {b \in overlapped : TailIdx(strs, b) < tail}
      last == overlapped \ inside
  IN  [drop |-> idx \in last,
       idx |-> idx,
       data |-> IF last = {} THEN data ELSE SubSeq(data, 1, (CHOOSE b \in last : TRUE) - idx),
       strs |-> [k \in DOMAIN strs \ inside |->
                   IF k \in last
                   THEN Overwrite(strs[k], 0, SubSeq(data, k - idx + 1, Len(data)))
                   ELSE strs[k]]]

CutData(r, idx, data) ==
  LET front == CutFront(r, idx, data)
  IN  IF front.drop THEN front ELSE CutBack(front.strs, front.idx, front.data)

\* Mutant of TryInsert: _unassembledSize is not updated.
TryInsertUncounted(r, idx, data) ==
  [r EXCEPT !.strs = [k \in DOMAIN @ \cup {idx} |-> IF k = idx THEN data ELSE @[k]]]

\* Mutant of TryInsert: the window does not move with _exIdx.
TryInsertFixedWindow(r, idx, data) ==
  IF idx < r.capacity - r.output.size
  THEN [r EXCEPT !.strs = [k \in DOMAIN @ \cup {idx} |-> IF k = idx THEN data ELSE @[k]],
                 !.unassembledSize = @ + Len(data)]
  ELSE r

\* Step 2 of push_substring(): the whole string is kept when its first byte is acceptable.
TryInsert(r, idx, data) ==
  LET firstUnacceptableIdx == r.exIdx + r.capacity - r.output.size
  IN  IF idx < firstUnacceptableIdx
      THEN [r EXCEPT !.strs = [k \in DOMAIN @ \cup {idx} |-> IF k = idx THEN data ELSE @[k]],
                     !.unassembledSize = @ + Len(data)]
      ELSE r

\* Step 3, the loop: entries go to the output in order until one is missing or the
\* output does not eat all of one.  The loop then erases that entry's node and builds
\* the remainder from references into it: the first `junk` bytes of the remainder are
\* whatever the freed buffer now holds.
TryPush(r, junk) ==
  LET Covered == UNION {k..TailIdx(r.strs, k) - 1 : k \in DOMAIN r.strs}
      chain == {k \in DOMAIN r.strs : r.exIdx <= k /\ r.exIdx..k \subseteq Covered}
      room == RemainingCapacity(r.output)
      EndedBefore(k) == \/ r.output.isInputEnd
                        \/ \E m \in chain : m < k /\ r.eofSignRecv /\ r.eofIdx <= TailIdx(r.strs, m)
      eaten == {k \in chain : ~EndedBefore(k) /\ TailIdx(r.strs, k) <= r.exIdx + room}
      busy == {k \in chain \ eaten : \A j \in chain \ eaten : k <= j}
      exIdx == CASE chain = {} -> r.exIdx
                 [] chain # {} /\ busy = {} -> Max({TailIdx(r.strs, k) : k \in eaten})
                 [] busy # {} -> LET b == CHOOSE k \in busy : TRUE
                                 IN  IF EndedBefore(b) THEN b ELSE r.exIdx + room
      ByteAt(i) == LET k == CHOOSE k \in chain : k <= i /\ i < TailIdx(r.strs, k)
                   IN  r.strs[k][i - k + 1]
      written == Write(r.output, [i \in 1..exIdx - r.exIdx |-> ByteAt(r.exIdx + i - 1)])
      Remainder(k) == LET rest == SubSeq(r.strs[k], exIdx - k + 1, Len(r.strs[k]))
                      IN  Overwrite(rest, 0, [i \in 1..junk |-> Garbage])
  IN  [r EXCEPT
        !.exIdx = exIdx,
        !.strs = [k \in (DOMAIN @ \ (eaten \cup busy)) \cup {exIdx : b \in busy} |->
                    IF k = exIdx THEN Remainder(CHOOSE b \in busy : TRUE) ELSE @[k]],
        !.unassembledSize = @ - (exIdx - r.exIdx),
        !.output = IF chain # {} /\ r.eofSignRecv /\ r.eofIdx <= exIdx
                   THEN EndInput(written) ELSE written]

\* Mutant of NoteEof: an end that was already reached goes unnoticed.
NoteEofLater(r, index, len) == [r EXCEPT !.eofSignRecv = TRUE, !.eofIdx = Plus(index, len)]

\* Step 0: note the end of the stream; an end already reached closes the output.
NoteEof(r, index, len) ==
  LET eofIdx == Plus(index, len)
  IN  [r EXCEPT !.eofSignRecv = TRUE, !.eofIdx = eofIdx,
                !.output = IF eofIdx = r.exIdx THEN EndInput(@) ELSE @]

\* Mutant of StoreAndPush: the strings cutData() erased stay counted.
StoreAndPushKeepsCount(r, cut, junk) ==
  LET kept == [r EXCEPT !.strs = cut.strs]
  IN  IF cut.drop THEN kept ELSE TryPush(TryInsert(kept, cut.idx, cut.data), junk)

\* Steps 2 and 3, with what cutData() left of the map and of the data.
StoreAndPush(r, cut, junk) ==
  LET erased == DOMAIN r.strs \ DOMAIN cut.strs
      kept == [r EXCEPT !.strs = cut.strs,
                        !.unassembledSize = @ - MapThenSumSet(LAMBDA k : Len(r.strs[k]), erased)]
  IN  IF cut.drop THEN kept ELSE TryPush(TryInsert(kept, cut.idx, cut.data), junk)

PushSubstring(r, data, index, eof, junk) ==
  LET noted == IF eof THEN NoteEof(r, index, Len(data)) ELSE r
  IN  CASE r.output.isInputEnd -> r
        [] ~r.output.isInputEnd /\ data = <<>> -> noted
        [] ~r.output.isInputEnd /\ data # <<>> -> StoreAndPush(noted, CutData(noted, index, data), junk)
===============================================================================
