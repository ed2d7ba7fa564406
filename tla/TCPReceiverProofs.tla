--------------------------- MODULE TCPReceiverProofs ---------------------------
(***************************************************************************)
(* Proofs about TCPReceiverSpec, for every capacity, stream length, size   *)
(* of a segment, delay and initial sequence number.  unwrap() next to the  *)
(* stream index gives back the index a segment was made with, so that what *)
(* reaches the reassembler is what StreamReassemblerLemmas knows how to    *)
(* deal with, keep-alives excepted: they fall below the window, or, in     *)
(* front of the first byte, at the far end of the numbers.                 *)
(***************************************************************************)
EXTENDS TCPReceiverSpec, StreamReassemblerLemmas, WrappingIntegersProofs

\* Zenon proves the leaves, unless they ask for arithmetic.
USE ZenonT(30)

\* The byte that belongs at each index.
Peer == [i \in Nat |-> {<<i>>}]

\* No string in the map reaches past it.
Limit(x) == Least(StreamLen, x.output.numRead + Capacity)

\* The reassembler of the receiver, with a reader that got d.
InOrder(x, d) ==
  /\ Delivers(x, d, Limit(x), Peer, StreamLen) /\ x.capacity = Capacity
  /\ ~Holds(x.strs, x.exIdx)

\* The ackno that goes with x.
AcknoOf(x, isn) == Wrap(x.exIdx + 1 + (IF x.output.isInputEnd THEN 1 ELSE 0), isn)

IsReceiver(w) ==
  /\ w = [reassembler |-> w.reassembler, synRecv |-> w.synRecv, isn |-> w.isn, ackno |-> w.ackno,
          capacity |-> Capacity]
  /\ w.synRecv \in BOOLEAN /\ w.isn \in 0..SeqMod - 1 /\ w.ackno \in 0..SeqMod - 1

Inv ==
  /\ IsReceiver(v) /\ peerIsn \in 0..SeqMod - 1
  /\ InOrder(v.reassembler, delivered)
  /\ v.synRecv => v.isn = peerIsn /\ v.ackno = AcknoOf(v.reassembler, peerIsn)

(* Numbers *)

\* The constants, with the bounds the arithmetic below needs.
LEMMA Constants ==
  /\ Capacity \in Nat /\ StreamLen \in Nat /\ MaxPayload \in Nat /\ MaxDelay \in Nat
  /\ SizeMod \in Nat \ {0} /\ SeqMod \in Nat \ {0} /\ Half \in Nat
  /\ Capacity + 1 <= Half /\ MaxDelay <= Half
  /\ StreamLen < SizeMod /\ Capacity + StreamLen + 1 < SizeMod
BY ReceiverAssumption, SizeModAssumption, SeqModAssumption, HalfOfSeqMod, SMTT(30)

\* wrap() gives a raw value.
LEMMA WrapRange ==
  ASSUME NEW n \in Int, NEW i \in Int
  PROVE  Wrap(n, i) \in 0..SeqMod - 1
BY ModRange, SMTT(30) DEF Wrap

\* The FIN counts one more, in the raw value too.
LEMMA WrapOneMore ==
  ASSUME NEW n \in Nat, NEW i \in Nat
  PROVE  Wrap(1, Wrap(n, i)) = Wrap(n + 1, i)
<1> DEFINE r == (i + n) % SeqMod
           q == (r + 1) % SeqMod
<1>1. PICK k \in Int : i + n = k * SeqMod + r
  BY ModSplit, SMTT(30)
<1>2. r \in 0..SeqMod - 1
  BY ModRange, SMTT(30)
<1> HIDE DEF r
<1>3. PICK m \in Int : r + 1 = m * SeqMod + q
  BY <1>2, ModSplit, SeqModAssumption, SMTT(30)
<1>4. q \in 0..SeqMod - 1
  BY <1>2, ModRange, SeqModAssumption, SMTT(30)
<1> HIDE DEF q
<1>5. i + (n + 1) = (k + m) * SeqMod + q /\ k + m \in Int /\ i + (n + 1) \in Int
  BY <1>1, <1>2, <1>3, <1>4, SeqModAssumption, SMTT(30)
<1>6. (i + (n + 1)) % SeqMod = q
  BY <1>4, <1>5, ModUnique
<1> QED
  BY <1>2, <1>6, SeqModAssumption DEF Wrap, r, q

\* The difference of two size_t where there is no wrap-around, and below zero.
LEMMA DifferenceOne ==
  ASSUME NEW a \in Nat, a < SizeMod
  PROVE  Difference(a, 1) = IF a = 0 THEN SizeMod - 1 ELSE a - 1
<1>1. SizeMod \in Nat \ {0}
  BY SizeModAssumption
<1>2. CASE a = 0
  BY <1>1, <1>2, SMTT(30) DEF Difference
<1>3. CASE a # 0
  BY <1>1, <1>3, SMTT(30) DEF Difference
<1> QED
  BY <1>2, <1>3

(* What arrives at the reassembler *)

\* What InOrder says in numbers.
LEMMA InOrderFacts ==
  ASSUME NEW x, NEW d, InOrder(x, d)
  PROVE  /\ Limit(x) \in Nat /\ Limit(x) <= StreamLen /\ InRoom(x, Limit(x))
         /\ Good(x, Limit(x), Peer, StreamLen)
         /\ x.exIdx \in Nat /\ x.exIdx <= StreamLen /\ x.exIdx = x.output.numWritten
         /\ x.output.numRead \in Nat /\ x.output.size \in 0..Capacity
         /\ x.exIdx = x.output.numRead + x.output.size
         /\ x.output.isInputEnd \in BOOLEAN
         /\ x.output.isInputEnd => x.exIdx = StreamLen
<1> DEFINE read == x.output.numRead
           size == x.output.size
<1>1. /\ read \in Nat /\ size \in Nat /\ size <= Capacity /\ x.exIdx = read + size
      /\ RemainingCapacity(x.output) = Capacity - size
      /\ x.exIdx <= StreamLen /\ x.exIdx = x.output.numWritten /\ x.exIdx \in Nat
      /\ Good(x, Limit(x), Peer, StreamLen)
      /\ x.output.isInputEnd \in BOOLEAN /\ (x.output.isInputEnd => x.exIdx = StreamLen)
  BY DEF InOrder, Delivers, Good, IsReassembler, Streams, RemainingCapacity
<1>2. Limit(x) = Least(StreamLen, read + Capacity)
  BY DEF Limit
<1> HIDE DEF read, size
<1>3. Limit(x) \in Nat /\ Limit(x) <= StreamLen /\ Limit(x) <= read + Capacity
  BY <1>1, <1>2, Constants, SMTT(30) DEF Least
<1>4. x.exIdx + (Capacity - size) = read + Capacity /\ size \in 0..Capacity
  BY <1>1, Constants, SMTT(30)
<1>5. InRoom(x, Limit(x))
  BY <1>1, <1>3, <1>4 DEF InRoom
<1> QED
  BY <1>1, <1>3, <1>4, <1>5 DEF read, size

\* The reassembler became y, which has the peer's next bytes.
Advances(x, y, d) ==
  /\ InOrder(y, d) /\ y.output.numRead = x.output.numRead

\* What a push adds to the output is the next bytes of the peer's stream.
LEMMA GrowsAdvances ==
  ASSUME NEW x, NEW d, InOrder(x, d), NEW y, Good(y, Limit(x), Peer, StreamLen), Grows(x, y, Peer),
         ~Holds(y.strs, y.exIdx)
  PROVE  Advances(x, y, d)
<1>1. y.output.numRead = x.output.numRead /\ y.capacity = x.capacity
  BY DEF Grows
<1>2. Limit(y) = Limit(x)
  BY <1>1 DEF Limit
<1>3. Delivers(y, d, Limit(x), Peer, StreamLen)
  BY GrowsDelivers DEF InOrder
<1> QED
  BY <1>1, <1>2, <1>3 DEF InOrder, Advances

\* Bytes of the stream at their index.
LEMMA SliceAdvances ==
  ASSUME NEW x, NEW d, InOrder(x, d), NEW index \in Nat, NEW len \in Nat, NEW eof \in BOOLEAN,
         index + len <= StreamLen, index + len <= x.output.numRead + Capacity,
         eof => index + len = StreamLen
  PROVE  Advances(x, PushSubstring(x, Slice(index, len), index, eof, 0), d)
<1> DEFINE data == Slice(index, len)
           hi == Limit(x)
           y == PushSubstring(x, data, index, eof, 0)
<1>1. /\ hi \in Nat /\ hi <= StreamLen /\ InRoom(x, hi) /\ Good(x, hi, Peer, StreamLen)
      /\ x.output.numRead \in Nat
  BY InOrderFacts
<1>2. Placed(data, index, Peer) /\ Len(data) = len
  <2>1. IsString(data, len)
    BY DEF IsString, Slice
  <2>2. MayStand(data, len, index, Peer)
    <3> SUFFICES ASSUME NEW i \in 1..len PROVE data[i] \in Peer[index + i - 1]
      BY DEF MayStand
    <3>1. data[i] = <<index + i - 1>> /\ index + i - 1 \in Nat
      BY SMTT(30) DEF Slice
    <3> QED
      BY <3>1 DEF Peer
  <2> HIDE DEF data
  <2> QED
    BY <2>1, <2>2, PlacedBytes
<1>3. index + len <= hi
  BY <1>1, Constants DEF Limit, Least
<1>4. RoomOrGarbage(x, hi, Peer) /\ 0 \in Nat /\ StreamLen \in Nat /\ StreamLen < SizeMod
  BY <1>1, Constants DEF RoomOrGarbage
<1> HIDE DEF data, hi
<1>5. /\ Good(y, hi, Peer, StreamLen) /\ Grows(x, y, Peer)
      /\ InRoom(x, hi) => Settled(x, index, index + len, y)
  BY <1>1, <1>2, <1>3, <1>4, PushKeeps
<1> HIDE DEF y
<1>6. ~Holds(y.strs, y.exIdx)
  BY <1>1, <1>5 DEF Settled, InOrder
<1>7. Advances(x, y, d)
  BY <1>5, <1>6, GrowsAdvances DEF hi
<1> QED
  BY <1>7 DEF y, data

\* A keep-alive behind the first byte is cut off whole; in front of it, it lies behind every
\* window.  Either way the reassembler may only find more room for what it holds.
LEMMA KeepAliveAdvances ==
  ASSUME NEW x, NEW d, InOrder(x, d), NEW n \in 0..1
  PROVE  Advances(x, PushSubstring(x, [j \in 1..n |-> Garbage], Difference(x.exIdx, 1), FALSE, 0), d)
<1> DEFINE data == [j \in 1..n |-> Garbage]
           idx == Difference(x.exIdx, 1)
           hi == Limit(x)
           cut == CutData(x, idx, data)
           front == CutFront(x, idx, data)
           y == PushSubstring(x, data, idx, FALSE, 0)
<1>1. /\ hi \in Nat /\ hi <= StreamLen /\ InRoom(x, hi) /\ Good(x, hi, Peer, StreamLen)
      /\ x.exIdx \in Nat /\ x.exIdx <= StreamLen /\ x.output.size \in 0..Capacity
  BY InOrderFacts
<1>2. /\ Fits(x.strs, x.exIdx, hi, Peer) /\ x.output \in Streams(AnyByte(Peer)) /\ x.capacity = Capacity
      /\ StreamLen \in Nat /\ ~Holds(x.strs, x.exIdx)
  BY <1>1, Constants DEF Good, IsReassembler, InOrder
<1>3. idx = IF x.exIdx = 0 THEN SizeMod - 1 ELSE x.exIdx - 1
  BY <1>1, Constants, DifferenceOne, SMTT(30)
<1> HIDE DEF hi, idx
<1>4. ASSUME NEW z, Good(z, hi, Peer, StreamLen), Same(x, z), ~Holds(z.strs, z.exIdx)
      PROVE  Advances(x, z, d)
  BY <1>1, <1>2, <1>4, SameGrows, GrowsAdvances DEF hi
<1>5. CASE x.output.isInputEnd \/ data = <<>>
  <2>1. y = x
    BY <1>5 DEF PushSubstring
  <2>2. Advances(x, x, d)
    BY <1>1, <1>2, <1>4 DEF Same
  <2> HIDE DEF y
  <2>3. Advances(x, y, d)
    BY <2>1, <2>2
  <2> QED
    BY <2>3 DEF y, idx
<1>6. CASE ~x.output.isInputEnd /\ data # <<>>
  <2>1. y = StoreAndPush(x, cut, 0)
    BY <1>6 DEF PushSubstring
  <2>2. Len(data) = 1
    <3>1. n = 1
      BY <1>6, SMTT(30)
    <3> QED
      BY <3>1, SMTT(30)
  <2> HIDE DEF data
  <2>3. \A k \in DOMAIN x.strs : k \in Nat /\ TailIdx(x.strs, k) \in Nat /\ TailIdx(x.strs, k) <= hi
    BY <1>1, <1>2, FitsBounds
  <2>4. CASE x.exIdx # 0
    <3>1. idx \in Nat /\ idx < x.exIdx /\ Plus(idx, Len(data)) = x.exIdx
      <4>1. idx + 1 < SizeMod /\ idx \in Nat /\ idx + 1 = x.exIdx
        BY <1>1, <1>3, <2>4, Constants, SMTT(30)
      <4> QED
        BY <2>2, <4>1, PlusIsSum, Constants, SMTT(30)
    <3>2. front.drop /\ front.strs = x.strs
      <4> DEFINE tail == Plus(idx, Len(data))
                 from == SubSeq(data, x.exIdx - idx + 1, Len(data))
      <4>1. front = [drop |-> tail <= x.exIdx, idx |-> x.exIdx, data |-> from, strs |-> x.strs]
        <5>1. ~(idx >= x.exIdx) /\ x.exIdx \in Nat
          BY <1>1, <3>1, SMTT(30)
        <5> QED
          BY <3>1, <5>1 DEF CutFront
      <4>2. tail <= x.exIdx
        BY <1>1, <3>1, SMTT(30)
      <4> HIDE DEF tail, from, front
      <4>3. front.drop = (tail <= x.exIdx)
        BY <4>1
      <4>4. front.strs = x.strs
        BY <4>1
      <4> QED
        BY <4>2, <4>3, <4>4
    <3> HIDE DEF front
    <3>3. cut.drop /\ cut.strs = x.strs
      BY <3>2 DEF CutData, front
    <3> HIDE DEF cut
    <3>4. PICK u : y = Remapped(x, x.strs, u)
      <4> DEFINE u == x.unassembledSize - MapThenSumSet(LAMBDA k : Len(x.strs[k]), DOMAIN x.strs \ DOMAIN cut.strs)
      <4>1. y = Remapped(x, cut.strs, u)
        BY <2>1, <3>3 DEF StoreAndPush, Remapped
      <4> HIDE DEF u, y
      <4> QED
        BY <3>3, <4>1
    <3> HIDE DEF y
    <3>5. Refitted(x, x.strs, Remapped(x, x.strs, u), hi, Peer, StreamLen)
      BY <1>1, <1>2, OtherMap
    <3>6. Good(y, hi, Peer, StreamLen) /\ Same(x, y) /\ y.strs = x.strs
      BY <3>4, <3>5 DEF Refitted
    <3>7. ~Holds(y.strs, y.exIdx)
      BY <1>2, <3>6 DEF Same
    <3> QED
      BY <1>4, <3>6, <3>7 DEF y, data, idx
  <2>5. CASE x.exIdx = 0
    <3>1. idx = SizeMod - 1 /\ idx \in Nat /\ idx >= x.exIdx /\ Capacity < idx /\ hi < idx
      BY <1>1, <1>3, <2>5, Constants, SMTT(30)
    <3>2. Plus(idx, Len(data)) = 0
      BY <2>2, <3>1, Constants, SMTT(30) DEF Plus
    <3>3. \A k \in DOMAIN x.strs : ~(TailIdx(x.strs, k) > idx)
      BY <1>1, <2>3, <3>1, SMTT(30)
    <3>4. {f \in GetFrontItr(x.strs, idx) : TailIdx(x.strs, f) > idx} = {}
      BY <3>3 DEF GetFrontItr
    <3>5. front = [drop |-> FALSE, idx |-> idx, data |-> data, strs |-> x.strs]
      <4>1. ~(idx < x.exIdx)
        BY <1>1, <3>1, SMTT(30)
      <4> QED
        BY <3>1, <3>4, <4>1 DEF CutFront
    <3>6. cut = CutBack(x.strs, idx, data)
      BY <3>5, SMTT(30) DEF CutData
    <3>7. {b \in GetBackItr(x.strs, idx) : b < Plus(idx, Len(data))} = {}
      BY <2>3, <3>2, SMTT(30) DEF GetBackItr
    <3>8. cut.drop = FALSE /\ cut.idx = idx /\ cut.data = data /\ cut.strs = [k \in DOMAIN x.strs |-> x.strs[k]]
      <4> DEFINE over == {b \in GetBackItr(x.strs, idx) : b < Plus(idx, Len(data))}
                 inside == {b \in over : TailIdx(x.strs, b) < Plus(idx, Len(data))}
                 last == over \ inside
                 rest == IF last = {} THEN data ELSE SubSeq(data, 1, (CHOOSE b \in last : TRUE) - idx)
                 left == [k \in DOMAIN x.strs \ inside |->
                            IF k \in last THEN Overwrite(x.strs[k], 0, SubSeq(data, k - idx + 1, Len(data)))
                                          ELSE x.strs[k]]
      <4>1. cut = [drop |-> idx \in last, idx |-> idx, data |-> rest, strs |-> left]
        BY <3>6 DEF CutBack
      <4>2. inside = {} /\ last = {}
        BY <3>7
      <4> HIDE DEF inside, last, cut
      <4>3. rest = data /\ left = [k \in DOMAIN x.strs |-> x.strs[k]] /\ idx \notin last
        BY <4>2
      <4> DEFINE drop == idx \in last
      <4>4. drop \in BOOLEAN /\ ~drop
        BY <4>3, SMTT(30)
      <4> HIDE DEF rest, left, drop
      <4>5. cut.drop = drop
        BY <4>1 DEF drop
      <4>6. cut.idx = idx /\ cut.data = rest /\ cut.strs = left
        BY <4>1
      <4> QED
        BY <4>3, <4>4, <4>5, <4>6
    <3>9. cut.strs = x.strs
      BY <1>2, <3>8 DEF Fits
    <3> HIDE DEF cut, front
    <3>10. PICK u : y = TryPush(TryInsert(Remapped(x, x.strs, u), idx, data), 0)
      <4> DEFINE u == x.unassembledSize - MapThenSumSet(LAMBDA k : Len(x.strs[k]), DOMAIN x.strs \ DOMAIN cut.strs)
      <4>1. y = TryPush(TryInsert(Remapped(x, cut.strs, u), cut.idx, cut.data), 0)
        BY <2>1, <3>8 DEF StoreAndPush, Remapped
      <4> HIDE DEF u, y
      <4> QED
        BY <3>8, <3>9, <4>1
    <3> DEFINE p == Remapped(x, x.strs, u)
    <3>11. Refitted(x, x.strs, p, hi, Peer, StreamLen)
      BY <1>1, <1>2, OtherMap
    <3> HIDE DEF y, p
    <3>12. /\ Good(p, hi, Peer, StreamLen) /\ p.exIdx = x.exIdx /\ p.output = x.output /\ p.capacity = x.capacity
           /\ Same(x, p)
      BY <3>11 DEF Refitted, Same
    <3>13. TryInsert(p, idx, data) = p
      <4>1. ~(idx < p.exIdx + p.capacity - p.output.size)
        BY <1>1, <1>2, <2>5, <3>1, <3>12, Constants, SMTT(30)
      <4> QED
        BY <4>1 DEF TryInsert
    <3>14. y = TryPush(p, 0)
      BY <3>10, <3>13 DEF p
    <3>15. Good(y, hi, Peer, StreamLen) /\ Grows(p, y, Peer) /\ ~Holds(y.strs, y.exIdx)
      <4>1. hi <= p.exIdx + RemainingCapacity(p.output)
        BY <1>1, <3>12, SMTT(30) DEF InRoom
      <4> QED
        BY <1>1, <1>2, <3>12, <3>14, <4>1, LoopKeeps, SMTT(30)
    <3>16. Grows(x, y, Peer)
      BY <3>12, <3>15, SMTT(30) DEF Same, Grows
    <3> QED
      BY <3>15, <3>16, GrowsAdvances DEF hi, y, data, idx
  <2> QED
    BY <2>4, <2>5
<1> QED
  BY <1>5, <1>6

(* The handler *)

\* The receiver z whose reassembler became y.
Acked(z, isn, y) ==
  IsReceiver(z) /\ z.reassembler = y /\ z.synRecv = TRUE /\ z.isn = isn /\ z.ackno = AcknoOf(y, isn)

\* ackno() is the wrapped number behind the output, one further behind the FIN.
LEMMA Acknowledges ==
  ASSUME NEW w, IsReceiver(w), NEW isn \in 0..SeqMod - 1, NEW y, NEW d, InOrder(y, d)
  PROVE  Acked(Acknowledge(w, isn, y), isn, y)
<1> DEFINE z == Acknowledge(w, isn, y)
           n == y.exIdx
           one == Wrap(n + 1, isn)
           ackno == IF y.output.isInputEnd THEN Wrap(1, one) ELSE one
<1>1. n \in Nat /\ n = y.output.numWritten /\ isn \in Nat /\ isn \in Int /\ n + 1 \in Nat
  BY InOrderFacts, Constants, SMTT(30)
<1>2. z = [w EXCEPT !.reassembler = y, !.synRecv = TRUE, !.isn = isn, !.ackno = ackno]
  BY <1>1 DEF Acknowledge
<1> HIDE DEF n
<1>3. ackno = AcknoOf(y, isn) /\ ackno \in 0..SeqMod - 1
  <2>1. Wrap(1, Wrap(n + 1, isn)) = Wrap((n + 1) + 1, isn)
    BY <1>1, WrapOneMore
  <2>2. CASE y.output.isInputEnd
    <3>1. AcknoOf(y, isn) = Wrap(n + 1 + 1, isn)
      BY <2>2 DEF AcknoOf, n
    <3>2. n + 1 + 1 = (n + 1) + 1 /\ (n + 1) + 1 \in Int
      BY <1>1, SMTT(30)
    <3> QED
      BY <1>1, <2>1, <2>2, <3>1, <3>2, WrapRange
  <2>3. CASE ~y.output.isInputEnd
    <3>1. AcknoOf(y, isn) = Wrap(n + 1 + 0, isn)
      BY <2>3 DEF AcknoOf, n
    <3>2. n + 1 + 0 = n + 1 /\ n + 1 \in Int
      BY <1>1, SMTT(30)
    <3> QED
      BY <1>1, <2>3, <3>1, <3>2, WrapRange
  <2> QED
    BY <2>2, <2>3
<1> HIDE DEF ackno, z
<1>4. z = [reassembler |-> y, synRecv |-> TRUE, isn |-> isn, ackno |-> ackno, capacity |-> Capacity]
  <2>1. w = [reassembler |-> w.reassembler, synRecv |-> w.synRecv, isn |-> w.isn, ackno |-> w.ackno,
             capacity |-> Capacity]
    BY DEF IsReceiver
  <2> DEFINE a == w.reassembler
             b == w.synRecv
             c == w.isn
             e == w.ackno
             t == TRUE
  <2>2. w = [reassembler |-> a, synRecv |-> b, isn |-> c, ackno |-> e, capacity |-> Capacity]
    BY <2>1
  <2> HIDE DEF a, b, c, e, t
  <2> DEFINE w1 == [w EXCEPT !.reassembler = y]
             w2 == [w1 EXCEPT !.synRecv = t]
             w3 == [w2 EXCEPT !.isn = isn]
             w4 == [w3 EXCEPT !.ackno = ackno]
  <2>3. w1 = [reassembler |-> y, synRecv |-> b, isn |-> c, ackno |-> e, capacity |-> Capacity]
    BY <2>2, SMTT(30)
  <2> HIDE DEF w1
  <2>4. w2 = [reassembler |-> y, synRecv |-> t, isn |-> c, ackno |-> e, capacity |-> Capacity]
    BY <2>3, SMTT(30)
  <2> HIDE DEF w2
  <2>5. w3 = [reassembler |-> y, synRecv |-> t, isn |-> isn, ackno |-> e, capacity |-> Capacity]
    BY <2>4, SMTT(30)
  <2> HIDE DEF w3
  <2>6. w4 = [reassembler |-> y, synRecv |-> t, isn |-> isn, ackno |-> ackno, capacity |-> Capacity]
    BY <2>5, SMTT(30)
  <2> HIDE DEF w4
  <2>7. z = w4
    BY <1>2 DEF w1, w2, w3, w4, t
  <2> QED
    BY <2>6, <2>7 DEF t
<1>5. z.reassembler = y /\ z.synRecv = TRUE /\ z.isn = isn /\ z.ackno = ackno
  BY <1>4
<1>6. IsReceiver(z)
  BY <1>3, <1>4, <1>5 DEF IsReceiver
<1> QED
  BY <1>3, <1>5, <1>6 DEF z, Acked

\* The index of a segment that carries the stream from index on, less than half the sequence
\* space away from what the reassembler expects.
LEMMA IndexOf ==
  ASSUME NEW w, IsReceiver(w), NEW d, InOrder(w.reassembler, d), NEW seg, ~seg.syn, NEW n \in Nat,
         seg.seqno = Wrap(n, w.isn), n < SizeMod,
         w.reassembler.exIdx - n < Half, n - w.reassembler.exIdx <= Half
  PROVE  AbsIndex(w, seg) = Difference(n, 1)
<1> DEFINE at == w.reassembler.exIdx
<1>1. at \in Nat /\ at = StreamOut(w).numWritten
  BY InOrderFacts DEF StreamOut
<1>2. w.isn \in Int
  BY Constants, SMTT(30) DEF IsReceiver
<1> HIDE DEF at
<1>3. at - n < Half /\ n - at <= Half
  BY DEF at
<1>4. Unwrap(Wrap(n, w.isn), w.isn, at) = n
  BY <1>1, <1>2, <1>3, UnwrapNear, SMTT(30)
<1> QED
  BY <1>1, <1>4 DEF AbsIndex

\* A segment that the reassembler advances by.
LEMMA ArriveKeeps ==
  ASSUME Inv, NEW seg, Arrive(seg), seg.syn \in BOOLEAN, seg.syn => seg.seqno = peerIsn,
         ~Ignored(v, seg) =>
           Advances(v.reassembler, PushSubstring(v.reassembler, seg.payload, AbsIndex(v, seg), seg.fin, 0), delivered)
  PROVE  Inv' /\ v.reassembler.output.numRead <= v'.reassembler.output.numRead
<1> DEFINE x == v.reassembler
           y == PushSubstring(x, seg.payload, AbsIndex(v, seg), seg.fin, 0)
           isn == IF seg.syn THEN seg.seqno ELSE v.isn
<1>1. /\ IsReceiver(v) /\ peerIsn \in 0..SeqMod - 1 /\ InOrder(x, delivered)
      /\ v.synRecv \in BOOLEAN /\ v.isn \in 0..SeqMod - 1
      /\ v.synRecv => v.isn = peerIsn /\ v.ackno = AcknoOf(v.reassembler, peerIsn)
  BY DEF Inv, IsReceiver
<1>2. x.output.numRead \in Nat
  BY <1>1, InOrderFacts
<1>3. peerIsn' = peerIsn /\ delivered' = delivered
  BY DEF Arrive
<1>4. CASE Ignored(v, seg)
  <2>1. v' = v
    BY <1>4 DEF Arrive, ReceiverSegmentReceived
  <2> QED
    BY <1>1, <1>2, <1>3, <2>1, SMTT(30) DEF Inv, IsReceiver
<1>5. CASE ~Ignored(v, seg)
  <2>1. v' = Acknowledge(v, isn, y)
    BY <1>5 DEF Arrive, ReceiverSegmentReceived
  <2>2. InOrder(y, delivered) /\ y.output.numRead = x.output.numRead
    BY <1>5 DEF Advances
  <2>3. isn = peerIsn
    BY <1>1, <1>5 DEF Ignored
  <2> HIDE DEF y, isn
  <2>4. /\ IsReceiver(v') /\ v'.reassembler = y /\ v'.synRecv = TRUE /\ v'.isn = peerIsn
        /\ v'.ackno = AcknoOf(y, peerIsn)
    <3>1. Acked(Acknowledge(v, peerIsn, y), peerIsn, y)
      BY <1>1, <2>2, Acknowledges
    <3> QED
      BY <2>1, <2>3, <3>1 DEF Acked
  <2>5. IsReceiver(v)'
    BY <2>4 DEF IsReceiver
  <2>6. InOrder(v.reassembler, delivered)'
    <3>1. InOrder(v'.reassembler, delivered')
      BY <1>3, <2>2, <2>4
    <3> QED
      BY <3>1 DEF InOrder, Limit
  <2>7. (AcknoOf(v.reassembler, peerIsn))' = AcknoOf(y, peerIsn)
    BY <1>3, <2>4 DEF AcknoOf
  <2> QED
    BY <1>1, <1>2, <1>3, <2>2, <2>4, <2>5, <2>6, <2>7, SMTT(30) DEF Inv
<1> QED
  BY <1>4, <1>5

\* segment_received() of a SYN, with or without data.
LEMMA ArriveSynKeeps ==
  ASSUME Inv, NEW len \in Nat, NEW fin \in BOOLEAN, ArriveSyn(len, fin)
  PROVE  Inv' /\ v.reassembler.output.numRead <= v'.reassembler.output.numRead
<1> DEFINE seg == [seqno |-> peerIsn, syn |-> TRUE, fin |-> fin, payload |-> Slice(0, len)]
           x == v.reassembler
<1>1. Arrive(seg) /\ len <= Capacity /\ len <= StreamLen /\ (fin => len = StreamLen)
  BY DEF ArriveSyn
<1>2. InOrder(x, delivered) /\ x.output.numRead \in Nat
  BY InOrderFacts DEF Inv
<1>3. AbsIndex(v, seg) = 0
  BY DEF AbsIndex
<1>4. 0 + len <= StreamLen /\ 0 + len <= x.output.numRead + Capacity /\ (fin => 0 + len = StreamLen)
  BY <1>1, <1>2, Constants, SMTT(30)
<1>5. Advances(x, PushSubstring(x, Slice(0, len), 0, fin, 0), delivered)
  BY <1>2, <1>4, SliceAdvances
<1>6. seg.syn = TRUE /\ seg.seqno = peerIsn /\ seg.payload = Slice(0, len) /\ seg.fin = fin
  OBVIOUS
<1> HIDE DEF seg
<1> QED
  BY <1>1, <1>3, <1>5, <1>6, ArriveKeeps

\* segment_received() of data or a FIN, however late.
LEMMA ArriveDataKeeps ==
  ASSUME Inv, NEW index \in Nat, NEW len \in Nat, NEW fin \in BOOLEAN, ArriveData(index, len, fin)
  PROVE  Inv' /\ v.reassembler.output.numRead <= v'.reassembler.output.numRead
<1> DEFINE seg == [seqno |-> Wrap(index + 1, peerIsn), syn |-> FALSE, fin |-> fin, payload |-> Slice(index, len)]
           x == v.reassembler
           at == x.exIdx
           read == x.output.numRead
           size == x.output.size
<1>1. /\ IsReceiver(v) /\ InOrder(x, delivered) /\ at \in Nat /\ read \in Nat /\ size \in 0..Capacity
      /\ at = read + size /\ at = x.output.numWritten
      /\ v.synRecv => v.isn = peerIsn
      /\ v.synRecv \in BOOLEAN /\ v.capacity = Capacity
  BY InOrderFacts, SMTT(30) DEF Inv, IsReceiver
<1>2. /\ Arrive(seg) /\ index >= at - MaxDelay /\ index + len <= StreamLen
      /\ index + len <= at + (Capacity - size) /\ (fin => index + len = StreamLen)
  BY <1>1 DEF ArriveData, StreamOut, FirstUnacceptable, WindowSize
<1>3. seg.syn = FALSE /\ seg.seqno = Wrap(index + 1, peerIsn) /\ seg.payload = Slice(index, len) /\ seg.fin = fin
  OBVIOUS
<1> HIDE DEF seg, read, size
<1>4. index + len <= read + Capacity
  BY <1>1, <1>2, Constants, SMTT(30)
<1>5. Advances(x, PushSubstring(x, Slice(index, len), index, fin, 0), delivered)
  BY <1>1, <1>2, <1>4, SliceAdvances DEF read
<1>6. ASSUME ~Ignored(v, seg) PROVE AbsIndex(v, seg) = index
  <2>1. v.isn = peerIsn
    BY <1>1, <1>3, <1>6 DEF Ignored
  <2> DEFINE n == index + 1
  <2>2. n \in Nat /\ at - n < Half /\ n - at <= Half /\ n < SizeMod
    BY <1>1, <1>2, Constants, SMTT(30)
  <2>3. Difference(n, 1) = index
    BY <2>2, DifferenceOne, SMTT(30)
  <2>4. seg.seqno = Wrap(n, v.isn)
    BY <1>3, <2>1
  <2> HIDE DEF n
  <2>5. AbsIndex(v, seg) = Difference(n, 1)
    BY <1>1, <1>3, <2>2, <2>4, IndexOf, SMTT(30)
  <2> QED
    BY <2>3, <2>5
<1> QED
  BY <1>2, <1>3, <1>5, <1>6, ArriveKeeps

\* segment_received() of a keep-alive, one number below the window.
LEMMA ArriveKeepAliveKeeps ==
  ASSUME Inv, NEW len \in 0..1, ArriveKeepAlive(len)
  PROVE  Inv' /\ v.reassembler.output.numRead <= v'.reassembler.output.numRead
<1> DEFINE x == v.reassembler
           at == x.exIdx
           seg == [seqno |-> Wrap(x.output.numWritten, peerIsn), syn |-> FALSE, fin |-> FALSE,
                   payload |-> [j \in 1..len |-> Garbage]]
<1>1. /\ IsReceiver(v) /\ InOrder(x, delivered) /\ at \in Nat /\ at <= StreamLen /\ at = x.output.numWritten
  BY InOrderFacts DEF Inv
<1>2. v.synRecv /\ Arrive(seg)
  BY DEF ArriveKeepAlive, StreamOut
<1>3. v.isn = peerIsn
  BY <1>2 DEF Inv
<1>4. /\ seg.syn = FALSE /\ seg.seqno = Wrap(at, v.isn) /\ seg.payload = [j \in 1..len |-> Garbage]
      /\ seg.fin = FALSE
  BY <1>1, <1>3
<1> HIDE DEF seg
<1>5. at - at < Half /\ at - at <= Half /\ at < SizeMod
  BY <1>1, Constants, SMTT(30)
<1>6. AbsIndex(v, seg) = Difference(at, 1)
  BY <1>1, <1>4, <1>5, IndexOf, SMTT(30)
<1>7. Advances(x, PushSubstring(x, [j \in 1..len |-> Garbage], Difference(at, 1), FALSE, 0), delivered)
  BY <1>1, KeepAliveAdvances
<1> QED
  BY <1>2, <1>4, <1>6, <1>7, ArriveKeeps

\* The application reads from the inbound stream.
LEMMA ReadKeeps ==
  ASSUME Inv, NEW len \in Nat, Read(len)
  PROVE  Inv' /\ v.reassembler.output.numRead <= v'.reassembler.output.numRead
<1> DEFINE x == v.reassembler
           y == Popped(x, len)
           d == delivered \o PeekOutput(x.output, len)
<1>1. /\ IsReceiver(v) /\ peerIsn \in 0..SeqMod - 1 /\ InOrder(x, delivered)
      /\ v.synRecv => v.isn = peerIsn /\ v.ackno = AcknoOf(x, peerIsn)
  BY DEF Inv
<1>2. /\ Limit(x) \in Nat /\ x.output.numRead \in Nat
      /\ Delivers(x, delivered, Limit(x), Peer, StreamLen) /\ x.capacity = Capacity /\ ~Holds(x.strs, x.exIdx)
  BY <1>1, InOrderFacts DEF InOrder
<1>3. /\ len <= x.output.size /\ v' = [v EXCEPT !.reassembler = y] /\ delivered' = d /\ peerIsn' = peerIsn
  BY DEF Read, StreamOut, Popped
<1>4. ASSUME NEW top \in Nat, Limit(x) <= top
      PROVE  Delivers(y, d, top, Peer, StreamLen) /\ Reads(x, len, y)
  <2> HIDE DEF y, d
  <2> QED
    BY <1>2, <1>3, <1>4, PopDelivers DEF y, d
<1> HIDE DEF y, d
<1>5. Reads(x, len, y)
  BY <1>2, <1>4, SMTT(30)
<1>6. Limit(y) \in Nat /\ Limit(x) <= Limit(y)
  <2> DEFINE read == x.output.numRead
  <2>1. y.output.numRead = read + len /\ read \in Nat
    BY <1>2, <1>5 DEF Reads
  <2>2. Limit(x) = Least(StreamLen, read + Capacity) /\ Limit(y) = Least(StreamLen, read + len + Capacity)
    BY <2>1 DEF Limit
  <2> HIDE DEF read
  <2> QED
    BY <2>1, <2>2, Constants, SMTT(30) DEF Least
<1>7. InOrder(y, d)
  BY <1>2, <1>4, <1>5, <1>6 DEF InOrder, Reads
<1>8. /\ v'.reassembler = y /\ v'.synRecv = v.synRecv /\ v'.isn = v.isn /\ v'.ackno = v.ackno
      /\ v' = [reassembler |-> y, synRecv |-> v.synRecv, isn |-> v.isn, ackno |-> v.ackno, capacity |-> Capacity]
  <2>1. v = [reassembler |-> v.reassembler, synRecv |-> v.synRecv, isn |-> v.isn, ackno |-> v.ackno,
             capacity |-> Capacity]
    BY <1>1 DEF IsReceiver
  <2>2. v' = [reassembler |-> y, synRecv |-> v.synRecv, isn |-> v.isn, ackno |-> v.ackno, capacity |-> Capacity]
    BY <1>3, <2>1, SMTT(30)
  <2> QED
    BY <2>2
<1>9. IsReceiver(v)'
  BY <1>1, <1>8 DEF IsReceiver
<1>10. InOrder(v.reassembler, delivered)'
  <2>1. InOrder(v'.reassembler, delivered')
    BY <1>3, <1>7, <1>8
  <2> QED
    BY <2>1 DEF InOrder, Limit
<1>11. (AcknoOf(v.reassembler, peerIsn))' = AcknoOf(x, peerIsn)
  BY <1>3, <1>5, <1>8 DEF AcknoOf, Reads
<1>12. Inv'
  BY <1>1, <1>3, <1>8, <1>9, <1>10, <1>11 DEF Inv
<1> QED
  BY <1>2, <1>5, <1>8, <1>12, SMTT(30) DEF Reads

\* The constructor establishes the invariant.
LEMMA InitInv == Init => Inv
<1> SUFFICES ASSUME Init PROVE Inv
  OBVIOUS
<1> DEFINE x == NewStreamReassembler(Capacity)
<1>1. v = [reassembler |-> x, synRecv |-> FALSE, isn |-> 0, ackno |-> 0, capacity |-> Capacity]
  BY DEF Init, NewTCPReceiver
<1>2. peerIsn \in 0..SeqMod - 1 /\ delivered = <<>>
  BY ReceiverAssumption DEF Init
<1> HIDE DEF x
<1>3. v.reassembler = x /\ v.synRecv = FALSE /\ v.isn = 0 /\ v.ackno = 0
  BY <1>1
<1>4. IsReceiver(v)
  BY <1>1, <1>3, Constants, SMTT(30) DEF IsReceiver
<1>5. InOrder(x, <<>>)
  BY NewDelivers, Constants DEF InOrder, x
<1> QED
  BY <1>2, <1>3, <1>4, <1>5 DEF Inv

\* No segment and no read breaks the invariant, and what was read stays read.
LEMMA NextInv == Inv /\ [Next]_vars => Inv' /\ v.reassembler.output.numRead <= v'.reassembler.output.numRead
<1> SUFFICES ASSUME Inv, [Next]_vars
             PROVE  Inv' /\ v.reassembler.output.numRead <= v'.reassembler.output.numRead
  OBVIOUS
<1>1. \A len \in 0..MaxPayload : len \in Nat
  BY Constants, SMTT(30)
<1>2. \A index \in 0..StreamLen : index \in Nat
  BY Constants, SMTT(30)
<1>3. CASE \E len \in 0..MaxPayload, fin \in BOOLEAN : ArriveSyn(len, fin)
  BY <1>1, <1>3, ArriveSynKeeps
<1>4. CASE \E index \in 0..StreamLen, len \in 0..MaxPayload, fin \in BOOLEAN : ArriveData(index, len, fin)
  BY <1>1, <1>2, <1>4, ArriveDataKeeps
<1>5. CASE \E len \in 0..1 : ArriveKeepAlive(len)
  BY <1>5, ArriveKeepAliveKeeps
<1>6. CASE \E len \in 1..Capacity : Read(len)
  <2>1. \A len \in 1..Capacity : len \in Nat
    BY Constants, SMTT(30)
  <2> QED
    BY <1>6, <2>1, ReadKeeps
<1>7. CASE UNCHANGED vars
  <2>1. v' = v /\ peerIsn' = peerIsn /\ delivered' = delivered
    BY <1>7 DEF vars
  <2>2. v.reassembler.output.numRead \in Nat
    BY InOrderFacts DEF Inv
  <2>3. Inv'
    BY <2>1 DEF Inv, IsReceiver, InOrder, Limit, AcknoOf
  <2> QED
    BY <2>1, <2>2, <2>3, SMTT(30)
<1> QED
  BY <1>3, <1>4, <1>5, <1>6, <1>7, SMTT(30) DEF Next

\* Inv is an invariant of the specification.
LEMMA ReceiverInvariant == Spec => []Inv
BY InitInv, NextInv, PTL DEF Spec

(* Theorems *)

\* The bytes of a string that stands in the stream are bytes of the stream.
LEMMA HeldInStream ==
  ASSUME NEW s, NEW at \in Nat, Placed(s, at, Peer), at + Len(s) <= StreamLen
  PROVE  s \in Seq(StreamBytes)
<1>1. Len(s) \in Nat /\ s \in [1..Len(s) -> AnyByte(Peer)]
  BY SeqIsFunction DEF Placed
<1>2. ASSUME NEW i \in 1..Len(s) PROVE s[i] \in StreamBytes
  <2>1. at + i - 1 \in 0..StreamLen - 1 /\ at + i - 1 \in Nat
    BY <1>1, Constants, SMTT(30)
  <2>2. s[i] \in Peer[at + i - 1]
    BY DEF Placed
  <2> QED
    BY <2>1, <2>2 DEF Peer, StreamBytes
<1>3. s \in [1..Len(s) -> StreamBytes]
  BY <1>1, <1>2
<1> QED
  BY <1>1, <1>3, FunctionIsSeq

\* Two sequences are made of the bytes their concatenation is made of.
LEMMA PartsOfConcat ==
  ASSUME NEW S, NEW T, NEW a \in Seq(S), NEW b \in Seq(S), a \o b \in Seq(T)
  PROVE  a \in Seq(T) /\ b \in Seq(T)
<1>1. /\ Len(a) \in Nat /\ a \in [1..Len(a) -> S] /\ Len(b) \in Nat /\ b \in [1..Len(b) -> S]
      /\ Len(a \o b) = Len(a) + Len(b)
      /\ \A i \in 1..Len(a) + Len(b) : (a \o b)[i] = IF i <= Len(a) THEN a[i] ELSE b[i - Len(a)]
  BY SeqIsFunction, ConcatElements
<1>2. ASSUME NEW i \in 1..Len(a) PROVE a[i] \in T
  <2>1. i \in 1..Len(a) + Len(b) /\ i <= Len(a)
    BY <1>1, SMTT(30)
  <2> QED
    BY <1>1, <2>1, ElementType
<1>3. ASSUME NEW i \in 1..Len(b) PROVE b[i] \in T
  <2> DEFINE j == Len(a) + i
  <2>1. j \in 1..Len(a) + Len(b) /\ ~(j <= Len(a)) /\ j - Len(a) = i
    BY <1>1, SMTT(30)
  <2> HIDE DEF j
  <2> QED
    BY <1>1, <2>1, ElementType
<1>4. a \in [1..Len(a) -> T] /\ b \in [1..Len(b) -> T]
  BY <1>1, <1>2, <1>3
<1> QED
  BY <1>1, <1>4, FunctionIsSeq

\* A stream is a stream of the bytes in its buffer.
LEMMA StreamOfItsBytes ==
  ASSUME NEW S, NEW T, NEW o \in Streams(S), o.buf \in Seq(T)
  PROVE  o \in Streams(T)
<1>1. /\ o \in [buf : Seq(S), capacity : Nat, size : Nat, isInputEnd : BOOLEAN,
                numWritten : Nat, numRead : Nat, error : BOOLEAN]
      /\ o.size = Len(o.buf) /\ o.size <= o.capacity
  BY DEF Streams
<1>2. o \in [buf : Seq(T), capacity : Nat, size : Nat, isInputEnd : BOOLEAN,
             numWritten : Nat, numRead : Nat, error : BOOLEAN]
  <2>1. o = [buf |-> o.buf, capacity |-> o.capacity, size |-> o.size, isInputEnd |-> o.isInputEnd,
             numWritten |-> o.numWritten, numRead |-> o.numRead, error |-> o.error]
    BY <1>1
  <2>2. /\ o.capacity \in Nat /\ o.size \in Nat /\ o.isInputEnd \in BOOLEAN
        /\ o.numWritten \in Nat /\ o.numRead \in Nat /\ o.error \in BOOLEAN
    BY <1>1
  <2> QED
    BY <2>1, <2>2
<1> QED
  BY <1>1, <1>2 DEF Streams

\* The members of the reassembler and of its output, and what the reader got, have their types.
LEMMA MembersTyped ==
  ASSUME NEW x, NEW d, InOrder(x, d)
  PROVE  /\ x.exIdx \in 0..StreamLen /\ x.eofIdx \in Nat /\ x.eofSignRecv \in BOOLEAN
         /\ DOMAIN x.strs \subseteq Nat
         /\ \A k \in DOMAIN x.strs : x.strs[k] \in Seq(StreamBytes)
         /\ x.output \in Streams(StreamBytes)
         /\ d \in Seq(StreamBytes)
<1> DEFINE all == d \o x.output.buf
<1>1. /\ Limit(x) \in Nat /\ Limit(x) <= StreamLen /\ Good(x, Limit(x), Peer, StreamLen)
      /\ x.exIdx \in Nat /\ x.exIdx <= StreamLen
  BY InOrderFacts
<1>2. /\ x.eofIdx \in Nat /\ x.eofSignRecv \in BOOLEAN /\ x.output \in Streams(AnyByte(Peer))
      /\ Fits(x.strs, x.exIdx, Limit(x), Peer)
  BY <1>1 DEF Good, IsReassembler
<1>3. d \in Seq(AnyByte(Peer)) /\ Placed(all, 0, Peer) /\ Len(all) = x.exIdx
  BY DEF InOrder, Delivers
<1>4. ASSUME NEW k \in DOMAIN x.strs PROVE x.strs[k] \in Seq(StreamBytes)
  <2> DEFINE s == x.strs[k]
  <2>1. k \in Nat /\ Placed(s, k, Peer) /\ Len(s) \in Nat /\ k + Len(s) <= Limit(x)
    BY <1>2 DEF Fits, TailIdx
  <2> HIDE DEF s
  <2>2. k + Len(s) <= StreamLen
    BY <1>1, <2>1, Constants, SMTT(30)
  <2>3. s \in Seq(StreamBytes)
    BY <2>1, <2>2, HeldInStream
  <2> QED
    BY <2>3 DEF s
<1>5. all \in Seq(StreamBytes)
  <2>1. 0 \in Nat /\ 0 + Len(all) <= StreamLen
    BY <1>1, <1>3, SMTT(30)
  <2> QED
    BY <1>3, <2>1, HeldInStream
<1>6. x.output.buf \in Seq(AnyByte(Peer))
  BY <1>2 DEF Streams
<1>7. d \in Seq(StreamBytes) /\ x.output.buf \in Seq(StreamBytes)
  <2> DEFINE b == x.output.buf
             S == AnyByte(Peer)
             T == StreamBytes
  <2>1. d \in Seq(S) /\ b \in Seq(S) /\ d \o b \in Seq(T)
    BY <1>3, <1>5, <1>6
  <2> HIDE DEF b, S, T
  <2>2. d \in Seq(T) /\ b \in Seq(T)
    BY <2>1, PartsOfConcat
  <2> QED
    BY <2>2 DEF b, T
<1>8. x.output \in Streams(StreamBytes)
  BY <1>2, <1>7, StreamOfItsBytes
<1>9. x.exIdx \in 0..StreamLen
  BY <1>1, Constants, SMTT(30)
<1>10. DOMAIN x.strs \subseteq Nat
  BY <1>2 DEF Fits
<1> QED
  BY <1>2, <1>4, <1>7, <1>8, <1>9, <1>10

\* What Inv says in the terms of the properties.
LEMMA InvMeans ==
  Inv => /\ TypeOK /\ DeliveredInOrder /\ AcknowledgesOutput
         /\ FirstUnacceptable = v.reassembler.output.numRead + Capacity
<1> SUFFICES ASSUME Inv
             PROVE  /\ TypeOK /\ DeliveredInOrder /\ AcknowledgesOutput
                    /\ FirstUnacceptable = v.reassembler.output.numRead + Capacity
  OBVIOUS
<1> DEFINE x == v.reassembler
           out == x.output
<1>1. /\ IsReceiver(v) /\ InOrder(x, delivered) /\ out.size \in 0..Capacity /\ x.exIdx = out.numRead + out.size
      /\ x.exIdx = out.numWritten /\ x.exIdx \in Nat /\ out.numRead \in Nat /\ out.isInputEnd \in BOOLEAN
      /\ out.isInputEnd => x.exIdx = StreamLen
  BY InOrderFacts DEF Inv
<1>2. v.capacity = Capacity /\ StreamOut(v) = out
  BY <1>1, SMTT(30) DEF IsReceiver, StreamOut
<1>3. WindowSize(v) = Capacity - out.size
  BY <1>2 DEF WindowSize
<1>4. TypeOK
  <2>1. WindowSize(v) \in 0..Capacity
    BY <1>1, <1>3, Constants, SMTT(30)
  <2> QED
    BY <1>1, <1>2, <2>1, MembersTyped DEF TypeOK, IsReceiver
<1>5. DeliveredInOrder
  <2> DEFINE all == delivered \o out.buf
  <2>1. Placed(all, 0, Peer)
    BY <1>1 DEF InOrder, Delivers
  <2> HIDE DEF all
  <2>2. ASSUME NEW i \in 1..Len(all) PROVE all[i] = <<i - 1>>
    <3>1. all[i] \in Peer[0 + i - 1] /\ i \in Nat /\ i >= 1
      BY <2>1, SMTT(30) DEF Placed
    <3>2. 0 + i - 1 = i - 1 /\ i - 1 \in Nat
      BY <3>1, SMTT(30)
    <3> QED
      BY <3>1, <3>2 DEF Peer
  <2> QED
    BY <1>2, <2>2 DEF DeliveredInOrder, all
<1>6. AcknowledgesOutput
  <2> SUFFICES ASSUME v.synRecv PROVE AcknowledgesOutput
    BY DEF AcknowledgesOutput
  <2>1. v.isn = peerIsn /\ v.ackno = AcknoOf(x, peerIsn)
    BY DEF Inv
  <2>2. CASE out.isInputEnd
    <3>1. v.ackno = Wrap(StreamLen + 1 + 1, peerIsn) /\ StreamLen + 1 + 1 = StreamLen + 2
      BY <1>1, <2>1, <2>2, Constants, SMTT(30) DEF AcknoOf
    <3> QED
      BY <1>1, <1>2, <2>1, <2>2, <3>1, SMTT(30) DEF AcknowledgesOutput
  <2>3. CASE ~out.isInputEnd
    <3>1. v.ackno = Wrap(x.exIdx + 1 + 0, peerIsn) /\ x.exIdx + 1 + 0 = out.numWritten + 1
      BY <1>1, <2>1, <2>3, SMTT(30) DEF AcknoOf
    <3> QED
      BY <1>1, <1>2, <2>1, <2>3, <3>1, SMTT(30) DEF AcknowledgesOutput
  <2> QED
    BY <2>2, <2>3
<1>7. FirstUnacceptable = out.numRead + Capacity
  <2> DEFINE size == out.size
             read == out.numRead
  <2>1. FirstUnacceptable = out.numWritten + (Capacity - size) /\ out.numWritten = read + size
    BY <1>1, <1>2, <1>3, SMTT(30) DEF FirstUnacceptable
  <2>2. size \in Nat /\ read \in Nat /\ Capacity \in Nat
    BY <1>1, Constants, SMTT(30)
  <2> HIDE DEF size, read
  <2>3. FirstUnacceptable = read + Capacity
    BY <2>1, <2>2, SMTT(30)
  <2> QED
    BY <2>3 DEF read
<1> QED
  BY <1>4, <1>5, <1>6, <1>7

\* bytes_read() is a natural number.
LEMMA ReadIsNat == Inv => v.reassembler.output.numRead \in Nat
BY InOrderFacts DEF Inv

\* The members of the receiver, of its reassembler and of its output keep their types, the window
\* advertised is between 0 and the capacity, and no byte of a keep-alive is held, put in the
\* output or read.
THEOREM ReceiverTypes == Spec => []TypeOK
BY ReceiverInvariant, InvMeans, PTL

\* segment_received(): the reader gets the peer's bytes, each once and at its place, whatever is
\* lost, repeated, reordered or sent as a keep-alive, and wherever the sequence numbers wrap.
THEOREM ReceiverDelivers == Spec => []DeliveredInOrder
BY ReceiverInvariant, InvMeans, PTL

\* ackno(): what is in the output, no more and no less, and the FIN with the whole stream.
THEOREM ReceiverAcknowledges == Spec => []AcknowledgesOutput
BY ReceiverInvariant, InvMeans, PTL

\* window_size(): the right edge never moves back.
THEOREM ReceiverWindow == Spec => WindowNeverShrinks
<1>1. ASSUME Inv, Inv', [Next]_vars PROVE [FirstUnacceptable' >= FirstUnacceptable]_vars
  <2> DEFINE a == v.reassembler.output.numRead
             b == v'.reassembler.output.numRead
  <2>1. a <= b /\ FirstUnacceptable = a + Capacity /\ a \in Nat
    BY <1>1, NextInv, InvMeans, InOrderFacts DEF Inv
  <2>2. (v.reassembler.output.numRead \in Nat)'
    BY <1>1, ReadIsNat, PTL
  <2>3. (FirstUnacceptable = v.reassembler.output.numRead + Capacity)'
    BY <1>1, InvMeans, PTL
  <2>4. FirstUnacceptable' = b + Capacity /\ b \in Nat
    BY <2>2, <2>3
  <2> HIDE DEF a, b
  <2> QED
    BY <2>1, <2>4, Constants, SMTT(30)
<1> QED
  BY <1>1, ReceiverInvariant, PTL DEF Spec, WindowNeverShrinks

\* What Inv says of the numbers that AbsIndex unwraps next to.
LEMMA CheckpointTyped == Inv => v.isn \in 0..SeqMod - 1 /\ StreamOut(v).numWritten \in Nat
<1> SUFFICES ASSUME Inv PROVE v.isn \in 0..SeqMod - 1 /\ StreamOut(v).numWritten \in Nat
  OBVIOUS
<1>1. StreamOut(v) = v.reassembler.output
  BY DEF StreamOut
<1>2. v.reassembler.output.numWritten \in Nat
  BY InOrderFacts DEF Inv
<1> QED
  BY <1>1, <1>2 DEF Inv, IsReceiver

\* unwrap(), as the receiver calls it: a number near the stream index comes back as it was,
\* in every state the receiver can be in.
THEOREM ReceiverRoundTrip == Spec => []RoundTrip
<1>1. Inv => RoundTrip
  <2> SUFFICES ASSUME Inv PROVE RoundTrip
    OBVIOUS
  <2> DEFINE c == StreamOut(v).numWritten
  <2>1. v.isn \in 0..SeqMod - 1 /\ c \in Nat
    BY CheckpointTyped
  <2> HIDE DEF c
  <2>2. ASSUME NEW n \in 0..c + Half, c - n < Half
        PROVE  Unwrap(Wrap(n, v.isn), v.isn, c) = n
    <3>1. n \in Nat /\ n - c <= Half
      BY <2>1, Constants, SMTT(30)
    <3> QED
      BY <2>1, <2>2, <3>1, RoundTripCorrect
  <2> QED
    BY <2>2 DEF RoundTrip, c
<1> QED
  BY <1>1, ReceiverInvariant, PTL

\* unwrap(), as the receiver calls it: the result is the number closest to the stream index.
THEOREM ReceiverUnwrapsClosest == Spec => []UnwrapIsClosest
<1>1. Inv => UnwrapIsClosest
  <2> SUFFICES ASSUME Inv PROVE UnwrapIsClosest
    OBVIOUS
  <2> DEFINE c == StreamOut(v).numWritten
  <2>1. v.isn \in 0..SeqMod - 1 /\ c \in Nat
    BY CheckpointTyped
  <2> HIDE DEF c
  <2>2. ASSUME NEW n \in 0..StreamLen + SeqMod
        PROVE  /\ Unwrap(Wrap(n, v.isn), v.isn, c) \in Nat
               /\ Wrap(Unwrap(Wrap(n, v.isn), v.isn, c), v.isn) = Wrap(n, v.isn)
               /\ Distance(Unwrap(Wrap(n, v.isn), v.isn, c), c) <= Distance(n, c)
    <3>1. n \in Nat
      BY Constants, SMTT(30)
    <3> QED
      BY <2>1, <3>1, ClosestCorrect
  <2> QED
    BY <2>2 DEF UnwrapIsClosest, c
<1> QED
  BY <1>1, ReceiverInvariant, PTL
===============================================================================
