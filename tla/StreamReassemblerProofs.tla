------------------------ MODULE StreamReassemblerProofs ------------------------
(***************************************************************************)
(* Proofs about StreamReassemblerSpec for every capacity, stream length,   *)
(* size of a push and amount of garbage.  Good says what push_substring()  *)
(* keeps of the object, and Inv adds the reader: the strings in the map    *)
(* do not overlap and end before Limit, the bytes stand where they belong, *)
(* and the output ended if and only if it is complete.                     *)
(***************************************************************************)
EXTENDS StreamReassemblerSpec, StreamReassemblerLemmas

\* Zenon proves the leaves, unless they ask for arithmetic.
USE ZenonT(30)

(* The inductive invariant *)

\* The bytes that may stand at each index: what a polite peer sends for it; of any other peer
\* the proofs only need that it is a byte.
Bytes(p) == [i \in Nat |-> IF p THEN {<<i, 0>>} ELSE ((0..StreamLen) \X Versions) \cup {Garbage}]

\* No string reaches past it.
Limit(x, p) == IF p THEN Least(StreamLen, x.output.numRead + Capacity) ELSE StreamLen

\* Reassembler x, reader's bytes d, manners p of the peer.
Consistent(x, d, p) ==
  /\ p \in BOOLEAN
  /\ Delivers(x, d, Limit(x, p), Bytes(p), StreamLen) /\ x.capacity = Capacity
  /\ p => ~Holds(x.strs, x.exIdx)

Inv == Consistent(r, delivered, polite)

\* The limit is in the stream, and a polite peer's is in the output's room.
LEMMA LimitFacts ==
  ASSUME NEW x, NEW d, NEW p, Consistent(x, d, p)
  PROVE  /\ Limit(x, p) \in Nat /\ Limit(x, p) <= StreamLen
         /\ RoomOrGarbage(x, Limit(x, p), Bytes(p)) /\ (p => InRoom(x, Limit(x, p)))
         /\ x.exIdx + RemainingCapacity(x.output) = x.output.numRead + Capacity
<1> DEFINE read == x.output.numRead
           size == x.output.size
<1>1. /\ read \in Nat /\ size \in Nat /\ x.exIdx = read + size
      /\ RemainingCapacity(x.output) = Capacity - size
  BY DEF Consistent, Delivers, Good, IsReassembler, Streams, RemainingCapacity
<1>2. StreamLen \in Nat /\ Capacity \in Nat /\ p \in BOOLEAN
  BY StreamAssumption, CapacityAssumption DEF Consistent
<1>3. Limit(x, p) = IF p THEN Least(StreamLen, read + Capacity) ELSE StreamLen
  BY DEF Limit
<1> HIDE DEF read, size
<1>4. x.exIdx + RemainingCapacity(x.output) = read + Capacity
  BY <1>1, <1>2, SMTT(30)
<1>5. Limit(x, p) \in Nat /\ Limit(x, p) <= StreamLen /\ (p => Limit(x, p) <= read + Capacity)
  BY <1>1, <1>2, <1>3, SMTT(30) DEF Least
<1>6. ~p => \A i \in Nat : Garbage \in Bytes(p)[i]
  BY DEF Bytes
<1> QED
  BY <1>2, <1>4, <1>5, <1>6 DEF RoomOrGarbage, InRoom, read

\* What a push of a slice does to a consistent reassembler.
LEMMA PushConsistent ==
  ASSUME NEW x, NEW d, NEW p, Consistent(x, d, p), NEW index \in Nat, NEW len \in Nat,
         NEW version \in Versions, NEW eof \in BOOLEAN, NEW junk \in Nat,
         index + len <= StreamLen, eof => index + len = StreamLen,
         p => index + len <= x.output.numRead + Capacity /\ version = 0,
         NEW y, y = PushSubstring(x, Slice(index, len, version), index, eof, junk)
  PROVE  /\ Consistent(y, d, p) /\ Grows(x, y, Bytes(p))
         /\ p => Settled(x, index, index + len, y)
<1> DEFINE G == Bytes(p)
           hi == Limit(x, p)
           data == Slice(index, len, version)
<1>1. /\ hi \in Nat /\ hi <= StreamLen /\ RoomOrGarbage(x, hi, G) /\ (p => InRoom(x, hi))
  BY LimitFacts
<1>2. Placed(data, index, G) /\ Len(data) = len
  <2>1. IsString(data, len)
    BY DEF IsString, Slice
  <2>2. MayStand(data, len, index, G)
    <3> SUFFICES ASSUME NEW i \in 1..len PROVE data[i] \in G[index + i - 1]
      BY DEF MayStand
    <3>1. data[i] = <<index + i - 1, version>> /\ index + i - 1 \in 0..StreamLen
      BY StreamAssumption, SMTT(30) DEF Slice
    <3>2. index + i - 1 \in Nat
      BY SMTT(30)
    <3> QED
      BY <3>1, <3>2, SMTT(30) DEF Bytes
  <2> HIDE DEF data, G
  <2> QED
    BY <2>1, <2>2, PlacedBytes
<1>3. StreamLen \in Nat /\ StreamLen < SizeMod /\ Capacity \in Nat /\ x.output.numRead \in Nat
  <2>1. x.output.numRead \in Nat
    BY DEF Consistent, Delivers, Good, IsReassembler, Streams
  <2> QED
    BY <2>1, StreamAssumption, CapacityAssumption, WidthAssumption, SMTT(30)
<1>4. index + len <= hi
  BY <1>3 DEF Limit, Least
<1>5. Delivers(x, d, hi, G, StreamLen) /\ Good(x, hi, G, StreamLen) /\ p \in BOOLEAN
  BY DEF Consistent, Delivers
<1> HIDE DEF G, hi, data
<1>6. /\ Good(y, hi, G, StreamLen) /\ Grows(x, y, G)
      /\ InRoom(x, hi) => Settled(x, index, index + len, y)
  BY <1>1, <1>2, <1>3, <1>4, <1>5, PushKeeps DEF data
<1>7. y.output.numRead = x.output.numRead /\ y.capacity = x.capacity
  BY <1>6 DEF Grows
<1>8. Limit(y, p) = hi
  BY <1>7 DEF Limit, hi
<1>9. Delivers(y, d, hi, G, StreamLen)
  BY <1>5, <1>6, GrowsDelivers
<1>10. p => ~Holds(y.strs, y.exIdx)
  BY <1>1, <1>6 DEF Settled, Consistent
<1>11. Consistent(y, d, p)
  BY <1>7, <1>8, <1>9, <1>10 DEF Consistent, G
<1> QED
  BY <1>1, <1>6, <1>11 DEF G

\* What the reader takes from a consistent reassembler.
LEMMA ReadConsistent ==
  ASSUME NEW x, NEW d, NEW p, Consistent(x, d, p), NEW len \in Nat, len <= x.output.size,
         NEW y, y = Popped(x, len)
  PROVE  Consistent(y, d \o PeekOutput(x.output, len), p) /\ Reads(x, len, y)
<1> DEFINE G == Bytes(p)
           hi == Limit(x, p)
           top == IF p THEN Least(StreamLen, x.output.numRead + len + Capacity) ELSE StreamLen
<1>1. hi \in Nat
  BY LimitFacts
<1>2. Delivers(x, d, hi, G, StreamLen) /\ p \in BOOLEAN
  BY DEF Consistent
<1>3. top \in Nat /\ hi <= top
  <2>1. Capacity \in Nat /\ StreamLen \in Nat
    BY CapacityAssumption, StreamAssumption
  <2> DEFINE read == x.output.numRead
  <2>2. read \in Nat
    BY <1>2 DEF Delivers, Good, IsReassembler, Streams
  <2>3. /\ hi = IF p THEN Least(StreamLen, read + Capacity) ELSE StreamLen
        /\ top = IF p THEN Least(StreamLen, read + len + Capacity) ELSE StreamLen
    BY DEF Limit
  <2> HIDE DEF read, hi, top
  <2> QED
    BY <2>1, <2>2, <2>3, SMTT(30) DEF Least
<1> HIDE DEF G, hi, top
<1>4. Delivers(y, d \o PeekOutput(x.output, len), top, G, StreamLen) /\ Reads(x, len, y)
  BY <1>1, <1>2, <1>3, PopDelivers
<1>5. top = Limit(y, p)
  BY <1>4 DEF Reads, Limit, top
<1>6. y.capacity = x.capacity /\ y.strs = x.strs /\ y.exIdx = x.exIdx
  BY <1>4 DEF Reads
<1> QED
  BY <1>2, <1>4, <1>5, <1>6 DEF Consistent, G

\* A new reassembler, and a reader with nothing.
LEMMA NewConsistent ==
  ASSUME NEW p \in BOOLEAN
  PROVE  Consistent(NewStreamReassembler(Capacity), <<>>, p)
BY NewDelivers, CapacityAssumption, StreamAssumption DEF Consistent

(* The theorems *)

\* The constructor establishes the invariant.
LEMMA InitInv == Init => Inv
<1> SUFFICES ASSUME Init PROVE Inv
  OBVIOUS
<1>1. polite \in BOOLEAN
  BY StreamAssumption DEF Init
<1> QED
  BY <1>1, NewConsistent DEF Init, Inv

\* What the two actions do to the members.
LEMMA PushStep ==
  ASSUME Inv, NEW index \in 0..StreamLen, NEW len \in 0..MaxPush, NEW version \in Versions,
         NEW eof \in BOOLEAN, NEW junk \in Junk, Push(index, len, version, eof, junk)
  PROVE  /\ Consistent(r', delivered', polite') /\ polite' = polite
         /\ Grows(r, r', Bytes(polite)) /\ (polite => Settled(r, index, index + len, r'))
         /\ index \in Nat /\ len \in Nat /\ index + len <= StreamLen
         /\ polite => index + len <= r.output.numRead + Capacity
<1>1. Consistent(r, delivered, polite)
  BY DEF Inv
<1>2. index \in Nat /\ len \in Nat /\ junk \in Nat
  BY StreamAssumption, JunkAssumption, SMTT(30)
<1>3. /\ index + len <= StreamLen /\ (eof => index + len = StreamLen)
      /\ polite => index + len <= FirstUnacceptable /\ version = 0
      /\ r' = PushSubstring(r, Slice(index, len, version), index, eof, junk)
      /\ delivered' = delivered /\ polite' = polite
  BY DEF Push
<1>4. FirstUnacceptable = r.output.numRead + Capacity
  <2>1. r.exIdx + RemainingCapacity(r.output) = r.output.numRead + Capacity
    BY <1>1, LimitFacts
  <2>2. r.capacity = r.output.capacity
    BY <1>1 DEF Consistent, Delivers, Good, IsReassembler
  <2> QED
    BY <2>1, <2>2 DEF FirstUnacceptable, RemainingCapacity
<1>5. polite => index + len <= r.output.numRead + Capacity /\ version = 0
  BY <1>3, <1>4
<1>6. /\ Consistent(r', delivered, polite) /\ Grows(r, r', Bytes(polite))
      /\ polite => Settled(r, index, index + len, r')
  BY <1>1, <1>2, <1>3, <1>5, PushConsistent
<1> QED
  BY <1>2, <1>3, <1>5, <1>6

\* A read hands out bytes of the output, and touches nothing that is still to be assembled.
LEMMA ReadStep ==
  ASSUME Inv, NEW len \in 1..Capacity, Read(len)
  PROVE  /\ Consistent(r', delivered', polite') /\ polite' = polite
         /\ r'.exIdx = r.exIdx /\ r'.strs = r.strs /\ r'.eofSignRecv = r.eofSignRecv
         /\ r'.output.isInputEnd = r.output.isInputEnd
         /\ r'.output.numRead = r.output.numRead + len /\ r'.output.numRead <= r.exIdx
<1>1. len \in Nat
  BY CapacityAssumption, SMTT(30)
<1>2. /\ len <= r.output.size /\ delivered' = delivered \o PeekOutput(r.output, len)
      /\ r' = Popped(r, len) /\ polite' = polite
  BY DEF Read, Popped
<1>3. Consistent(r, delivered, polite)
  BY DEF Inv
<1> QED
  BY <1>1, <1>2, <1>3, ReadConsistent, SMTT(30) DEF Reads

\* No push and no read breaks the invariant.
LEMMA NextInv == Inv /\ [Next]_vars => Inv'
<1> SUFFICES ASSUME Inv, [Next]_vars PROVE Inv'
  OBVIOUS
<1>1. ASSUME NEW index \in 0..StreamLen, NEW len \in 0..MaxPush, NEW version \in Versions,
             NEW eof \in BOOLEAN, NEW junk \in Junk, Push(index, len, version, eof, junk)
      PROVE  Inv'
  BY <1>1, PushStep DEF Inv
<1>2. ASSUME NEW len \in 1..Capacity, Read(len) PROVE Inv'
  BY <1>2, ReadStep DEF Inv
<1>3. CASE UNCHANGED vars
  BY <1>3 DEF vars, Inv
<1> QED
  BY <1>1, <1>2, <1>3 DEF Next, PushAny, ReadAny

\* Inv is an invariant of the specification.
LEMMA InvHolds == Spec => []Inv
  BY InitInv, NextInv, PTL DEF Spec

\* However a peer cuts, repeats and reorders its stream, _unassembledStrs stays what cutData()
\* and the push loop take for granted: no empty string, no overlap, nothing before _exIdx.
THEOREM ReassemblerMap == Spec => []MapWellFormed
<1>1. Inv => MapWellFormed
  <2> SUFFICES ASSUME Inv PROVE MapWellFormed
    OBVIOUS
  <2> DEFINE hi == Limit(r, polite)
             G == Bytes(polite)
  <2>1. /\ Fits(r.strs, r.exIdx, hi, G) /\ r.exIdx \in Nat /\ r.exIdx = r.output.numWritten
    BY DEF Inv, Consistent, Delivers, Good, IsReassembler
  <2>2. hi \in Nat
    BY LimitFacts DEF Inv
  <2> HIDE DEF hi, G
  <2>3. ASSUME NEW k \in DOMAIN r.strs
        PROVE  /\ r.strs[k] # <<>> /\ k >= r.exIdx
               /\ \A j \in DOMAIN r.strs : j < k => TailIdx(r.strs, j) <= k
    <3>1. Len(r.strs[k]) # 0
      BY <2>1, SMTT(30) DEF Fits
    <3> QED
      BY <2>1, <2>2, <3>1, FitsBounds, SMTT(30)
  <2> QED
    BY <2>1, <2>3 DEF MapWellFormed
<1> QED
  BY <1>1, InvHolds, PTL

\* The output ends exactly at the announced end, whether the last byte or the eof flag
\* comes last.
THEOREM ReassemblerEnds == Spec => []EndsExactlyAtEof
<1>1. Inv => EndsExactlyAtEof
  BY DEF Inv, Consistent, Delivers, Good, EndsExactlyAtEof
<1> QED
  BY <1>1, InvHolds, PTL

\* To a reader whose peer stays inside the window, push_substring() delivers the stream.
THEOREM ReassemblerDelivers == Spec => []InOrderInsideWindow
<1>1. Inv => InOrderInsideWindow
  <2> SUFFICES ASSUME Inv, polite PROVE DeliveredInOrder
    BY DEF InOrderInsideWindow
  <2> DEFINE all == delivered \o r.output.buf
             G == Bytes(polite)
  <2>1. Placed(all, 0, G) /\ Len(all) = r.exIdx /\ r.exIdx \in Nat /\ r.exIdx <= StreamLen
    BY DEF Inv, Consistent, Delivers, Good, IsReassembler
  <2> HIDE DEF all
  <2>2. ASSUME NEW i \in 1..Len(all) PROVE all[i] # Garbage /\ all[i][1] = i - 1
    <3>1. i - 1 \in Nat /\ i - 1 \in 0..StreamLen /\ 0 + i - 1 = i - 1
      BY <2>1, StreamAssumption, SMTT(30)
    <3>2. all[i] \in G[i - 1]
      BY <2>1, <3>1 DEF Placed
    <3>3. all[i] = <<i - 1, 0>>
      BY <3>1, <3>2 DEF Bytes
    <3>4. <<i - 1, 0>> \in (0..StreamLen) \X Versions
      BY <3>1, StreamAssumption
    <3> QED
      BY <3>3, <3>4, GarbageAssumption, SMTT(30)
  <2> QED
    BY <2>2 DEF DeliveredInOrder, all
<1> QED
  BY <1>1, InvHolds, PTL

\* The indices a reassembler holds or has passed on.
Have(x) == {i \in Nat : Holds(x.strs, i) \/ i < x.exIdx}

\* They are the ones the refinement mapping names.
LEMMA HaveIs ==
  ASSUME Inv
  PROVE  Stored \cup 0..r.exIdx - 1 = Have(r)
<1> DEFINE m == r.strs
           lo == r.exIdx
           hi == Limit(r, polite)
           G == Bytes(polite)
<1>1. Fits(m, lo, hi, G) /\ lo \in Nat
  BY DEF Inv, Consistent, Delivers, Good, IsReassembler
<1>2. hi \in Nat
  BY LimitFacts DEF Inv
<1> HIDE DEF hi, G
<1>3. \A i : i \in Stored <=> i \in Nat /\ Holds(m, i)
  <2>1. \A k \in DOMAIN m : k \in Nat /\ TailIdx(m, k) \in Nat
    BY <1>1, <1>2, FitsBounds
  <2>2. \A i : i \in Stored <=> \E k \in DOMAIN m : i \in k..TailIdx(m, k) - 1
    BY DEF Stored
  <2>3. \A k \in DOMAIN m : \A i : i \in k..TailIdx(m, k) - 1 <=> i \in Nat /\ k <= i /\ i < TailIdx(m, k)
    BY <2>1, SMTT(30)
  <2> QED
    BY <2>2, <2>3 DEF Holds
<1>4. \A i : i \in 0..lo - 1 <=> i \in Nat /\ i < lo
  BY <1>1, SMTT(30)
<1> QED
  BY <1>3, <1>4 DEF Have

\* A push by a polite peer adds the indices of the data that were still to come.
LEMMA PushArrives ==
  ASSUME NEW x, NEW y, x.exIdx \in Nat, y.exIdx \in Nat, x.exIdx <= y.exIdx,
         NEW idx \in Nat, NEW tail \in Nat, Settled(x, idx, tail, y)
  PROVE  Have(y) = Have(x) \cup {i \in idx..tail - 1 : i >= x.exIdx}
<1> DEFINE S == {i \in idx..tail - 1 : i >= x.exIdx}
<1>1. \A i : i \in S <=> i \in Nat /\ i >= x.exIdx /\ i \in idx..tail - 1
  BY SMTT(30)
<1>2. ASSUME NEW i \in Nat, i >= y.exIdx PROVE i \in Have(y) <=> i \in Have(x) \cup S
  <2>1. Holds(y.strs, i) <=> Holds(x.strs, i) \/ i \in S
    BY <1>1, <1>2 DEF Settled, Wanted
  <2>2. ~(i < y.exIdx) /\ ~(i < x.exIdx)
    BY <1>2, SMTT(30)
  <2> QED
    BY <2>1, <2>2 DEF Have
<1>3. ASSUME NEW i \in Nat, i < y.exIdx PROVE i \in Have(y) <=> i \in Have(x) \cup S
  <2>1. i \in Have(y)
    BY <1>3 DEF Have
  <2>2. CASE i < x.exIdx
    BY <2>1, <2>2 DEF Have
  <2>3. CASE i >= x.exIdx
    <3>1. i \in x.exIdx..y.exIdx - 1
      BY <1>3, <2>3, SMTT(30)
    <3>2. Holds(x.strs, i) \/ i \in S
      BY <1>1, <2>3, <3>1 DEF Settled, Wanted
    <3> QED
      BY <2>1, <3>2 DEF Have
  <2> QED
    BY <2>2, <2>3, SMTT(30)
<1>4. \A i : i \in Have(y) \/ i \in Have(x) \cup S => i \in Nat
  BY <1>1 DEF Have
<1> HIDE DEF S
<1>5. \A i \in Nat : i \in Have(y) <=> i \in Have(x) \cup S
  BY <1>2, <1>3, SMTT(30)
<1> QED
  BY <1>4, <1>5 DEF S

\* A push by a polite peer is an arrival of the abstract specification.
LEMMA PushPromised ==
  ASSUME Inv, polite, NEW index \in 0..StreamLen, NEW len \in 0..MaxPush, NEW version \in Versions,
         NEW eof \in BOOLEAN, NEW junk \in Junk, Push(index, len, version, eof, junk)
  PROVE  Promised!Arrive
<1> DEFINE S == {i \in index..index + len - 1 : i >= r.exIdx}
<1>1. /\ Consistent(r', delivered', polite') /\ polite' = polite
      /\ Grows(r, r', Bytes(polite)) /\ Settled(r, index, index + len, r')
      /\ index \in Nat /\ len \in Nat /\ index + len <= StreamLen
      /\ index + len <= r.output.numRead + Capacity
  BY PushStep
<1>2. /\ r.exIdx \in Nat /\ r.output.numRead \in Nat /\ r.eofSignRecv \in BOOLEAN
  BY DEF Inv, Consistent, Delivers, Good, IsReassembler, Streams
<1>3. /\ r'.exIdx \in Nat /\ r'.exIdx <= StreamLen /\ r'.eofSignRecv \in BOOLEAN
      /\ r'.output.isInputEnd \in BOOLEAN
      /\ r'.output.isInputEnd <=> r'.eofSignRecv /\ r'.exIdx = StreamLen
      /\ ~Holds(r'.strs, r'.exIdx)
  BY <1>1 DEF Consistent, Delivers, Good, IsReassembler, Streams
<1>4. /\ r.exIdx <= r'.exIdx /\ r'.output.numRead = r.output.numRead
      /\ r.eofSignRecv => r'.eofSignRecv
  BY <1>1 DEF Grows
<1>5. Stored \cup 0..r.exIdx - 1 = Have(r)
  BY HaveIs
<1>6. (Stored \cup 0..r.exIdx - 1)' = Have(r')
  <2>1. Inv'
    BY <1>1 DEF Inv
  <2>2. (Stored \cup 0..r.exIdx - 1 = Have(r))'
    BY <2>1, HaveIs, PTL
  <2> QED
    BY <2>2
<1>7. Have(r') = Have(r) \cup S
  BY <1>1, <1>2, <1>3, <1>4, PushArrives, SMTT(30)
<1>8. S \subseteq (r.exIdx..r.output.numRead + Capacity - 1) \cap (0..StreamLen - 1)
  BY <1>1, <1>2, CapacityAssumption, StreamAssumption, SMTT(30)
<1>9. 0..r'.exIdx - 1 \subseteq Have(r') /\ r'.exIdx \notin Have(r')
  BY <1>3, SMTT(30) DEF Have
<1>10. r'.output.isInputEnd = (r'.eofSignRecv /\ r'.exIdx = StreamLen)
  BY <1>3
<1>11. r'.eofSignRecv \in {r.eofSignRecv, TRUE}
  BY <1>2, <1>3, <1>4
<1>12. r'.exIdx \in 0..StreamLen
  BY <1>3, StreamAssumption, SMTT(30)
<1> QED
  BY <1>4, <1>5, <1>6, <1>7, <1>8, <1>9, <1>10, <1>11, <1>12 DEF Promised!Arrive, Promised!Window

\* A read is a delivery of the abstract specification.
LEMMA ReadPromised ==
  ASSUME Inv, NEW len \in 1..Capacity, Read(len)
  PROVE  Promised!Take
<1>1. /\ r'.exIdx = r.exIdx /\ r'.strs = r.strs /\ r'.eofSignRecv = r.eofSignRecv
      /\ r'.output.isInputEnd = r.output.isInputEnd
      /\ r'.output.numRead = r.output.numRead + len /\ r'.output.numRead <= r.exIdx
  BY ReadStep
<1>2. r.output.numRead \in Nat /\ r.exIdx \in Nat
  BY DEF Inv, Consistent, Delivers, Good, IsReassembler, Streams
<1>3. r'.output.numRead \in r.output.numRead + 1..r.exIdx
  BY <1>1, <1>2, CapacityAssumption, SMTT(30)
<1>4. Stored' = Stored
  BY <1>1 DEF Stored
<1> QED
  BY <1>1, <1>3, <1>4 DEF Promised!Take

\* To a peer inside the window the class is OrderedDelivery: bytes may arrive in any order,
\* each is passed on as soon as those before it are there, nothing outside the window is
\* kept, and the stream closes exactly when the last one is in place.
THEOREM ReassemblerKeepsPromise == Spec => KeepsPromise
<1>1. Init => (polite => Promised!Init)
  <2> SUFFICES ASSUME Init PROVE Promised!Init
    OBVIOUS
  <2>1. /\ r.exIdx = 0 /\ r.strs = <<>> /\ r.eofSignRecv = FALSE
        /\ r.output.numRead = 0 /\ r.output.isInputEnd = FALSE
    BY DEF Init, NewStreamReassembler, NewByteStream
  <2>2. Stored = {}
    BY <2>1, SMTT(30) DEF Stored
  <2> QED
    BY <2>1, <2>2, SMTT(30) DEF Promised!Init
<1>2. Inv /\ [Next]_vars => [polite => Promised!Next \/ UNCHANGED Promised!Promise]_vars
  <2> SUFFICES ASSUME Inv, Next, polite PROVE Promised!Next
    OBVIOUS
  <2> QED
    BY PushPromised, ReadPromised DEF Next, PushAny, ReadAny, Promised!Next
<1> QED
  BY <1>1, <1>2, InvHolds, PTL DEF Spec, KeepsPromise

(* The contents sent last *)

\* The string of m at key k holds the bytes of data, which starts at idx, wherever the two meet.
Agrees(m, k, idx, data) ==
  \A i \in k..TailIdx(m, k) - 1 : i \in idx..idx + Len(data) - 1 => m[k][i - k + 1] = data[i - idx + 1]

\* So do all strings of m.
Newest(m, idx, data) == \A k \in DOMAIN m : Agrees(m, k, idx, data)

\* Strings that do not meet agree.
LEMMA ApartAgrees ==
  ASSUME NEW m, NEW k \in Nat, NEW tail \in Nat, TailIdx(m, k) = tail, NEW idx \in Nat, NEW data,
         NEW len \in Nat, Len(data) = len, tail <= idx \/ idx + len <= k
  PROVE  Agrees(m, k, idx, data)
<1>1. \A i \in k..tail - 1 : i \notin idx..idx + len - 1
  BY SMTT(30)
<1> QED
  BY <1>1 DEF Agrees

\* y holds the bytes of s from position `from` to position `to`.
IsPart(y, s, from, to) ==
  Len(y) = to - from + 1 /\ \A i \in 1..to - from + 1 : y[i] = s[from + i - 1]

\* std::string::substr, byte by byte.
LEMMA PartBytes ==
  ASSUME NEW S, NEW s \in Seq(S), NEW from \in Nat \ {0}, NEW to \in Nat, to <= Len(s), from <= to + 1
  PROVE  IsPart(SubSeq(s, from, to), s, from, to)
BY SMTT(30) DEF IsPart

\* y is s with the bytes after the first `from` replaced by those of d.
Overwritten(y, s, from, d) ==
  /\ Len(y) = Len(s)
  /\ \A i \in 1..Len(s) : i > from /\ i <= from + Len(d) => y[i] = d[i - from]

\* std::string::replace, byte by byte.
LEMMA OverwriteBytes ==
  ASSUME NEW s, Len(s) \in Nat, NEW from \in Nat, NEW d, Len(d) \in Nat
  PROVE  Overwritten(Overwrite(s, from, d), s, from, d)
<1> DEFINE n == Len(s)
           l == Len(d)
<1>1. Overwrite(s, from, d) = [i \in 1..n |-> IF i \in from + 1..from + l THEN d[i - from] ELSE s[i]]
  BY DEF Overwrite
<1>2. n \in Nat /\ l \in Nat
  OBVIOUS
<1> HIDE DEF n, l
<1>3. \A i \in 1..n : i > from /\ i <= from + l => i \in from + 1..from + l
  BY <1>2, SMTT(30)
<1>4. Len([i \in 1..n |-> IF i \in from + 1..from + l THEN d[i - from] ELSE s[i]]) = n
  BY <1>2, SMTT(30)
<1>5. Len(Overwrite(s, from, d)) = n
  BY <1>1, <1>4
<1>6. \A i \in 1..n : i > from /\ i <= from + l => Overwrite(s, from, d)[i] = d[i - from]
  BY <1>1, <1>3
<1> QED
  BY <1>5, <1>6 DEF Overwritten, n, l

\* A string that is the same in another map agrees there too.
LEMMA SameAgrees ==
  ASSUME NEW m, NEW y, NEW k, y[k] = m[k], NEW idx, NEW data, Agrees(m, k, idx, data)
  PROVE  Agrees(y, k, idx, data)
<1>1. TailIdx(y, k) = TailIdx(m, k)
  BY DEF TailIdx
<1>2. ASSUME NEW i \in k..TailIdx(y, k) - 1, i \in idx..idx + Len(data) - 1
      PROVE  y[k][i - k + 1] = data[i - idx + 1]
  <2>1. i \in k..TailIdx(m, k) - 1
    BY <1>1
  <2>2. m[k][i - k + 1] = data[i - idx + 1]
    BY <1>2, <2>1 DEF Agrees
  <2> QED
    BY <2>2
<1> QED
  BY <1>2 DEF Agrees

\* Whatever lies in front of what the first half of cutData() left has the new bytes.
FrontHasNew(c, idx, data, len) ==
  /\ c.drop => Newest(c.strs, idx, data)
  /\ ~c.drop => /\ c.data = SubSeq(data, c.idx - idx + 1, len)
                /\ \A k \in DOMAIN c.strs : k < c.idx => Agrees(c.strs, k, idx, data)

\* cutData(), first half.
LEMMA FrontNewest ==
  ASSUME NEW x, NEW hi \in Nat, NEW G, x.exIdx \in Nat, Fits(x.strs, x.exIdx, hi, G),
         NEW idx \in Nat, NEW data, Placed(data, idx, G), NEW len \in Nat \ {0}, Len(data) = len,
         idx + len <= hi, hi < SizeMod, SizeMod \in Nat
  PROVE  FrontHasNew(CutFront(x, idx, data), idx, data, len)
<1> DEFINE c == CutFront(x, idx, data)
           m == x.strs
           lo == x.exIdx
           tail == idx + len
           overlapped == {k \in GetFrontItr(m, idx) : TailIdx(m, k) > idx}
           f == CHOOSE k \in overlapped : TRUE
           fTail == TailIdx(m, f)
<1>1. Plus(idx, Len(data)) = tail /\ tail \in Nat
  <2>1. len \in Nat /\ idx + len < SizeMod /\ tail \in Nat
    BY SMTT(30)
  <2> QED
    BY <2>1, PlusIsSum
<1>2. \A k \in DOMAIN m : /\ k \in Nat /\ TailIdx(m, k) \in Nat /\ lo <= k /\ k < TailIdx(m, k)
                          /\ TailIdx(m, k) = k + Len(m[k]) /\ Len(m[k]) \in Nat
                          /\ \A j \in DOMAIN m : j < k => TailIdx(m, j) <= k
  BY FitsBounds
<1>3. data \in Seq(AnyByte(G))
  BY DEF Placed
<1>4. FrontCut(m, lo, hi, idx, data, c, G)
  BY CutFrontKeeps
<1> HIDE DEF c
<1> SUFFICES FrontHasNew(c, idx, data, len)
  BY DEF c
<1>5. CASE idx < lo
  <2> DEFINE drop == tail <= lo
             rest == SubSeq(data, lo - idx + 1, Len(data))
  <2>1. c = [drop |-> drop, idx |-> lo, data |-> rest, strs |-> m]
    BY <1>1, <1>5, SMTT(30) DEF CutFront, c
  <2>2. c.strs = m /\ c.idx = lo /\ c.data = SubSeq(data, c.idx - idx + 1, len) /\ (c.drop <=> tail <= lo)
    <3> HIDE DEF drop, rest
    <3>1. c.strs = m /\ c.idx = lo /\ c.data = rest
      BY <2>1
    <3>2. c.drop = drop
      BY <2>1
    <3> QED
      BY <3>1, <3>2 DEF drop, rest
  <2>3. \A k \in DOMAIN m : ~(k < lo)
    BY <1>2, SMTT(30)
  <2>4. ASSUME c.drop, NEW k \in DOMAIN m PROVE Agrees(m, k, idx, data)
    <3>1. idx + len <= k
      BY <1>2, <2>2, <2>4, SMTT(30)
    <3> QED
      BY <1>2, <3>1, ApartAgrees
  <2> QED
    BY <2>2, <2>3, <2>4 DEF Newest, FrontHasNew
<1>6. CASE idx >= lo /\ overlapped = {}
  <2>1. c = [drop |-> FALSE, idx |-> idx, data |-> data, strs |-> m]
    BY <1>6, SMTT(30) DEF CutFront, c
  <2>2. c.strs = m /\ c.idx = idx /\ c.data = data /\ ~c.drop
    <3>1. c.strs = m /\ c.idx = idx /\ c.data = data
      BY <2>1
    <3>2. c.drop = FALSE
      BY <2>1
    <3> QED
      BY <3>1, <3>2
  <2>3. c.data = SubSeq(data, c.idx - idx + 1, len)
    <3>1. c.idx - idx + 1 = 1
      BY <2>2, SMTT(30)
    <3> QED
      BY <1>3, <2>2, <3>1, WholeSubSeq
  <2>4. ASSUME NEW k \in DOMAIN m, k < idx PROVE Agrees(m, k, idx, data)
    <3>1. TailIdx(m, k) <= idx
      BY <1>4, <2>2, <2>4 DEF FrontCut, Waits
    <3> QED
      BY <1>2, <3>1, ApartAgrees
  <2> QED
    BY <2>2, <2>3, <2>4 DEF FrontHasNew
<1>7. CASE idx >= lo /\ overlapped # {}
  <2> DEFINE l == Least(len, fTail - idx)
             new == Overwrite(m[f], idx - f, SubSeq(data, 1, l))
             strs == [m EXCEPT ![f] = new]
             drop == tail <= fTail
             rest == SubSeq(data, fTail - idx + 1, Len(data))
  <2>1. c = [drop |-> drop, idx |-> fTail, data |-> rest, strs |-> strs]
    BY <1>1, <1>7, SMTT(30) DEF CutFront, c
  <2>2. c.strs = strs /\ c.idx = fTail /\ c.data = SubSeq(data, c.idx - idx + 1, len) /\ (c.drop <=> tail <= fTail)
    <3> HIDE DEF drop, rest, strs, fTail
    <3>1. c.strs = strs /\ c.idx = fTail /\ c.data = rest
      BY <2>1
    <3>2. c.drop = drop
      BY <2>1
    <3> QED
      BY <3>1, <3>2 DEF drop, rest
  <2>3. f \in overlapped
    BY <1>7
  <2>4. f \in DOMAIN m /\ f <= idx /\ fTail > idx
    BY <2>3 DEF GetFrontItr
  <2> HIDE DEF f
  <2>5. f \in Nat /\ fTail \in Nat /\ fTail = f + Len(m[f]) /\ Len(m[f]) \in Nat
    BY <1>2, <2>4
  <2>6. m = [k \in DOMAIN m |-> m[k]]
    BY DEF Fits
  <2> HIDE DEF fTail
  <2>7. l \in 0..len /\ l = IF len <= fTail - idx THEN len ELSE fTail - idx
    BY <2>4, <2>5, SMTT(30) DEF Least
  <2>8. Len(SubSeq(data, 1, l)) = l /\ \A i \in 1..l : SubSeq(data, 1, l)[i] = data[i]
    <3> HIDE DEF l
    <3> QED
      BY <1>3, <2>7, SMTT(30)
  <2> HIDE DEF l
  <2>9. idx - f \in Nat /\ l \in Nat
    BY <2>4, <2>5, <2>7, SMTT(30)
  <2>10. /\ Len(new) = Len(m[f])
         /\ \A i \in 1..Len(m[f]) : i > idx - f /\ i <= idx - f + l => new[i] = SubSeq(data, 1, l)[i - (idx - f)]
    <3> DEFINE d == SubSeq(data, 1, l)
               s == m[f]
               from == idx - f
    <3> HIDE DEF d, s, from
    <3>1. Len(d) = l /\ Len(d) \in Nat /\ Len(s) \in Nat /\ from \in Nat
      BY <2>5, <2>8, <2>9 DEF d, s, from
    <3>2. Overwritten(Overwrite(s, from, d), s, from, d)
      BY <3>1, OverwriteBytes
    <3>3. /\ Len(Overwrite(s, from, d)) = Len(s)
          /\ \A i \in 1..Len(s) : i > from /\ i <= from + l => Overwrite(s, from, d)[i] = d[i - from]
      BY <3>1, <3>2 DEF Overwritten
    <3> QED
      BY <3>3 DEF d, s, from
  <2> HIDE DEF new
  <2>11. DOMAIN strs = DOMAIN m /\ strs[f] = new /\ \A k \in DOMAIN m : k # f => strs[k] = m[k]
    BY <2>4, <2>6
  <2> HIDE DEF strs
  <2>12. TailIdx(strs, f) = fTail /\ \A k \in DOMAIN m : k # f => TailIdx(strs, k) = TailIdx(m, k)
    BY <2>5, <2>10, <2>11 DEF TailIdx
  <2>13. Agrees(strs, f, idx, data)
    <3> SUFFICES ASSUME NEW i \in f..fTail - 1, i \in idx..idx + len - 1 PROVE strs[f][i - f + 1] = data[i - idx + 1]
      BY <2>12 DEF Agrees
    <3> DEFINE j == i - f + 1
    <3>1. /\ j \in 1..Len(m[f]) /\ j > idx - f /\ j <= idx - f + l
          /\ j - (idx - f) = i - idx + 1 /\ i - idx + 1 \in 1..l
      BY <2>5, <2>7, SMTT(30)
    <3> HIDE DEF j
    <3>2. new[j] = SubSeq(data, 1, l)[j - (idx - f)]
      BY <2>10, <3>1
    <3>3. new[j] = SubSeq(data, 1, l)[i - idx + 1]
      BY <3>1, <3>2
    <3>4. new[j] = data[i - idx + 1]
      BY <2>8, <3>1, <3>3
    <3> QED
      BY <2>11, <3>4 DEF j
  <2>14. ASSUME NEW k \in DOMAIN m, k # f, c.drop \/ k < c.idx PROVE Agrees(strs, k, idx, data)
    <3>1. /\ k \in Nat /\ TailIdx(m, k) \in Nat /\ (k < f => TailIdx(m, k) <= f) /\ (f < k => fTail <= k)
      BY <1>2, <2>4 DEF fTail
    <3>2. CASE k < f
      <4>1. TailIdx(m, k) <= idx
        BY <2>4, <2>5, <3>1, <3>2, SMTT(30)
      <4> QED
        BY <2>12, <2>14, <3>1, <4>1, ApartAgrees
    <3>3. CASE f < k
      <4>1. fTail <= k /\ ~(k < fTail)
        BY <2>5, <3>1, <3>3, SMTT(30)
      <4>2. tail <= fTail
        BY <2>2, <2>14, <4>1
      <4>3. idx + len <= k
        BY <2>5, <3>1, <4>1, <4>2, SMTT(30)
      <4> QED
        BY <2>12, <2>14, <3>1, <4>3, ApartAgrees
    <3>4. k < f \/ f < k
      BY <2>5, <2>14, <3>1, SMTT(30)
    <3> QED
      BY <3>2, <3>3, <3>4
  <2> QED
    BY <2>2, <2>11, <2>13, <2>14 DEF Newest, FrontHasNew
<1>8. overlapped = {} \/ overlapped # {}
  OBVIOUS
<1> HIDE DEF overlapped
<1>9. idx < lo \/ idx >= lo
  BY SMTT(30)
<1> QED
  BY <1>5, <1>6, <1>7, <1>8, <1>9

\* Every string the second half of cutData() left in m has the new bytes, what is left of the
\* data is the front of it, and the strings before it stay as they were.
BackHasNew(m, c, idx, data) ==
  /\ Newest(c.strs, idx, data) /\ DOMAIN c.strs \subseteq DOMAIN m
  /\ \A k \in DOMAIN c.strs : k < idx => c.strs[k] = m[k]
  /\ \A k \in DOMAIN c.strs : TailIdx(c.strs, k) = TailIdx(m, k)
  /\ \A j \in 1..Len(c.data) : c.data[j] = data[j]

\* cutData(), second half.
LEMMA BackNewest ==
  ASSUME NEW m, NEW lo \in Nat, NEW hi \in Nat, NEW G, Fits(m, lo, hi, G),
         NEW idx \in Nat, NEW data, Waits(m, lo, idx, data, G), NEW len \in Nat \ {0}, Len(data) = len,
         idx + len <= hi, hi < SizeMod, SizeMod \in Nat
  PROVE  BackHasNew(m, CutBack(m, idx, data), idx, data)
<1> DEFINE c == CutBack(m, idx, data)
           tail == idx + len
           overlapped == {k \in GetBackItr(m, idx) : k < tail}
           inside == {k \in overlapped : TailIdx(m, k) < tail}
           last == overlapped \ inside
           b == CHOOSE k \in last : TRUE
           New(k) == SubSeq(data, k - idx + 1, Len(data))
           rest == IF last = {} THEN data ELSE SubSeq(data, 1, b - idx)
           strs == [k \in DOMAIN m \ inside |-> IF k \in last THEN Overwrite(m[k], 0, New(k)) ELSE m[k]]
<1>1. Plus(idx, Len(data)) = tail /\ tail \in Nat
  <2>1. len \in Nat /\ idx + len < SizeMod /\ tail \in Nat
    BY SMTT(30)
  <2> QED
    BY <2>1, PlusIsSum
<1>2. c = [drop |-> idx \in last, idx |-> idx, data |-> rest, strs |-> strs]
  BY <1>1 DEF CutBack
<1>3. c.data = rest /\ c.strs = strs
  <2> DEFINE drop == idx \in last
  <2>1. c = [drop |-> drop, idx |-> idx, data |-> rest, strs |-> strs]
    BY <1>2
  <2> HIDE DEF drop, rest, strs, c
  <2> QED
    BY <2>1
<1> HIDE DEF c
<1>4. \A k \in DOMAIN m : /\ k \in Nat /\ TailIdx(m, k) \in Nat /\ k < TailIdx(m, k)
                          /\ TailIdx(m, k) = k + Len(m[k]) /\ Len(m[k]) \in Nat
  BY FitsBounds
<1>5. /\ data \in Seq(AnyByte(G)) /\ \A k \in DOMAIN m : k < idx => TailIdx(m, k) <= idx
      /\ idx = 0 => idx \notin DOMAIN m
  BY DEF Waits, Placed
<1>6. \A k \in DOMAIN m : k \in overlapped <=> k >= idx /\ k < tail
  <2> TAKE k \in DOMAIN m
  <2>1. k \in Nat /\ (idx = 0 => k # 0)
    BY <1>4, <1>5
  <2>2. (IF idx = 0 THEN k > 0 ELSE k >= idx) <=> k >= idx
    BY <2>1, SMTT(30)
  <2> QED
    BY <2>2 DEF GetBackItr
<1>7. overlapped \subseteq DOMAIN m
  BY DEF GetBackItr
<1>8. \A k \in last : k \in DOMAIN m /\ k >= idx /\ k < tail /\ TailIdx(m, k) >= tail
  <2> TAKE k \in last
  <2>1. k \in DOMAIN m /\ k >= idx /\ k < tail /\ ~(TailIdx(m, k) < tail)
    BY <1>6, <1>7
  <2> QED
    BY <1>1, <1>4, <2>1, SMTT(30)
<1>9. /\ DOMAIN strs = DOMAIN m \ inside
      /\ \A k \in last : k \in DOMAIN strs /\ strs[k] = Overwrite(m[k], 0, New(k))
      /\ \A k \in DOMAIN strs : k \notin last => strs[k] = m[k]
  BY <1>7
<1>10. ASSUME NEW k \in DOMAIN strs, k \notin last PROVE k \in DOMAIN m /\ (k < idx \/ k >= tail)
  <2>1. k \in DOMAIN m /\ ~(k >= idx /\ k < tail)
    BY <1>6, <1>9, <1>10
  <2> QED
    BY <1>1, <1>4, <2>1, SMTT(30)
<1> HIDE DEF strs, inside, last, overlapped, tail
<1>11. ASSUME NEW k \in last
       PROVE  TailIdx(strs, k) = TailIdx(m, k) /\ Agrees(strs, k, idx, data)
  <2>1. /\ k \in Nat /\ k >= idx /\ k < tail /\ TailIdx(m, k) >= tail /\ TailIdx(m, k) = k + Len(m[k])
        /\ Len(m[k]) \in Nat /\ TailIdx(m, k) \in Nat
    BY <1>4, <1>8, <1>11
  <2>2. k - idx + 1 \in Int /\ len \in Int /\ tail = idx + len /\ k - idx \in 0..len
        /\ len - (k - idx + 1) + 1 = tail - k /\ tail - k \in Nat
    BY <2>1, SMTT(30) DEF tail
  <2>3. Len(New(k)) = tail - k /\ \A i \in 1..tail - k : New(k)[i] = data[(k - idx + 1) + i - 1]
    <3> DEFINE n == k - idx + 1
    <3>1. n \in Nat \ {0} /\ len - n + 1 = tail - k /\ n <= len + 1 /\ len <= Len(data)
      BY <2>1, <2>2, SMTT(30)
    <3> HIDE DEF n
    <3>2. IsPart(SubSeq(data, n, len), data, n, len)
      BY <1>5, <3>1, PartBytes
    <3>3. /\ Len(SubSeq(data, n, len)) = len - n + 1
          /\ \A i \in 1..len - n + 1 : SubSeq(data, n, len)[i] = data[n + i - 1]
      BY <3>2 DEF IsPart
    <3> QED
      BY <3>1, <3>3 DEF n
  <2> HIDE DEF New
  <2>4. /\ Len(strs[k]) = Len(m[k])
        /\ \A i \in 1..Len(m[k]) : i > 0 /\ i <= 0 + (tail - k) => strs[k][i] = New(k)[i - 0]
    <3> DEFINE d == New(k)
               s == m[k]
               l == tail - k
    <3> HIDE DEF d, s, l
    <3>1. Len(d) = l /\ Len(d) \in Nat /\ Len(s) \in Nat /\ 0 \in Nat
      BY <2>1, <2>2, <2>3, SMTT(30) DEF d, s, l
    <3>4. Overwritten(Overwrite(s, 0, d), s, 0, d)
      BY <3>1, OverwriteBytes
    <3>2. /\ Len(Overwrite(s, 0, d)) = Len(s)
          /\ \A i \in 1..Len(s) : i > 0 /\ i <= 0 + l => Overwrite(s, 0, d)[i] = d[i - 0]
      BY <3>1, <3>4 DEF Overwritten
    <3>3. strs[k] = Overwrite(s, 0, d)
      BY <1>9, <1>11 DEF s, d
    <3> QED
      BY <3>2, <3>3 DEF d, s, l
  <2>5. TailIdx(strs, k) = TailIdx(m, k)
    BY <2>4 DEF TailIdx
  <2>6. ASSUME NEW i \in k..TailIdx(m, k) - 1, i \in idx..idx + len - 1
        PROVE  strs[k][i - k + 1] = data[i - idx + 1]
    <3> DEFINE j == i - k + 1
    <3>1. /\ j \in 1..Len(m[k]) /\ j > 0 /\ j <= 0 + (tail - k) /\ j - 0 = j
          /\ j \in 1..tail - k /\ (k - idx + 1) + j - 1 = i - idx + 1
      BY <2>1, <2>2, <2>6, SMTT(30)
    <3> HIDE DEF j
    <3>2. strs[k][j] = New(k)[j - 0]
      BY <2>4, <3>1
    <3>3. New(k)[j] = data[(k - idx + 1) + j - 1]
      BY <2>3, <3>1
    <3>4. strs[k][j] = data[i - idx + 1]
      BY <3>1, <3>2, <3>3
    <3> QED
      BY <3>4 DEF j
  <2> QED
    BY <2>5, <2>6 DEF Agrees
<1>12. ASSUME NEW k \in DOMAIN strs, k \notin last
       PROVE  TailIdx(strs, k) = TailIdx(m, k) /\ strs[k] = m[k] /\ Agrees(strs, k, idx, data)
  <2>1. k \in DOMAIN m /\ (k < idx \/ k >= tail) /\ strs[k] = m[k] /\ k \in Nat /\ TailIdx(m, k) \in Nat
    BY <1>4, <1>9, <1>10, <1>12
  <2>2. TailIdx(m, k) <= idx \/ idx + len <= k
    BY <1>5, <2>1, SMTT(30) DEF tail
  <2>3. TailIdx(strs, k) = TailIdx(m, k)
    BY <2>1 DEF TailIdx
  <2> QED
    BY <2>1, <2>2, <2>3, ApartAgrees
<1>13. \A k \in DOMAIN strs : k < idx => k \notin last
  <2>1. \A k \in last : k \in Nat /\ k >= idx
    BY <1>4, <1>8
  <2> QED
    BY <2>1, SMTT(30)
<1>14. ASSUME NEW j \in 1..Len(rest) PROVE rest[j] = data[j]
  <2>1. CASE last = {}
    BY <2>1
  <2>2. CASE last # {}
    <3>1. b \in last
      BY <2>2
    <3> DEFINE n == b - idx
    <3>2. n \in 0..len
      BY <1>4, <1>8, <3>1, SMTT(30) DEF tail
    <3>3. rest = SubSeq(data, 1, n)
      BY <2>2
    <3> HIDE DEF n, b, rest
    <3>4. Len(SubSeq(data, 1, n)) = n
      BY <1>5, <3>2, PrefixType
    <3>5. j \in 1..n
      BY <1>14, <3>3, <3>4
    <3>6. SubSeq(data, 1, n)[j] = data[j]
      BY <1>5, <3>2, <3>5, SMTT(30)
    <3> QED
      BY <3>3, <3>6
  <2> QED
    BY <2>1, <2>2
<1> HIDE DEF rest
<1> QED
  <2>1. BackHasNew(m, c, idx, data)
    BY <1>3, <1>9, <1>11, <1>12, <1>13, <1>14 DEF Newest, BackHasNew
  <2> QED
    BY <2>1 DEF c

\* Every string cutData() left has the new bytes, and what is left of the data is a part of it.
HasNew(c, idx, data) ==
  /\ Newest(c.strs, idx, data)
  /\ ~c.drop => \A j \in 1..Len(c.data) : c.data[j] = data[c.idx - idx + j]

\* cutData() leaves no old byte where the new string has one.
LEMMA CutNewest ==
  ASSUME NEW x, NEW hi \in Nat, NEW G, x.exIdx \in Nat, Fits(x.strs, x.exIdx, hi, G),
         NEW idx \in Nat, NEW data, Placed(data, idx, G), NEW len \in Nat \ {0}, Len(data) = len,
         idx + len <= hi, hi < SizeMod, SizeMod \in Nat
  PROVE  HasNew(CutData(x, idx, data), idx, data)
<1> DEFINE f == CutFront(x, idx, data)
           c == CutData(x, idx, data)
           lo == x.exIdx
<1>1. c = IF f.drop THEN f ELSE CutBack(f.strs, f.idx, f.data)
  BY DEF CutData
<1>2. FrontCut(x.strs, lo, hi, idx, data, f, G)
  BY CutFrontKeeps
<1>6. FrontHasNew(f, idx, data, len)
  BY FrontNewest
<1> HIDE DEF f, c
<1> SUFFICES HasNew(c, idx, data)
  BY DEF c
<1>3. /\ f.drop => Newest(f.strs, idx, data)
      /\ ~f.drop => /\ f.data = SubSeq(data, f.idx - idx + 1, len)
                    /\ \A k \in DOMAIN f.strs : k < f.idx => Agrees(f.strs, k, idx, data)
  BY <1>6 DEF FrontHasNew
<1>4. CASE f.drop
  <2>1. c = f
    BY <1>1, <1>4
  <2> QED
    BY <1>3, <1>4, <2>1 DEF HasNew
<1>5. CASE ~f.drop
  <2> DEFINE at == f.idx
             rest == f.data
             n == Len(f.data)
  <2>1. c = CutBack(f.strs, at, rest)
    BY <1>1, <1>5
  <2>2. /\ Fits(f.strs, lo, hi, G) /\ Waits(f.strs, lo, at, rest, G) /\ at + n = idx + len /\ idx <= at
    BY <1>2, <1>5 DEF FrontCut
  <2>3. at \in Nat /\ n \in Nat \ {0}
    BY <2>2 DEF Waits
  <2>4. lo \in Nat /\ Len(rest) = n /\ at + n <= hi
    BY <2>2
  <2> HIDE DEF at, rest, n, lo
  <2>5. /\ Newest(c.strs, at, rest) /\ DOMAIN c.strs \subseteq DOMAIN f.strs
        /\ \A k \in DOMAIN c.strs : k < at => c.strs[k] = f.strs[k]
        /\ \A k \in DOMAIN c.strs : TailIdx(c.strs, k) = TailIdx(f.strs, k)
        /\ \A j \in 1..Len(c.data) : c.data[j] = rest[j]
    <3>1. BackHasNew(f.strs, c, at, rest)
      BY <2>1, <2>2, <2>3, <2>4, BackNewest
    <3> QED
      BY <3>1 DEF BackHasNew
  <2>6. \A j \in 1..n : rest[j] = data[at - idx + j]
    <3> DEFINE first == at - idx + 1
    <3>1. first \in Nat \ {0} /\ len \in Nat /\ len <= Len(data) /\ first <= len + 1
      BY <2>2, <2>3, SMTT(30)
    <3>5. len - first + 1 = n /\ \A j \in 1..n : first + j - 1 = at - idx + j
      BY <2>2, <2>3, SMTT(30)
    <3>2. data \in Seq(AnyByte(G))
      BY DEF Placed
    <3>3. rest = SubSeq(data, first, len)
      BY <1>3, <1>5 DEF rest, at
    <3> HIDE DEF first
    <3>6. IsPart(SubSeq(data, first, len), data, first, len)
      BY <3>1, <3>2, PartBytes
    <3>4. \A j \in 1..len - first + 1 : SubSeq(data, first, len)[j] = data[first + j - 1]
      BY <3>6 DEF IsPart
    <3> QED
      BY <3>3, <3>4, <3>5
  <2>7. ASSUME NEW k \in DOMAIN c.strs PROVE Agrees(c.strs, k, idx, data)
    <3>1. k \in DOMAIN f.strs /\ TailIdx(c.strs, k) = TailIdx(f.strs, k)
      BY <2>5, <2>7
    <3>2. k \in Nat /\ TailIdx(f.strs, k) \in Nat
      BY <2>2, <2>4, <3>1, FitsBounds
    <3> SUFFICES ASSUME NEW i \in k..TailIdx(c.strs, k) - 1, i \in idx..idx + len - 1
                 PROVE  c.strs[k][i - k + 1] = data[i - idx + 1]
      BY DEF Agrees
    <3>3. CASE i < at
      <4>1. k < at
        BY <2>3, <3>1, <3>2, <3>3, SMTT(30)
      <4>2. c.strs[k] = f.strs[k] /\ Agrees(f.strs, k, idx, data)
        BY <1>3, <1>5, <2>5, <2>7, <3>1, <4>1 DEF at
      <4>3. i \in k..TailIdx(f.strs, k) - 1
        BY <3>1
      <4>4. f.strs[k][i - k + 1] = data[i - idx + 1]
        BY <4>2, <4>3 DEF Agrees
      <4> QED
        BY <4>2, <4>4
    <3>4. CASE i >= at
      <4> DEFINE j == i - at + 1
      <4>1. i \in at..at + n - 1 /\ j \in 1..n /\ at - idx + j = i - idx + 1
        BY <2>2, <2>3, <3>4, SMTT(30)
      <4>2. c.strs[k][i - k + 1] = rest[i - at + 1]
        BY <2>4, <2>5, <2>7, <4>1 DEF Newest, Agrees
      <4> HIDE DEF j
      <4>3. rest[j] = data[at - idx + j]
        BY <2>6, <4>1
      <4>4. rest[j] = data[i - idx + 1]
        BY <4>1, <4>3
      <4> QED
        BY <4>2, <4>4 DEF j
    <3> QED
      BY <2>3, <3>2, <3>3, <3>4, SMTT(30)
  <2>8. ASSUME ~c.drop, NEW j \in 1..Len(c.data) PROVE c.data[j] = data[c.idx - idx + j]
    <3>1. BackCut(f.strs, lo, hi, at, at + n, c, G)
      BY <2>1, <2>2, <2>4, CutBackKeeps
    <3>2. c.idx = at /\ Len(c.data) \in Nat /\ at + Len(c.data) <= at + n
      BY <2>8, <3>1 DEF BackCut
    <3>3. j \in 1..n
      BY <2>3, <2>8, <3>2, SMTT(30)
    <3> QED
      BY <2>5, <2>6, <2>8, <3>2, <3>3
  <2> QED
    BY <2>7, <2>8 DEF Newest, HasNew
<1> QED
  BY <1>4, <1>5

\* Step 2 of push_substring() puts the new bytes in.
LEMMA InsertNewest ==
  ASSUME NEW m, NEW at \in Nat, NEW s, NEW n \in Nat, Len(s) = n, NEW idx \in Nat, NEW data,
         Newest(m, idx, data), \A j \in 1..n : s[j] = data[at - idx + j]
  PROVE  Newest(Inserted(m, at, s), idx, data)
<1> DEFINE y == Inserted(m, at, s)
<1>1. /\ DOMAIN y = DOMAIN m \cup {at} /\ y[at] = s
      /\ \A k \in DOMAIN m : k # at => y[k] = m[k]
  BY DEF Inserted
<1> HIDE DEF y
<1>2. TailIdx(y, at) = at + n /\ \A k \in DOMAIN m : k # at => TailIdx(y, k) = TailIdx(m, k)
  BY <1>1 DEF TailIdx
<1>3. Agrees(y, at, idx, data)
  <2> DEFINE tail == at + n
  <2>1. TailIdx(y, at) = tail
    BY <1>2
  <2>2. ASSUME NEW i \in at..tail - 1 PROVE y[at][i - at + 1] = data[i - idx + 1]
    <3> DEFINE j == i - at + 1
    <3>1. j \in 1..n /\ at - idx + j = i - idx + 1
      BY SMTT(30)
    <3> HIDE DEF j
    <3>2. s[j] = data[at - idx + j]
      BY <3>1
    <3>3. s[j] = data[i - idx + 1]
      BY <3>1, <3>2
    <3> QED
      BY <1>1, <3>3 DEF j
  <2> HIDE DEF tail
  <2> QED
    BY <2>1, <2>2 DEF Agrees
<1>4. \A k \in DOMAIN m : k # at => Agrees(y, k, idx, data)
  <2>1. \A k \in DOMAIN m : Agrees(m, k, idx, data)
    BY DEF Newest
  <2> QED
    BY <1>1, <2>1, SameAgrees
<1> QED
  BY <1>1, <1>3, <1>4 DEF Newest, y

\* y is what is left from index `at` of the string of m at key b.
LeftOf(y, m, at, b) ==
  /\ Len(y) = TailIdx(m, b) - at
  /\ \A i \in at..TailIdx(m, b) - 1 : y[i - at + 1] = m[b][i - b + 1]

\* What the loop keeps of a string, byte by byte, if nothing reuses its freed buffer.
LEMMA RemainderBytes ==
  ASSUME NEW m, NEW S, NEW b \in Nat, m[b] \in Seq(S), NEW at \in Nat, b <= at, at <= TailIdx(m, b)
  PROVE  LeftOf(Remainder(m, at, b, 0), m, at, b)
<1> DEFINE s == m[b]
           len == Len(m[b])
           first == at - b + 1
           rest == SubSeq(s, first, len)
           none == [i \in 1..0 |-> Garbage]
           n == TailIdx(m, b) - at
<1>1. len \in Nat /\ TailIdx(m, b) = b + len
  BY SeqIsFunction DEF TailIdx
<1>2. s \in Seq(S) /\ Len(s) = len
  OBVIOUS
<1>3. Remainder(m, at, b, 0) = Overwrite(rest, 0, none)
  BY DEF Remainder
<1> HIDE DEF s, len
<1>4. /\ first \in Nat \ {0} /\ len - first + 1 = n /\ n \in Nat /\ len <= Len(s) /\ first <= len + 1
  BY <1>1, <1>2, SMTT(30)
<1> HIDE DEF first, n
<1>5. Len(rest) = n /\ \A j \in 1..n : rest[j] = s[first + j - 1]
  <2>1. IsPart(rest, s, first, len)
    BY <1>1, <1>2, <1>4, PartBytes
  <2> HIDE DEF rest
  <2> QED
    BY <1>4, <2>1 DEF IsPart
<1>6. Len(none) = 0
  BY SMTT(30)
<1> HIDE DEF rest, none
<1>7. Overwrite(rest, 0, none) = [j \in 1..n |-> IF j \in 0 + 1..0 + 0 THEN none[j - 0] ELSE rest[j]]
  BY <1>5, <1>6 DEF Overwrite
<1>8. \A j \in 1..n : j \notin 0 + 1..0 + 0
  BY SMTT(30)
<1>9. \A j \in 1..n : Overwrite(rest, 0, none)[j] = s[first + j - 1]
  BY <1>5, <1>7, <1>8
<1>10. Len(Overwrite(rest, 0, none)) = n
  BY <1>4, <1>7, SMTT(30)
<1>11. ASSUME NEW i \in at..TailIdx(m, b) - 1
       PROVE  Overwrite(rest, 0, none)[i - at + 1] = s[i - b + 1]
  <2> DEFINE j == i - at + 1
  <2>1. j \in 1..n /\ first + j - 1 = i - b + 1
    BY <1>1, SMTT(30) DEF n, first
  <2> HIDE DEF j
  <2>2. Overwrite(rest, 0, none)[j] = s[first + j - 1]
    BY <1>9, <2>1
  <2>3. Overwrite(rest, 0, none)[j] = s[i - b + 1]
    BY <2>1, <2>2
  <2> QED
    BY <2>3 DEF j
<1> DEFINE y == Remainder(m, at, b, 0)
<1>12. /\ Len(y) = TailIdx(m, b) - at
       /\ \A i \in at..TailIdx(m, b) - 1 : y[i - at + 1] = m[b][i - b + 1]
  <2>1. y = Overwrite(rest, 0, none)
    BY <1>3
  <2> HIDE DEF y
  <2> QED
    BY <1>10, <1>11, <2>1 DEF n, s
<1> QED
  BY <1>12 DEF LeftOf

\* A reassembler is a record with these members.
HasMembers(x) ==
  x = [exIdx |-> x.exIdx, strs |-> x.strs, unassembledSize |-> x.unassembledSize,
       eofSignRecv |-> x.eofSignRecv, eofIdx |-> x.eofIdx, output |-> x.output, capacity |-> x.capacity]

\* Step 3 of push_substring(): what the loop leaves has the bytes it had.
LEMMA LoopNewest ==
  ASSUME NEW p, HasMembers(p), NEW hi \in Nat, NEW G, p.exIdx \in Nat, Fits(p.strs, p.exIdx, hi, G),
         RemainingCapacity(p.output) \in Nat, NEW idx \in Nat, NEW data, Newest(p.strs, idx, data)
  PROVE  Newest(TryPush(p, 0).strs, idx, data)
<1> DEFINE m == p.strs
           lo == p.exIdx
           room == RemainingCapacity(p.output)
           Covered == UNION {k..TailIdx(p.strs, k) - 1 : k \in DOMAIN p.strs}
           chain == {k \in DOMAIN p.strs : p.exIdx <= k /\ p.exIdx..k \subseteq Covered}
           EndedBefore(k) == \/ p.output.isInputEnd
                             \/ \E i \in chain : i < k /\ p.eofSignRecv /\ p.eofIdx <= TailIdx(p.strs, i)
           eaten == {k \in chain : ~EndedBefore(k) /\ TailIdx(p.strs, k) <= p.exIdx + RemainingCapacity(p.output)}
           busy == {k \in chain \ eaten : \A j \in chain \ eaten : k <= j}
           b == CHOOSE k \in busy : TRUE
           x == CASE chain = {} -> p.exIdx
                  [] chain # {} /\ busy = {} -> Max({TailIdx(p.strs, k) : k \in eaten})
                  [] busy # {} -> IF EndedBefore(b) THEN b ELSE p.exIdx + RemainingCapacity(p.output)
           strs == [k \in (DOMAIN p.strs \ (eaten \cup busy)) \cup {x : i \in busy} |->
                      IF k = x THEN Remainder(p.strs, x, b, 0) ELSE p.strs[k]]
<1>1. TryPush(p, 0).strs = strs
  <2> DEFINE ByteAt(i) == LET k == CHOOSE k \in chain : k <= i /\ i < TailIdx(p.strs, k)
                          IN  p.strs[k][i - k + 1]
             bytes == [i \in 1..x - p.exIdx |-> ByteAt(p.exIdx + i - 1)]
             out == IF chain # {} /\ p.eofSignRecv /\ p.eofIdx <= x
                    THEN EndInput(Write(p.output, bytes)) ELSE Write(p.output, bytes)
             size == p.unassembledSize - (x - p.exIdx)
  <2>1. TryPush(p, 0) = [p EXCEPT !.exIdx = x, !.strs = strs, !.unassembledSize = size, !.output = out]
    BY DEF TryPush, Remainder
  <2> HIDE DEF x, strs, size, out
  <2> QED
    BY <2>1 DEF HasMembers
<1>2. chain = Chain(m, lo)
  <2>1. \A i \in Nat : i \in Covered <=> Holds(m, i)
    <3> TAKE i \in Nat
    <3>1. \A k \in DOMAIN m : i \in k..TailIdx(m, k) - 1 <=> k <= i /\ i < TailIdx(m, k)
      BY FitsBounds, SMTT(30)
    <3> QED
      BY <3>1 DEF Holds
  <2>2. \A k \in DOMAIN m : lo <= k /\ lo..k \subseteq Nat
    BY FitsBounds, SMTT(30)
  <2> HIDE DEF Covered
  <2>3. \A k \in DOMAIN m : lo..k \subseteq Covered <=> \A i \in lo..k : Holds(m, i)
    BY <2>1, <2>2
  <2> QED
    BY <2>2, <2>3 DEF Chain
<1>3. chain \subseteq DOMAIN m
  OBVIOUS
<1> HIDE DEF chain
<1>4. \A k : k \in eaten <=> k \in chain /\ ~EndedBefore(k) /\ TailIdx(m, k) <= lo + room
  OBVIOUS
<1> HIDE DEF eaten
<1>5. \A k : k \in busy <=> k \in chain \ eaten /\ \A j \in chain \ eaten : k <= j
  OBVIOUS
<1> HIDE DEF busy
<1>6. x = CASE chain = {} -> lo
            [] chain # {} /\ busy = {} -> Max({TailIdx(m, k) : k \in eaten})
            [] busy # {} -> IF EndedBefore(b) THEN b ELSE lo + room
  OBVIOUS
<1> HIDE DEF x, EndedBefore
<1>7. /\ DOMAIN strs = (DOMAIN m \ (eaten \cup busy)) \cup {x : i \in busy}
      /\ \A k \in DOMAIN strs : strs[k] = IF k = x THEN Remainder(m, x, b, 0) ELSE m[k]
  OBVIOUS
<1> HIDE DEF strs, m, lo, room
<1>8. ASSUME NEW k \in DOMAIN strs, k # x PROVE Agrees(strs, k, idx, data)
  <2>1. k \in DOMAIN m /\ strs[k] = m[k]
    BY <1>7, <1>8
  <2>2. Agrees(m, k, idx, data)
    BY <2>1 DEF Newest, m
  <2> QED
    BY <2>1, <2>2, SameAgrees
<1>9. Fits(m, lo, hi, G) /\ lo \in Nat /\ room \in Nat
  BY DEF m, lo, room
<1>10. CASE busy = {}
  <2>1. chain = eaten
    <3> SUFFICES ASSUME chain \ eaten # {} PROVE FALSE
      BY <1>4
    <3>1. chain \ eaten \subseteq Nat
      BY <1>3, <1>9 DEF Fits
    <3>2. PICK k \in chain \ eaten : \A j \in chain \ eaten : k <= j
      BY <3>1, LeastNatural
    <3> QED
      BY <1>5, <1>10, <3>2
  <2>2. Eaten(m, lo, hi) = chain
    <3>1. \A k \in chain : TailIdx(m, k) <= lo + hi
      BY <1>3, <1>9, FitsBounds, SMTT(30)
    <3> QED
      BY <1>2, <3>1 DEF Eaten
  <2>3. Busy(m, lo, hi) = {}
    BY <1>2, <2>2 DEF Busy
  <2>4. Front(m, lo, hi) = x
    BY <1>2, <1>6, <1>10, <2>1, <2>2, <2>3 DEF Front
  <2>5. Reaches(m, lo, hi, x)
    BY <1>9, <2>4, FrontReaches
  <2>6. x \in Nat /\ \A k \in DOMAIN m \ eaten : k > x
    BY <2>1, <2>2, <2>3, <2>5 DEF Reaches
  <2>7. x \notin DOMAIN strs
    <3>1. ~(x > x)
      BY <2>6, SMTT(30)
    <3> QED
      BY <1>7, <1>10, <2>6, <3>1
  <2> QED
    BY <1>1, <1>8, <2>7 DEF Newest
<1>11. CASE busy # {}
  <2>1. b \in busy
    BY <1>11
  <2> HIDE DEF b
  <2>2. b \in chain /\ b \in DOMAIN m /\ b \notin eaten
    BY <1>3, <1>5, <2>1
  <2>3. /\ b \in Nat /\ TailIdx(m, b) \in Nat /\ b < TailIdx(m, b) /\ Placed(m[b], b, G)
    BY <1>9, <2>2, FitsBounds
  <2>4. x = IF EndedBefore(b) THEN b ELSE lo + room
    BY <1>6, <1>11, <2>2
  <2>5. x \in Nat /\ b <= x /\ x <= TailIdx(m, b)
    <3>1. CASE EndedBefore(b)
      <4>1. x = b
        BY <2>4, <3>1
      <4> QED
        BY <2>3, <4>1, SMTT(30)
    <3>2. CASE ~EndedBefore(b)
      <4>1. x = lo + room
        BY <2>4, <3>2
      <4>2. b \notin Eaten(m, lo, room)
        BY <1>4, <2>2, <3>2 DEF Eaten
      <4>3. \A j \in chain \ Eaten(m, lo, room) : j \in chain \ eaten
        BY <1>2, <1>4 DEF Eaten
      <4>4. b \in Busy(m, lo, room)
        BY <1>2, <1>5, <2>1, <2>2, <4>2, <4>3 DEF Busy
      <4> DEFINE y == Front(m, lo, room)
      <4>5. Reaches(m, lo, room, y)
        BY <1>9, FrontReaches
      <4> HIDE DEF y
      <4>6. y \in Nat /\ b <= y /\ y < TailIdx(m, b) /\ y = lo + room
        BY <4>4, <4>5 DEF Reaches
      <4> QED
        BY <2>3, <4>1, <4>6, SMTT(30)
    <3> QED
      BY <3>1, <3>2
  <2>6. /\ Len(Remainder(m, x, b, 0)) = TailIdx(m, b) - x
        /\ \A i \in x..TailIdx(m, b) - 1 : Remainder(m, x, b, 0)[i - x + 1] = m[b][i - b + 1]
    <3>1. m[b] \in Seq(AnyByte(G))
      BY <2>3 DEF Placed
    <3>2. LeftOf(Remainder(m, x, b, 0), m, x, b)
      BY <2>3, <2>5, <3>1, RemainderBytes
    <3> QED
      BY <3>2 DEF LeftOf
  <2>7. x \in DOMAIN strs /\ strs[x] = Remainder(m, x, b, 0)
    BY <1>7, <2>1
  <2>8. TailIdx(strs, x) = TailIdx(m, b)
    <3>1. TailIdx(strs, x) = x + (TailIdx(m, b) - x)
      BY <2>6, <2>7 DEF TailIdx
    <3> QED
      BY <2>3, <2>5, <3>1, SMTT(30)
  <2>9. Agrees(strs, x, idx, data)
    <3> SUFFICES ASSUME NEW i \in x..TailIdx(m, b) - 1, i \in idx..idx + Len(data) - 1
                 PROVE  strs[x][i - x + 1] = data[i - idx + 1]
      BY <2>8 DEF Agrees
    <3>1. i \in b..TailIdx(m, b) - 1
      BY <2>3, <2>5, SMTT(30)
    <3>2. m[b][i - b + 1] = data[i - idx + 1]
      BY <2>2, <3>1 DEF Newest, Agrees, m
    <3>3. Remainder(m, x, b, 0)[i - x + 1] = m[b][i - b + 1]
      BY <2>6
    <3> QED
      BY <2>7, <3>2, <3>3
  <2> QED
    BY <1>1, <1>8, <2>9 DEF Newest
<1> QED
  BY <1>10, <1>11

\* p is x with the map m.
IsRemapped(x, p, m) ==
  /\ HasMembers(p) /\ p.strs = m /\ p.exIdx = x.exIdx /\ p.output = x.output /\ p.capacity = x.capacity

\* Another map and another count.
LEMMA RemapMembers ==
  ASSUME NEW x, HasMembers(x), NEW m, NEW u
  PROVE  IsRemapped(x, Remapped(x, m, u), m)
<1> DEFINE p == Remapped(x, m, u)
<1>1. x = [exIdx |-> x.exIdx, strs |-> x.strs, unassembledSize |-> x.unassembledSize,
           eofSignRecv |-> x.eofSignRecv, eofIdx |-> x.eofIdx, output |-> x.output,
           capacity |-> x.capacity]
  BY DEF HasMembers
<1>2. p = [exIdx |-> x.exIdx, strs |-> m, unassembledSize |-> u,
           eofSignRecv |-> x.eofSignRecv, eofIdx |-> x.eofIdx, output |-> x.output,
           capacity |-> x.capacity]
  <2>1. p = [x EXCEPT !.strs = m, !.unassembledSize = u]
    BY DEF Remapped
  <2> HIDE DEF p
  <2> QED
    BY <1>1, <2>1
<1> HIDE DEF p
<1>3. /\ p.exIdx = x.exIdx /\ p.strs = m /\ p.unassembledSize = u
      /\ p.eofSignRecv = x.eofSignRecv /\ p.eofIdx = x.eofIdx /\ p.output = x.output
      /\ p.capacity = x.capacity
  BY <1>2
<1>4. HasMembers(p)
  BY <1>2, <1>3 DEF HasMembers
<1> QED
  BY <1>3, <1>4 DEF p, IsRemapped

\* push_substring() on an open output leaves no old byte where the pushed string has one.
LEMMA PushNewest ==
  ASSUME NEW x, HasMembers(x), NEW hi \in Nat, NEW G, x.exIdx \in Nat, Fits(x.strs, x.exIdx, hi, G),
         RemainingCapacity(x.output) \in Nat, ~x.output.isInputEnd,
         NEW idx \in Nat, NEW data, Placed(data, idx, G), NEW len \in Nat \ {0}, Len(data) = len,
         idx + len <= hi, hi < SizeMod, SizeMod \in Nat
  PROVE  Newest(PushSubstring(x, data, idx, FALSE, 0).strs, idx, data)
<1> DEFINE c == CutData(x, idx, data)
           u == x.unassembledSize - MapThenSumSet(LAMBDA k : Len(x.strs[k]), DOMAIN x.strs \ DOMAIN c.strs)
           kept == Remapped(x, c.strs, u)
           p == TryInsert(kept, c.idx, c.data)
           y == PushSubstring(x, data, idx, FALSE, 0)
<1>1. data # <<>>
  BY SMTT(30)
<1>2. y = StoreAndPush(x, c, 0)
  BY <1>1 DEF PushSubstring
<1>3. y = IF c.drop THEN kept ELSE TryPush(p, 0)
  BY <1>2 DEF StoreAndPush, Remapped
<1>4. /\ Newest(c.strs, idx, data)
      /\ ~c.drop => \A j \in 1..Len(c.data) : c.data[j] = data[c.idx - idx + j]
  <2>1. HasNew(c, idx, data)
    BY CutNewest
  <2> HIDE DEF c
  <2> QED
    BY <2>1 DEF HasNew
<1>5. DataCut(x.strs, x.exIdx, hi, idx, idx + len, c, G)
  BY CutDataKeeps
<1> HIDE DEF c, u
<1>6. /\ HasMembers(kept) /\ kept.strs = c.strs /\ kept.exIdx = x.exIdx /\ kept.output = x.output
      /\ kept.capacity = x.capacity
  <2>1. IsRemapped(x, kept, c.strs)
    BY RemapMembers
  <2> HIDE DEF kept
  <2> QED
    BY <2>1 DEF IsRemapped
<1> HIDE DEF kept, p, y
<1>7. CASE c.drop
  BY <1>3, <1>4, <1>6, <1>7 DEF y
<1>8. CASE ~c.drop
  <2> DEFINE at == c.idx
             s == c.data
             n == Len(c.data)
             all == Inserted(c.strs, at, s)
             first == x.exIdx + x.capacity - x.output.size
  <2>1. /\ Fits(c.strs, x.exIdx, hi, G)
        /\ at \in Nat /\ at >= x.exIdx /\ Placed(s, at, G) /\ n \in Nat \ {0} /\ at + n <= idx + len
        /\ Free(c.strs, at, n)
    BY <1>5, <1>8 DEF DataCut
  <2>2. at + n <= hi /\ n \in Nat
    BY <2>1, SMTT(30)
  <2>3. Fits(all, x.exIdx, hi, G)
    BY <2>1, <2>2, InsertFits
  <2>4. Newest(all, idx, data)
    BY <1>4, <1>8, <2>1, <2>2, InsertNewest
  <2> DEFINE v == kept.unassembledSize + n
  <2>5. p = IF at < first THEN Remapped(kept, all, v) ELSE kept
    <3>1. p = IF at < first
              THEN [kept EXCEPT !.strs = Inserted(@, at, s), !.unassembledSize = @ + n]
              ELSE kept
      BY <1>6 DEF p, TryInsert, Inserted
    <3> HIDE DEF at, s, n
    <3>2. [kept EXCEPT !.strs = Inserted(@, at, s), !.unassembledSize = @ + n]
            = [kept EXCEPT !.strs = all, !.unassembledSize = v]
      BY <1>6
    <3> QED
      BY <3>1, <3>2 DEF Remapped
  <2> HIDE DEF all, at, s, n, first, v
  <2>6. /\ HasMembers(p) /\ (p.strs = all \/ p.strs = c.strs) /\ p.exIdx = x.exIdx /\ p.output = x.output
    <3>1. CASE at < first
      <4>1. p = Remapped(kept, all, v)
        BY <2>5, <3>1
      <4>2. IsRemapped(kept, p, all)
        BY <1>6, <4>1, RemapMembers
      <4> QED
        BY <1>6, <4>2 DEF IsRemapped
    <3>2. CASE ~(at < first)
      BY <1>6, <2>5, <3>2
    <3> QED
      BY <3>1, <3>2
  <2>7. /\ Fits(p.strs, p.exIdx, hi, G) /\ Newest(p.strs, idx, data) /\ p.exIdx \in Nat
        /\ RemainingCapacity(p.output) \in Nat
    BY <1>4, <2>1, <2>3, <2>4, <2>6
  <2>8. Newest(TryPush(p, 0).strs, idx, data)
    BY <2>6, <2>7, LoopNewest
  <2> QED
    BY <1>3, <1>8, <2>8 DEF y
<1> QED
  BY <1>7, <1>8

\* A map that fits with some bytes fits with more of them.
LEMMA FitsWider ==
  ASSUME NEW m, NEW lo \in Nat, NEW hi \in Nat, NEW G, Fits(m, lo, hi, G),
         NEW H, \A i \in Nat : G[i] \subseteq H[i]
  PROVE  Fits(m, lo, hi, H)
<1>1. AnyByte(G) \subseteq AnyByte(H)
  BY DEF AnyByte
<1>2. ASSUME NEW k \in DOMAIN m PROVE Placed(m[k], k, H)
  <2> DEFINE s == m[k]
             n == Len(m[k])
  <2>1. k \in Nat /\ s \in Seq(AnyByte(G)) /\ \A i \in 1..n : s[i] \in G[k + i - 1]
    BY <1>2, FitsBounds DEF Placed
  <2>2. n \in Nat /\ s = [i \in 1..n |-> s[i]]
    BY <2>1, SeqIsFunction
  <2> HIDE DEF s, n
  <2>3. \A i \in 1..n : k + i - 1 \in Nat
    BY <2>1, <2>2, SMTT(30)
  <2>4. IsString(s, n) /\ MayStand(s, n, k, H)
    BY <2>1, <2>2, <2>3 DEF IsString, MayStand
  <2>5. Placed(s, k, H)
    BY <2>1, <2>2, <2>4, PlacedBytes
  <2> QED
    BY <2>5 DEF s
<1> QED
  BY <1>2 DEF Fits

\* Every byte a peer may push, at any index.
AllBytes == [i \in Nat |-> (Nat \X Versions) \cup {Garbage}]

\* Whatever is stored when a string is pushed again over it, in part or as a whole, the bytes
\* pushed last are the ones that are kept.
THEOREM ReassemblerNewest == Spec => []NewestWins
<1>1. Inv => NewestWins
  <2> SUFFICES ASSUME Inv, NEW index \in 0..StreamLen, NEW len \in 1..MaxPush, NEW version \in Versions,
                      ~r.output.isInputEnd
               PROVE  LET after == PushSubstring(r, Slice(index, len, version), index, FALSE, 0)
                      IN  \A k \in DOMAIN after.strs :
                            \A i \in (index..index + len - 1) \cap (k..TailIdx(after.strs, k) - 1) :
                              after.strs[k][i - k + 1] = <<i, version>>
    BY DEF NewestWins
  <2> DEFINE after == PushSubstring(r, Slice(index, len, version), index, FALSE, 0)
             G == Bytes(polite)
             H == AllBytes
             hi == Limit(r, polite)
             top == StreamLen + MaxPush
             data == Slice(index, len, version)
  <2> HIDE DEF after
  <2> SUFFICES ASSUME NEW k \in DOMAIN after.strs,
                      NEW i \in (index..index + len - 1) \cap (k..TailIdx(after.strs, k) - 1)
               PROVE  after.strs[k][i - k + 1] = <<i, version>>
    BY DEF after
  <2>1. index \in Nat /\ len \in Nat \ {0} /\ top \in Nat /\ index + len <= top
        /\ top < SizeMod /\ SizeMod \in Nat
    BY StreamAssumption, WidthAssumption, CapacityAssumption, SMTT(30)
  <2>2. hi \in Nat /\ hi <= top
    <3>1. hi \in Nat /\ hi <= StreamLen
      BY LimitFacts DEF Inv
    <3> HIDE DEF hi
    <3> QED
      BY <3>1, StreamAssumption, SMTT(30)
  <2>3. /\ IsReassembler(r, G) /\ Fits(r.strs, r.exIdx, hi, G) /\ r.exIdx \in Nat
        /\ r.output \in Streams(AnyByte(G))
    BY DEF Inv, Consistent, Delivers, Good, IsReassembler
  <2>4. HasMembers(r)
    BY <2>3 DEF IsReassembler, HasMembers
  <2>5. RemainingCapacity(r.output) \in Nat
    BY <2>3, SMTT(30) DEF RemainingCapacity, Streams
  <2>6. \A j \in Nat : G[j] \subseteq H[j]
    <3> SUFFICES ASSUME NEW j \in Nat PROVE G[j] \subseteq H[j]
      OBVIOUS
    <3>1. H[j] = (Nat \X Versions) \cup {Garbage}
      BY DEF AllBytes
    <3>2. G[j] = IF polite THEN {<<j, 0>>} ELSE ((0..StreamLen) \X Versions) \cup {Garbage}
      BY DEF Bytes
    <3>3. <<j, 0>> \in Nat \X Versions
      BY StreamAssumption
    <3>4. (0..StreamLen) \X Versions \subseteq Nat \X Versions
      BY SMTT(30)
    <3> QED
      BY <3>1, <3>2, <3>3, <3>4
  <2>7. Placed(data, index, H) /\ Len(data) = len
    <3>1. IsString(data, len)
      BY DEF IsString, Slice
    <3>2. MayStand(data, len, index, H)
      <4> SUFFICES ASSUME NEW j \in 1..len PROVE data[j] \in H[index + j - 1]
        BY DEF MayStand
      <4>1. index + j - 1 \in Nat
        BY <2>1, SMTT(30)
      <4>2. data[j] = <<index + j - 1, version>>
        BY DEF Slice
      <4>3. H[index + j - 1] = (Nat \X Versions) \cup {Garbage}
        BY <4>1 DEF AllBytes
      <4>4. <<index + j - 1, version>> \in Nat \X Versions
        BY <4>1, SMTT(30)
      <4> QED
        BY <4>2, <4>3, <4>4
    <3> HIDE DEF data, H
    <3> QED
      BY <2>1, <3>1, <3>2, PlacedBytes
  <2> HIDE DEF G, H, hi, top, data
  <2>8. Fits(r.strs, r.exIdx, top, H)
    <3>1. Fits(r.strs, r.exIdx, hi, H)
      BY <2>2, <2>3, <2>6, FitsWider
    <3> QED
      BY <2>1, <2>2, <2>3, <3>1, FitsBelow
  <2>9. Newest(after.strs, index, data)
    BY <2>1, <2>3, <2>4, <2>5, <2>7, <2>8, PushNewest DEF data, after
  <2>10. after.strs[k][i - k + 1] = data[i - index + 1]
    BY <2>7, <2>9 DEF Newest, Agrees
  <2>11. i - index + 1 \in 1..len /\ index + (i - index + 1) - 1 = i
    BY <2>1, SMTT(30)
  <2>12. data[i - index + 1] = <<index + (i - index + 1) - 1, version>>
    BY <2>11 DEF data, Slice
  <2> QED
    BY <2>10, <2>11, <2>12
<1> QED
  BY <1>1, InvHolds, PTL
===============================================================================
