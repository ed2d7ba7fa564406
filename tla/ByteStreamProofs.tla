--------------------------- MODULE ByteStreamProofs ---------------------------
(***************************************************************************)
(* Theorems about ByteStream and ByteStreamSpec, for every set of bytes,   *)
(* every capacity and every bound.  The three invariants of the            *)
(* specification are inductive together: that the counters agree needs the *)
(* types, and that the stream is first-in first-out needs _size to be the  *)
(* length of _buf, or write() would insert in the middle.                  *)
(***************************************************************************)
EXTENDS ByteStreamSpec, CommonLemmas

Inv == TypeOK /\ CountersAgree /\ FirstInFirstOut

\* Associativity of concatenation, over the bytes of the specification.
LEMMA Associative == \A a, b, c \in Seq(Byte) : (a \o b) \o c = a \o (b \o c)
<1> TAKE a, b, c \in Seq(Byte)
<1> QED
  BY ConcatRegroups

\* Every string a writer passes is a sequence of bytes.
LEMMA DataType == ASSUME NEW data \in Data PROVE data \in Seq(Byte)
<1>1. PICK n \in 0..MaxWrite : data \in [1..n -> Byte]
  BY DEF Data
<1>2. n \in Nat
  BY BoundsAssumption
<1> QED
  BY <1>1, <1>2, FunctionIsSeq

\* Under the invariant the stream is one the lemmas above speak of.
LEMMA StreamInv == Inv => stream \in Streams(Byte)
BY CapacityAssumption DEF Inv, TypeOK, CountersAgree, Streams

\* The other way round: a stream of that kind, of the capacity of this one, has its type.
LEMMA WithinCapacity ==
  ASSUME NEW t \in Streams(Byte), t.capacity = Capacity
  PROVE  /\ t \in [buf : Seq(Byte), capacity : {Capacity}, size : 0..Capacity,
                   isInputEnd : BOOLEAN, numWritten : Nat, numRead : Nat,
                   error : BOOLEAN]
         /\ Len(t.buf) <= Capacity
<1>1. t.size \in 0..Capacity /\ Len(t.buf) <= Capacity
  BY CapacityAssumption DEF Streams
<1> QED
  BY <1>1 DEF Streams

\* The constructor establishes the invariant.
LEMMA InitInv == Init => Inv
<1> SUFFICES ASSUME Init PROVE Inv
  OBVIOUS
<1>1. <<>> \in Seq(Byte) /\ Len(<<>>) = 0 /\ <<>> \o <<>> = <<>>
  BY EmptyIsSeq, ConcatEmpty
<1> QED
  BY <1>1, CapacityAssumption DEF Init, NewByteStream, Inv, TypeOK, CountersAgree, FirstInFirstOut

\* No call breaks the invariant.
LEMMA NextInv == Inv /\ [Next]_vars => Inv'
<1> SUFFICES ASSUME Inv, [Next]_vars PROVE Inv'
  OBVIOUS
<1>1. stream \in Streams(Byte) /\ accepted \in Seq(Byte) /\ delivered \in Seq(Byte)
  BY StreamInv DEF Inv, TypeOK
<1>2. /\ stream.capacity = Capacity /\ stream.numWritten = Len(accepted)
      /\ stream.numRead = Len(delivered) /\ stream.numWritten = stream.numRead + stream.size
      /\ accepted = delivered \o stream.buf
  BY DEF Inv, TypeOK, CountersAgree, FirstInFirstOut
<1>3. ASSUME NEW data \in Data, CallWrite(data) PROVE Inv'
  <2> DEFINE n == ToWrite(stream, data)
             new == SubSeq(data, 1, n)
  <2>1. data \in Seq(Byte)
    BY DataType, SMTT(30)
  <2>2. /\ stream' \in Streams(Byte)
        /\ stream' = [stream EXCEPT !.buf = stream.buf \o new, !.size = stream.size + n,
                                    !.numWritten = stream.numWritten + n]
    BY <1>1, <1>3, <2>1, WriteAppends DEF CallWrite
  <2>3. new \in Seq(Byte) /\ Len(new) = n /\ n \in Nat
    BY <1>1, <2>1, ToWriteFits, PrefixType, SeqIsFunction
  <2>4. accepted' = accepted \o new /\ delivered' = delivered
    BY <1>3 DEF CallWrite
  <2> HIDE DEF n, new
  <2>5. accepted' \in Seq(Byte) /\ Len(accepted') = Len(accepted) + n
    BY <1>1, <2>3, <2>4, ConcatElements
  <2>6. /\ stream'.buf = stream.buf \o new /\ stream'.size = stream.size + n
        /\ stream'.numWritten = stream.numWritten + n /\ stream'.numRead = stream.numRead
        /\ stream'.capacity = stream.capacity
    BY <1>1, <2>2, SMTT(30) DEF Streams
  <2>7. TypeOK'
    BY <1>1, <1>2, <2>2, <2>4, <2>5, <2>6, WithinCapacity DEF TypeOK
  <2>8. CountersAgree'
    <3>1. stream'.size = Len(stream'.buf) /\ stream'.size <= stream'.capacity
      BY <2>2 DEF Streams
    <3>2. stream.numRead \in Nat /\ stream.size \in Nat /\ stream.numWritten \in Nat
      BY <1>1 DEF Streams
    <3>3. stream'.size <= Capacity
      BY <1>2, <2>6, <3>1
    <3>4. stream'.numWritten = Len(accepted') /\ stream'.numRead = Len(delivered')
      BY <1>2, <2>4, <2>5, <2>6
    <3>5. stream'.numWritten = stream'.numRead + stream'.size
      BY <1>2, <2>3, <2>6, <3>2
    <3> QED
      BY <3>1, <3>3, <3>4, <3>5 DEF CountersAgree
  <2>9. FirstInFirstOut'
    <3>1. delivered \in Seq(Byte) /\ stream.buf \in Seq(Byte) /\ new \in Seq(Byte)
      BY <1>1, <2>3 DEF Streams
    <3>2. (delivered \o stream.buf) \o new = delivered \o (stream.buf \o new)
      BY <3>1, Associative, Zenon
    <3> QED
      BY <1>2, <2>4, <2>6, <3>2 DEF FirstInFirstOut
  <2> QED
    BY <2>7, <2>8, <2>9 DEF Inv
<1>4. ASSUME NEW len \in 0..Capacity + 1, CallRead(len) PROVE Inv'
  <2> DEFINE out == PeekOutput(stream, len)
             rest == PopOutput(stream, len)
  <2>1. len \in Nat
    BY CapacityAssumption
  <2>2. /\ rest \in Streams(Byte) /\ out \in Seq(Byte) /\ stream.buf = out \o rest.buf
        /\ rest.size = stream.size - Len(out) /\ rest.numRead = stream.numRead + Len(out)
        /\ rest.numWritten = stream.numWritten /\ rest.capacity = stream.capacity
    BY <1>1, <2>1, PopSplits
  <2>3. stream' = rest /\ delivered' = delivered \o out /\ accepted' = accepted
    BY <1>4 DEF CallRead
  <2> HIDE DEF out, rest
  <2>4. delivered' \in Seq(Byte) /\ Len(delivered') = Len(delivered) + Len(out) /\ Len(out) \in Nat
    BY <1>1, <2>2, <2>3, ConcatElements, SeqIsFunction
  <2>5. TypeOK'
    BY <1>1, <1>2, <2>2, <2>3, <2>4, WithinCapacity DEF TypeOK
  <2>6. CountersAgree'
    <3>1. rest.size = Len(rest.buf) /\ rest.size <= rest.capacity
      BY <2>2 DEF Streams
    <3>2. stream.numRead \in Nat /\ stream.size \in Nat
      BY <1>1 DEF Streams
    <3>3. rest.size <= Capacity
      BY <1>2, <2>2, <3>1
    <3>4. rest.numWritten = Len(accepted) /\ rest.numRead = Len(delivered')
      BY <1>2, <2>2, <2>4
    <3>5. rest.numWritten = rest.numRead + rest.size
      BY <1>2, <2>2, <2>4, <3>2
    <3> QED
      BY <2>3, <3>1, <3>3, <3>4, <3>5 DEF CountersAgree
  <2>7. FirstInFirstOut'
    <3>1. delivered \in Seq(Byte) /\ out \in Seq(Byte) /\ rest.buf \in Seq(Byte)
      BY <1>1, <2>2 DEF Streams
    <3>2. (delivered \o out) \o rest.buf = delivered \o (out \o rest.buf)
      BY <3>1, Associative, Zenon
    <3> QED
      BY <1>2, <2>2, <2>3, <3>2 DEF FirstInFirstOut
  <2> QED
    BY <2>5, <2>6, <2>7 DEF Inv
<1>5. CASE CallEndInput
  BY <1>5 DEF CallEndInput, EndInput, Inv, TypeOK, CountersAgree, FirstInFirstOut
<1>6. CASE CallSetError
  BY <1>6 DEF CallSetError, SetError, Inv, TypeOK, CountersAgree, FirstInFirstOut
<1>7. CASE UNCHANGED vars
  BY <1>7 DEF vars, Inv, TypeOK, CountersAgree, FirstInFirstOut
<1> QED
  BY <1>3, <1>4, <1>5, <1>6, <1>7 DEF Next

\* Together: Inv is an invariant of the specification.
LEMMA InvAlways == Spec => []Inv
BY InitInv, NextInv, PTL DEF Spec

\* Whatever is called in whatever order, the members keep their C++ types, no counter goes
\* below zero, and the deque and its hand-kept length stay within the capacity.
THEOREM TypeCorrect == Spec => []TypeOK
<1>1. Inv => TypeOK
  BY DEF Inv
<1> QED
  BY <1>1, InvAlways, PTL

\* For every capacity: _size is the length of _buf, never passes _capacity, and is what was
\* written and not yet read.
THEOREM CountersCorrect == Spec => []CountersAgree
<1>1. Inv => CountersAgree
  BY DEF Inv
<1> QED
  BY <1>1, InvAlways, PTL

\* The reader gets the bytes write() accepted, each once and in the order of the writes.
THEOREM StreamIsFifo == Spec => []FirstInFirstOut
<1>1. Inv => FirstInFirstOut
  BY DEF Inv
<1> QED
  BY <1>1, InvAlways, PTL

\* After eof() nothing is accepted or delivered any more, and eof() stays.
THEOREM EofStays == Spec => EofIsFinal
<1> DEFINE Final == Eof(stream) => Eof(stream)' /\ UNCHANGED <<accepted, delivered>>
<1>1. Inv /\ [Next]_vars => [Final]_vars
  <2> SUFFICES ASSUME Inv, [Next]_vars, Eof(stream)
               PROVE  Eof(stream)' /\ UNCHANGED <<accepted, delivered>>
    OBVIOUS
  <2>1. /\ stream \in Streams(Byte) /\ accepted \in Seq(Byte) /\ delivered \in Seq(Byte)
        /\ stream.size = 0 /\ stream.isInputEnd
    BY StreamInv DEF Inv, TypeOK, Eof
  <2>2. ASSUME NEW data \in Data, CallWrite(data)
        PROVE  Eof(stream)' /\ UNCHANGED <<accepted, delivered>>
    <3>1. data \in Seq(Byte) /\ ToWrite(stream, data) = 0
      BY <2>1, DataType, ToWriteFits
    <3>2. SubSeq(data, 1, 0) = <<>>
      BY EmptySubSeq
    <3>3. accepted' = accepted /\ delivered' = delivered
      BY <2>1, <2>2, <3>1, <3>2, ConcatEmpty DEF CallWrite
    <3>4. stream'.size = 0 /\ stream'.isInputEnd
      <4> DEFINE n == ToWrite(stream, data)
                 new == SubSeq(data, 1, n)
      <4>1. stream' = [stream EXCEPT !.buf = stream.buf \o new, !.size = stream.size + n,
                                     !.numWritten = stream.numWritten + n]
        <5>1. stream \in Streams(Byte) /\ data \in Seq(Byte) /\ stream' = Write(stream, data)
          BY <2>1, <2>2, <3>1 DEF CallWrite
        <5> QED
          BY <5>1, WriteAppends
      <4> HIDE DEF n, new
      <4>2. stream'.size = stream.size + n /\ stream'.isInputEnd = stream.isInputEnd
        BY <2>1, <4>1 DEF Streams
      <4> QED
        BY <2>1, <3>1, <4>2, SMTT(30) DEF n
    <3> QED
      BY <3>3, <3>4 DEF Eof
  <2>3. ASSUME NEW len \in 0..Capacity + 1, CallRead(len)
        PROVE  Eof(stream)' /\ UNCHANGED <<accepted, delivered>>
    <3>0. stream \in Streams(Byte) /\ len \in Nat
      BY <2>1, CapacityAssumption
    <3>1. /\ PopOutput(stream, len).size = stream.size - Len(PeekOutput(stream, len))
          /\ PopOutput(stream, len) \in Streams(Byte) /\ PeekOutput(stream, len) \in Seq(Byte)
          /\ PopOutput(stream, len).isInputEnd = stream.isInputEnd
      BY <3>0, PopSplits
    <3>2. PopOutput(stream, len).size \in Nat /\ Len(PeekOutput(stream, len)) \in Nat
      BY <3>1, SeqIsFunction DEF Streams
    <3>3. PeekOutput(stream, len) = <<>> /\ PopOutput(stream, len).size = 0
      BY <2>1, <3>1, <3>2, EmptyIsSeq
    <3>4. delivered \o <<>> = delivered
      BY <2>1, ConcatEmpty
    <3> QED
      BY <2>1, <2>3, <3>1, <3>3, <3>4 DEF CallRead, Eof
  <2>4. CASE CallEndInput
    BY <2>1, <2>4 DEF CallEndInput, EndInput, Eof, Streams
  <2>5. CASE CallSetError
    BY <2>1, <2>5 DEF CallSetError, SetError, Eof, Streams
  <2>6. CASE UNCHANGED vars
    BY <2>6 DEF vars, Eof
  <2> QED
    BY <2>2, <2>3, <2>4, <2>5, <2>6 DEF Next
<1> QED
  BY <1>1, InvAlways, PTL DEF Spec, EofIsFinal

===============================================================================
