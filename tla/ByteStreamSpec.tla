---------------------------- MODULE ByteStreamSpec ----------------------------
(***************************************************************************)
(* One ByteStream with a writer and a reader calling its methods in any    *)
(* order.  accepted and delivered are history variables: the bytes write() *)
(* took and the bytes read() returned, in order.                           *)
(***************************************************************************)
EXTENDS ByteStream

CONSTANTS Byte,      \* the byte values a writer uses
          Capacity,  \* the argument of the constructor
          MaxWrite,  \* bound: longest string passed to write()
          MaxBytes   \* bound: bytes write() accepts in one behaviour

ASSUME CapacityAssumption == Capacity \in Nat
ASSUME BoundsAssumption == MaxWrite \in Nat /\ MaxBytes \in Nat

VARIABLES stream, accepted, delivered

vars == <<stream, accepted, delivered>>

Data == UNION {[1..n -> Byte] : n \in 0..MaxWrite}

Init ==
  /\ stream = NewByteStream(Capacity)
  /\ accepted = <<>>
  /\ delivered = <<>>

CallWrite(data) ==
  /\ stream.numWritten + Len(data) <= MaxBytes
  /\ stream' = Write(stream, data)
  /\ accepted' = accepted \o SubSeq(data, 1, ToWrite(stream, data))
  /\ UNCHANGED delivered

CallEndInput ==
  /\ stream' = EndInput(stream)
  /\ UNCHANGED <<accepted, delivered>>

\* read(): peek, then pop the same number of bytes.
CallRead(len) ==
  /\ stream' = PopOutput(stream, len)
  /\ delivered' = delivered \o PeekOutput(stream, len)
  /\ UNCHANGED accepted

CallSetError ==
  /\ stream' = SetError(stream)
  /\ UNCHANGED <<accepted, delivered>>

Next ==
  \/ \E data \in Data : CallWrite(data)
  \/ CallEndInput
  \/ \E len \in 0..Capacity + 1 : CallRead(len)
  \/ CallSetError

Spec == Init /\ [][Next]_vars

(* Properties *)

\* The members of the class have their C++ types; the deque and its hand-kept length stay
\* within the capacity the stream was built with.
TypeOK ==
  /\ stream \in [buf : Seq(Byte), capacity : {Capacity}, size : 0..Capacity,
                 isInputEnd : BOOLEAN, numWritten : Nat, numRead : Nat,
                 error : BOOLEAN]
  /\ Len(stream.buf) <= Capacity
  /\ accepted \in Seq(Byte)
  /\ delivered \in Seq(Byte)

\* The hand-kept counters agree with the deque and with the history, whatever the
\* order of calls: _size is the length of _buf and never passes _capacity (so
\* `_capacity - _size` cannot wrap), and bytes_written() - bytes_read() = _size.
CountersAgree ==
  /\ stream.size = Len(stream.buf)
  /\ stream.size <= Capacity
  /\ stream.numWritten = Len(accepted)
  /\ stream.numRead = Len(delivered)
  /\ stream.numWritten = stream.numRead + stream.size

\* No byte is lost, duplicated or reordered by the split of the data between the
\* reader and _buf: what was read followed by what is buffered is what was written.
FirstInFirstOut == accepted = delivered \o stream.buf

\* eof() is final: once a reader saw it, no call brings another byte or takes eof back.
EofIsFinal ==
  [][Eof(stream) => Eof(stream)' /\ UNCHANGED <<accepted, delivered>>]_vars
===============================================================================
