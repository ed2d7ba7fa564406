------------------------------ MODULE ByteStream ------------------------------
(***************************************************************************)
(* Class ByteStream (libsponge/byte_stream.{hh,cc}): a bounded in-order    *)
(* byte pipe.  A stream is a record holding the members of the class; each *)
(* method is an operator from a stream to the stream it leaves behind.     *)
(* The classes that own a stream (StreamReassembler, TCPSender) apply      *)
(* these operators to a field of their own record.                         *)
(***************************************************************************)
EXTENDS Integers, Sequences

\* std::min
Least(a, b) == IF a <= b THEN a ELSE b

\* The stream the constructor builds; size is kept beside buf, as the class does.
NewByteStream(capacity) ==
  [buf |-> <<>>, capacity |-> capacity, size |-> 0, isInputEnd |-> FALSE,
   numWritten |-> 0, numRead |-> 0, error |-> FALSE]

\* The streams a correct history can lead to: the members have their types, and _size, which
\* the class keeps by hand, is the length of _buf and within the capacity.
Streams(bytes) ==
  {s \in [buf : Seq(bytes), capacity : Nat, size : Nat, isInputEnd : BOOLEAN,
          numWritten : Nat, numRead : Nat, error : BOOLEAN] :
     s.size = Len(s.buf) /\ s.size <= s.capacity}

\* Mutant of ToWrite: the capacity is not looked at.
ToWriteUnbounded(s, data) == IF s.isInputEnd THEN 0 ELSE Len(data)

\* Mutant of ToWrite: the end of the input is not looked at.
ToWriteAfterEnd(s, data) == Least(s.capacity - s.size, Len(data))

\* The value write() returns: how many leading bytes of data it accepts.
ToWrite(s, data) ==
  IF s.isInputEnd \/ s.capacity = s.size
  THEN 0
  ELSE Least(s.capacity - s.size, Len(data))

\* Mutant of Write: inserts at the front of buf.
WriteAtBegin(s, data) ==
  LET n == ToWrite(s, data)
  IN  [s EXCEPT !.buf = SubSeq(data, 1, n) \o @, !.size = @ + n, !.numWritten = @ + n]

\* write(): the accepted bytes are inserted at position size of buf.
Write(s, data) ==
  LET n == ToWrite(s, data)
  IN  [s EXCEPT !.buf = SubSeq(@, 1, s.size) \o SubSeq(data, 1, n)
                          \o SubSeq(@, s.size + 1, Len(@)),
                !.size = @ + n,
                !.numWritten = @ + n]

RemainingCapacity(s) == s.capacity - s.size

EndInput(s) == [s EXCEPT !.isInputEnd = TRUE]

\* peek_output(): a copy of at most len bytes from the output side.
PeekOutput(s, len) == SubSeq(s.buf, 1, Least(len, s.size))

\* Mutant of PopOutput: counts len bytes even if there are fewer.
PopOutputUnclamped(s, len) ==
  [s EXCEPT !.buf = SubSeq(@, len + 1, Len(@)), !.size = @ - len, !.numRead = @ + len]

\* pop_output(): drops at most len bytes from the output side.
PopOutput(s, len) ==
  LET n == Least(len, s.size)
  IN  [s EXCEPT !.buf = SubSeq(@, n + 1, Len(@)),
                !.size = @ - n,
                !.numRead = @ + n]

Eof(s) == s.size = 0 /\ s.isInputEnd

SetError(s) == [s EXCEPT !.error = TRUE]
===============================================================================
