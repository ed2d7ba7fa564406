------------------------------ MODULE TCPReceiver ------------------------------
(***************************************************************************)
(* Class TCPReceiver (libsponge/tcp_receiver.{hh,cc}): turns segments into *)
(* substrings for its StreamReassembler, and the state of the reassembler  *)
(* into the ackno and window it advertises.  A segment is a record with at *)
(* least the fields seqno, syn, fin and payload.                           *)
(***************************************************************************)
EXTENDS WrappingIntegers, StreamReassembler

NewTCPReceiver(capacity) ==
  [reassembler |-> NewStreamReassembler(capacity), synRecv |-> FALSE,
   isn |-> 0, ackno |-> 0, capacity |-> capacity]

StreamOut(v) == v.reassembler.output

\* Mutant of AbsIndex: forgets that the SYN takes a sequence number.
AbsIndexCountsSyn(v, seg) == IF seg.syn THEN 0 ELSE Unwrap(seg.seqno, v.isn, StreamOut(v).numWritten)

\* The stream index of the first payload byte: the absolute sequence number less one for
\* the SYN, as a uint64_t, so that a segment at the SYN's own number gets 2^64 - 1.
AbsIndex(v, seg) ==
  IF seg.syn
  THEN 0
  ELSE Difference(Unwrap(seg.seqno, v.isn, StreamOut(v).numWritten), 1)

\* A second SYN, and everything before the first one, is not looked at.
Ignored(v, seg) == IF seg.syn THEN v.synRecv ELSE ~v.synRecv

\* Mutant of Acknowledge: the FIN is not acknowledged.
AcknowledgeNoFin(v, isn, re) ==
  [v EXCEPT !.reassembler = re, !.synRecv = TRUE, !.isn = isn,
            !.ackno = Wrap(re.output.numWritten + 1, isn)]

\* The receiver after its reassembler became re, with the ackno that follows from it.
Acknowledge(v, isn, re) ==
  LET ackno == Wrap(re.output.numWritten + 1, isn)
  IN  [v EXCEPT !.reassembler = re, !.synRecv = TRUE, !.isn = isn,
                !.ackno = IF re.output.isInputEnd THEN Wrap(1, ackno) ELSE ackno]

ReceiverSegmentReceived(v, seg, junk) ==
  IF Ignored(v, seg)
  THEN v
  ELSE Acknowledge(v, IF seg.syn THEN seg.seqno ELSE v.isn,
                   PushSubstring(v.reassembler, seg.payload, AbsIndex(v, seg), seg.fin, junk))

\* Mutant of WindowSize: the index of the first unacceptable byte is counted in.
WindowSizeInclusive(v) == v.capacity - StreamOut(v).size + 1

\* Mutant of WindowSize: takes off what is stored but not assembled.
WindowSizeLessStored(v) == v.capacity - StreamOut(v).size - v.reassembler.unassembledSize

WindowSize(v) == v.capacity - StreamOut(v).size
===============================================================================
