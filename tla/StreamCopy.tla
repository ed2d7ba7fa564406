------------------------------- MODULE StreamCopy ------------------------------
(***************************************************************************)
(* bidirectional_stream_copy() (apps/bidirectional_stream_copy.cc): the    *)
(* application's thread between stdin, stdout and the socket.  Its local   *)
(* variables are a record, with pc, where the thread is, and threw, whether*)
(* it left the copy by an exception; each rule's callback is an operator.  *)
(***************************************************************************)
EXTENDS EventLoop, FileDescriptor

CONSTANT CopyCapacity  \* buffer_size

NewCopy ==
  [loop |-> NewEventLoop, input |-> NewFd, socket |-> NewFd, output |-> NewFd,
   outbound |-> NewByteStream(CopyCapacity), inbound |-> NewByteStream(CopyCapacity),
   outboundShutdown |-> FALSE, inboundShutdown |-> FALSE, pc |-> "opening", threw |-> FALSE]

\* The descriptor and the direction of each rule.
CopyFd == <<"input", "socket", "socket", "output">>
CopyDirection == <<"IN", "OUT", "IN", "OUT">>

CopyUsedUp(o, r) == (CopyDirection[r] = "IN" /\ o[CopyFd[r]].eof) \/ o[CopyFd[r]].closed

\* Has a stream something to write, or its end to pass on?
Pending(stream, shutdown) == stream.size > 0 \/ (Eof(stream) /\ ~shutdown)

Accepting(stream, other) == ~stream.error /\ RemainingCapacity(stream) > 0 /\ ~other.error

CopyInterest(o, r) ==
  CASE r = 1 -> Accepting(o.outbound, o.inbound)
    [] r = 2 -> Pending(o.outbound, o.outboundShutdown)
    [] r = 3 -> Accepting(o.inbound, o.outbound)
    [] r = 4 -> Pending(o.inbound, o.inboundShutdown)

CopyCancel(o, r) ==
  IF r \in {1, 2} THEN [o EXCEPT !.outbound = EndInput(@)] ELSE [o EXCEPT !.inbound = EndInput(@)]

\* wait_next_event() asks the rules in order: the ones behind a rule that is cancelled are asked
\* after that.
CopyAsk(acc, r) == Asked(acc, r, CopyUsedUp(acc.s, r), CopyInterest(acc.s, r), CopyCancel(acc.s, r))
CopySetUp(o) == CopyAsk(CopyAsk(CopyAsk(CopyAsk(Asking(o), 1), 2), 3), 4)

\* Rules 1 and 3: the bytes got with a read that was limited to the room in the stream.
Filled(stream, got, fd) == IF fd.eof THEN EndInput(Write(stream, got)) ELSE Write(stream, got)

FromInput(o, got) ==
  LET fd == FdRead(o.input, RemainingCapacity(o.outbound), got)
  IN  [o EXCEPT !.input = fd, !.outbound = Filled(@, got, fd), !.loop = Served(@, 1)]

FromSocket(o, got) ==
  LET fd == FdRead(o.socket, RemainingCapacity(o.inbound), got)
  IN  [o EXCEPT !.socket = fd, !.inbound = Filled(@, got, fd), !.loop = Served(@, 3)]

\* Rules 2 and 4: n bytes were written.  Behind the last one the socket is shut down for
\* writing, and stdout is closed.
ToSocket(o, n) ==
  LET left == PopOutput(o.outbound, n)
  IN  [o EXCEPT !.outbound = left, !.outboundShutdown = @ \/ Eof(left), !.loop = Served(@, 2)]

ToOutput(o, n) ==
  LET left == PopOutput(o.inbound, n)
  IN  [o EXCEPT !.inbound = left, !.inboundShutdown = @ \/ Eof(left), !.loop = Served(@, 4),
                !.output = IF Eof(left) THEN FdClose(@) ELSE @]
===============================================================================
