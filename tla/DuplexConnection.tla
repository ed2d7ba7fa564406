---------------------------- MODULE DuplexConnection ---------------------------
(***************************************************************************)
(* What TCPSpongeSocket relies on of a TCPConnection: a pair of byte       *)
(* streams, a queue of segments that is empty or not, and an active() that *)
(* turns false when both streams are through or when an error is set on    *)
(* both.  The i-th byte of a stream is i.  Each operator gives what one of *)
(* the calls may do to the connection; DuplexConnectionSpec puts them      *)
(* together, and TCPConnectionSpec shows that a TCPConnection implements   *)
(* it.                                                                     *)
(***************************************************************************)
EXTENDS ByteStream

CONSTANTS RecvCapacity, SendCapacity

NewConnection ==
  [opening |-> TRUE, active |-> TRUE, queued |-> FALSE,
   inbound |-> NewByteStream(RecvCapacity), outbound |-> NewByteStream(SendCapacity)]

NextBytes(stream, k) == [i \in 1..k |-> stream.numWritten + i]

\* fill_window(): n bytes leave for segments; a segment may be queued without any.
Sent(d, n, seg) == [d EXCEPT !.outbound = PopOutput(@, n), !.queued = @ \/ n > 0 \/ seg]

\* write(), end_input_stream(), reading inbound_stream(), draining segments_out()
Written(d, data) == [d EXCEPT !.outbound = Write(@, data)]
EndedInput(d) == [d EXCEPT !.outbound = EndInput(@)]
Taken(d, n) == [d EXCEPT !.inbound = PopOutput(@, n)]
Drained(d) == [d EXCEPT !.queued = FALSE]

\* What segment_received() may bring: the handshake, k bytes, the end of the stream.
Opened(d) == [d EXCEPT !.opening = FALSE]
Arrived(d, k) == [d EXCEPT !.inbound = Write(@, NextBytes(@, k))]
Finished(d) == [d EXCEPT !.inbound = EndInput(@)]

\* The two ways to become inactive.
Complete(d) == d.inbound.isInputEnd /\ Eof(d.outbound)
Closed(d) == [d EXCEPT !.active = FALSE]
Reset(d) == [d EXCEPT !.active = FALSE, !.inbound = SetError(@), !.outbound = SetError(@), !.opening = FALSE]

(* The steps from d to e; how many bytes went either way can be read off the counters. *)

Read(d, e) == e.numRead - d.numRead
Added(d, e) == e.numWritten - d.numWritten

Sends(d, e) ==
  /\ Read(d.outbound, e.outbound) \in 0..d.outbound.size
  /\ \E seg \in BOOLEAN : e = Sent(d, Read(d.outbound, e.outbound), seg)

\* Calls of the socket.
Used(d, e) ==
  \/ /\ Added(d.outbound, e.outbound) \in 0..RemainingCapacity(d.outbound)
     /\ Sends(Written(d, NextBytes(d.outbound, Added(d.outbound, e.outbound))), e)
  \/ Sends(EndedInput(d), e)
  \/ /\ Read(d.inbound, e.inbound) \in 0..d.inbound.size
     /\ e = Taken(d, Read(d.inbound, e.inbound))
  \/ e = Drained(d)

\* A segment arrives, or time passes.
Worked(d, e) ==
  LET heard == Arrived(Opened(d), Added(d.inbound, e.inbound))
  IN  /\ d.active /\ Added(d.inbound, e.inbound) \in 0..RemainingCapacity(d.inbound)
      /\ \/ \E f \in {d, heard, Finished(heard)} : Sends(f, e)
         \/ Complete(e) /\ Sends(d, [e EXCEPT !.active = TRUE]) /\ ~e.active
         \/ e = [Reset(d) EXCEPT !.queued = e.queued]
===============================================================================
