------------------------------- MODULE MCFdAdapter -----------------------------
(* TLC instance of FdAdapterSpec. *)
EXTENDS FdAdapterSpec

MCAddress ==
  [client |-> <<<<2560, 1>>, 40000>>, other |-> <<<<2560, 511>>, 40001>>, server |-> <<<<49320, 65535>>, 80>>]

\* The handshake, the end of a stream with an odd number of bytes, a reset.
MCSegments ==
  {[NewTCPSegment EXCEPT !.syn = TRUE, !.seqno = <<65535, 65535>>, !.win = 64000],
   [NewTCPSegment EXCEPT !.syn = TRUE, !.ack = TRUE, !.ackno = <<0, 0>>, !.seqno = <<1, 2>>, !.win = 65535],
   [NewTCPSegment EXCEPT !.ack = TRUE, !.fin = TRUE, !.seqno = <<0, 0>>, !.ackno = <<65535, 255>>, !.payload = <<255>>],
   [NewTCPSegment EXCEPT !.syn = TRUE, !.rst = TRUE, !.payload = <<0, 7>>]}

\* Nothing; a datagram too short for a header; a header with options and nothing behind it; UDP.
MCStrays ==
  {<<>>, <<69, 0, 0, 10, 0, 0, 0, 0, 1, 17>>,
   <<70, 0, 0, 24, 0, 0, 0, 0, 64, 6, 0, 0, 10, 0, 0, 1, 10, 0, 0, 2, 0, 0, 0, 0>>,
   <<69, 0, 0, 24, 0, 0, 0, 0, 64, 17, 0, 0, 10, 0, 0, 1, 10, 0, 0, 2, 0, 80, 0, 80>>}
===============================================================================
