----------------------------- MODULE TCPConnection -----------------------------
(***************************************************************************)
(* Class TCPConnection (libsponge/tcp_connection.{hh,cc}): one endpoint,   *)
(* made of a TCPSender and a TCPReceiver.  As in those modules, a          *)
(* connection is a record of its members and a method is an operator.      *)
(* Statements of the C++ methods that follow each other are composed in    *)
(* the same order.                                                         *)
(***************************************************************************)
EXTENDS TCPReceiver, TCPSender

CONSTANTS WinMod,             \* 2^16: the modulus of the window field of a header
          MAX_RETX_ATTEMPTS,  \* TCPConfig::MAX_RETX_ATTEMPTS
          LingerFactor        \* the connection lingers LingerFactor timeouts (10 in the code)

ASSUME ConnectionAssumption ==
  WinMod \in Nat \ {0} /\ MAX_RETX_ATTEMPTS \in Nat /\ LingerFactor \in Nat

NewTCPConnection(recvCapacity, sendCapacity, isn) ==
  [receiver |-> NewTCPReceiver(recvCapacity), sender |-> NewTCPSender(sendCapacity, isn),
   segmentsOut |-> <<>>, linger |-> TRUE, active |-> TRUE,
   timeSinceLastSegment |-> 0, timeWait |-> FALSE]

LengthInSequenceSpace(seg) ==
  Len(seg.payload) + (IF seg.syn THEN 1 ELSE 0) + (IF seg.fin THEN 1 ELSE 0)

ReceiverInListen(c) == ~c.receiver.synRecv

ReceiverFinRecv(c) == StreamOut(c.receiver).isInputEnd

\* Mutant of UncleanShutdown: the reader of the inbound stream is not told.
UncleanShutdownWriterOnly(c) == [c EXCEPT !.sender.stream = SetError(@), !.active = FALSE]

UncleanShutdown(c) ==
  [c EXCEPT !.sender.stream = SetError(@),
            !.receiver.reassembler.output = SetError(@),
            !.active = FALSE]

CleanShutdown(c) == [c EXCEPT !.active = FALSE]

\* updateOutput(): the sender's segments, with the receiver's ackno and window if it has one.
UpdateOutput(c) ==
  LET Carry(seg) ==
        IF seg.rst \/ ReceiverInListen(c)
        THEN seg
        ELSE [seg EXCEPT !.ack = TRUE, !.ackno = c.receiver.ackno,
                         !.win = WindowSize(c.receiver) % WinMod]
  IN  [c EXCEPT !.segmentsOut = @ \o [i \in DOMAIN c.sender.segmentsOut |-> Carry(c.sender.segmentsOut[i])],
                !.sender.segmentsOut = <<>>]

\* sendRSTSeg(): one RST takes the place, and the seqno, of the first segment still queued.
SendRSTSeg(c) ==
  LET queued == c.segmentsOut \o c.sender.segmentsOut
      empty == SendEmptySegment([c.sender EXCEPT !.segmentsOut = <<>>]).segmentsOut[1]
      seqno == IF queued = <<>> THEN empty.seqno ELSE queued[1].seqno
  IN  [c EXCEPT !.segmentsOut = <<[empty EXCEPT !.seqno = seqno, !.rst = TRUE]>>,
                !.sender.segmentsOut = <<>>]

(* The calls segment_received() is put together from *)

Receive(c, seg, junk) == [c EXCEPT !.receiver = ReceiverSegmentReceived(@, seg, junk)]

TakeAck(c, seg) ==
  IF seg.ack THEN [c EXCEPT !.sender = AckReceived(@, seg.ackno, seg.win)] ELSE c

Fill(c) == [c EXCEPT !.sender = FillWindow(@)]

SendEmpty(c) == [c EXCEPT !.sender = SendEmptySegment(@)]

\* If nothing is queued for the network, queue an empty segment with the ack.
AckIfSilent(c) == IF c.segmentsOut = <<>> THEN UpdateOutput(SendEmpty(c)) ELSE c

\* Lines 33-46: a short segment that does not start at the ackno, before or after it.
OutOfOrder(c, seg) ==
  /\ ~ReceiverInListen(c) /\ seg.seqno # c.receiver.ackno
  /\ LengthInSequenceSpace(seg) <= 1 /\ ~seg.syn

\* Lines 41-44: there is always an answer.
AlwaysAnswer(c) == UpdateOutput(IF c.sender.segmentsOut = <<>> THEN SendEmpty(c) ELSE c)

\* An ack may open the window: fill it.
TakeAckAndFill(c, seg) == IF seg.ack THEN Fill(TakeAck(c, seg)) ELSE c

ReceiveOutOfOrder(c, seg, junk) == AlwaysAnswer(TakeAckAndFill(Receive(c, seg, junk), seg))

\* Mutant of ReceivePassiveClose: any ack ends the connection.
ReceivePassiveCloseAnyAck(c, seg) ==
  IF seg.ack THEN CleanShutdown(TakeAck(c, seg)) ELSE c

\* Lines 66-72: the ack of the FIN, or of something before it.
CloseOrFill(c) == IF c.sender.q.finAcked THEN CleanShutdown(c) ELSE UpdateOutput(Fill(c))

\* Lines 59-74: CLOSE_WAIT and LAST_ACK.
ReceivePassiveClose(c, seg) ==
  LET again == IF seg.fin THEN UpdateOutput(SendEmpty(c)) ELSE c
  IN  IF seg.ack THEN CloseOrFill(TakeAck(again, seg)) ELSE again

\* Mutant of ReceiveLingering: the answer to a repeated FIN stays with the sender.
ReceiveLingeringUnsent(c, seg) ==
  IF seg.fin THEN SendEmpty(TakeAck(c, seg)) ELSE TakeAck(c, seg)

\* Lines 77-84: both streams have ended for the receiver and the sender closed first.
ReceiveLingering(c, seg) ==
  LET taken == TakeAck(c, seg)
  IN  IF seg.fin THEN UpdateOutput(SendEmpty(taken)) ELSE taken

\* Lines 89-104: the peer's SYN.
ReceiveSyn(c, seg, junk) == AckIfSilent(UpdateOutput(Fill(TakeAck(Receive(c, seg, junk), seg))))

\* Mutant of NoteFin: the connection lingers whoever closed first.
NoteFinLingers(c) == IF ReceiverFinRecv(c) THEN AckIfSilent([c EXCEPT !.timeWait = TRUE]) ELSE c

\* Mutant of NoteFin: TIME_WAIT is not entered.
NoteFinNoTimeWait(c) ==
  IF ReceiverFinRecv(c)
  THEN AckIfSilent(IF c.sender.q.finSent THEN c ELSE [c EXCEPT !.linger = FALSE])
  ELSE c

\* Lines 133-148: if the peer's stream has ended, who closed first decides who lingers.
NoteFin(c) ==
  IF ReceiverFinRecv(c)
  THEN AckIfSilent(IF c.sender.q.finSent
                   THEN [c EXCEPT !.timeWait = TRUE]
                   ELSE [c EXCEPT !.linger = FALSE])
  ELSE c

\* Lines 122-126: what the ack lets the sender send carries the new ackno.
AnswerAck(c, seg) == IF seg.ack THEN UpdateOutput(TakeAckAndFill(c, seg)) ELSE c

\* Lines 128-131: a segment that occupies sequence space is acknowledged.
AckSegment(c, seg) == IF LengthInSequenceSpace(seg) > 0 THEN AckIfSilent(c) ELSE c

\* Lines 111-148: the peer's stream goes on, and with this segment it may end.
ReceiveStream(c, seg, junk) ==
  LET received == IF LengthInSequenceSpace(seg) > 0 THEN Receive(c, seg, junk) ELSE c
  IN  NoteFin(AckSegment(AnswerAck(received, seg), seg))

SegmentReceived(c, seg, junk) ==
  LET heard == [c EXCEPT !.timeSinceLastSegment = 0]
  IN  CASE ~c.active -> c
        [] c.active /\ OutOfOrder(c, seg) -> ReceiveOutOfOrder(heard, seg, junk)
        [] c.active /\ ~OutOfOrder(c, seg) /\ seg.rst -> UncleanShutdown(heard)
        [] c.active /\ ~OutOfOrder(c, seg) /\ ~seg.rst /\ ReceiverInListen(c) ->
             IF seg.syn THEN ReceiveSyn(heard, seg, junk) ELSE heard
        [] c.active /\ ~OutOfOrder(c, seg) /\ ~seg.rst /\ ~ReceiverInListen(c) ->
             CASE seg.syn -> heard
               [] ~seg.syn /\ ~ReceiverFinRecv(c) -> ReceiveStream(heard, seg, junk)
               [] ~seg.syn /\ ReceiverFinRecv(c) /\ c.linger -> ReceiveLingering(heard, seg)
               [] ~seg.syn /\ ReceiverFinRecv(c) /\ ~c.linger -> ReceivePassiveClose(heard, seg)

ConnectionWrite(c, data) ==
  IF data = <<>> THEN c ELSE UpdateOutput(Fill([c EXCEPT !.sender.stream = Write(@, data)]))

ConnectionTick(c, ms) ==
  LET ticked == UpdateOutput([c EXCEPT !.timeSinceLastSegment = @ + ms,
                                       !.sender = SenderTick(@, ms)])
      giveUp == ticked.sender.timer.consecutiveRetransmissions > MAX_RETX_ATTEMPTS
      lingered == ticked.timeWait /\ ticked.timeSinceLastSegment >= LingerFactor * RetxTimeout
  IN  CASE ~c.active -> c
        [] c.active /\ giveUp -> UncleanShutdown(SendRSTSeg(ticked))
        [] c.active /\ ~giveUp -> IF lingered THEN CleanShutdown(ticked) ELSE ticked

EndInputStream(c) == UpdateOutput(Fill([c EXCEPT !.sender.stream = EndInput(@)]))

Connect(c) == UpdateOutput(Fill(c))

\* ~TCPConnection(): a connection that is still active is reset.
Destroy(c) == IF c.active THEN SendRSTSeg(c) ELSE c
===============================================================================
