----------------------------- MODULE TCPSenderSpec -----------------------------
(***************************************************************************)
(* One TCPSender: the application that fills its stream, the clock, and a  *)
(* peer that acknowledges what was sent.  The owner takes the segments off *)
(* segments_out() after every call, as TCPConnection does: wire holds the  *)
(* ones of the last call.  The byte with absolute sequence number n is n.  *)
(***************************************************************************)
EXTENDS TCPSender, FiniteSets

CONSTANTS Capacity,     \* of the outgoing stream
          Isn,          \* the initial sequence number
          StreamLen,    \* bound: bytes the application writes
          MaxWin,       \* bound: largest window the peer advertises
          MaxRetx,      \* bound: retransmissions in a row
          MaxLate       \* bound: acks the network keeps to deliver late, or once more

ASSUME SpecAssumption ==
  /\ Capacity \in Nat /\ Isn \in 0..SeqMod - 1 /\ StreamLen \in Nat /\ MaxRetx \in Nat
  /\ MaxWin \in Nat /\ MaxLate \in Nat
  \* sequence numbers in flight can be told apart, and the space of size_t is not used up
  /\ StreamLen + 3 < Half /\ MaxWin < Half /\ 2 * StreamLen + MaxWin < SizeMod

VARIABLES s,      \* the sender
          wire,   \* what the last call handed to the owner
          peer,   \* the newest ack of the peer: absolute ackno and window
          late    \* acks of the peer that may still arrive late

vars == <<s, wire, peer, late>>

Init ==
  /\ s = NewTCPSender(Capacity, Isn)
  /\ wire = <<>>
  /\ peer = [ackno |-> 0, win |-> 0]
  /\ late = {}

\* The call leaves sender t; its owner drains the queue.
Call(t) == s' = [t EXCEPT !.segmentsOut = <<>>] /\ wire' = t.segmentsOut

AppWrite(len) ==
  /\ s.stream.numWritten + len <= StreamLen
  /\ Call([s EXCEPT !.stream = Write(@, [i \in 1..len |-> s.stream.numWritten + i])])
  /\ UNCHANGED <<peer, late>>

AppEndInput ==
  /\ Call([s EXCEPT !.stream = EndInput(@)])
  /\ UNCHANGED <<peer, late>>

CallFillWindow ==
  /\ Call(FillWindow(s))
  /\ UNCHANGED <<peer, late>>

CallSendEmptySegment ==
  /\ Call(SendEmptySegment(s))
  /\ UNCHANGED <<peer, late>>

CallTick ==
  /\ s.timer.consecutiveRetransmissions < MaxRetx
  /\ Call(SenderTick(s, 1))
  /\ UNCHANGED <<peer, late>>

\* Where the peer can be after receiving some of the segments that were sent: at the end of
\* one of them (a peer that takes a part of a segment is not modelled).
Acceptable ==
  {a \in {peer.ackno, s.q.nextSeqno} \cup {s.q.ends[i] : i \in DOMAIN s.q.ends} :
     a >= peer.ackno /\ ~(a = s.q.nextSeqno - 1 /\ s.q.finSent /\ a # LastEnd(s.q))}

\* A new ack: the peer never takes back what it acknowledged or the window it opened.
ArriveAck(ackno, win) ==
  /\ s.q.synSent /\ ackno >= 1
  /\ ackno + win >= peer.ackno + peer.win
  /\ peer' = [ackno |-> ackno, win |-> win]
  /\ \/ UNCHANGED late
     \/ Cardinality(late) < MaxLate /\ late' = late \cup {peer'}
  /\ Call(AckReceived(s, Wrap(ackno, s.isn), win))

\* An older ack that was delayed or duplicated on its way.
ArriveLateAck(ack) ==
  /\ Call(AckReceived(s, Wrap(ack.ackno, s.isn), ack.win))
  /\ UNCHANGED <<peer, late>>

Next ==
  \/ \E len \in 1..StreamLen : AppWrite(len)
  \/ AppEndInput
  \/ CallFillWindow
  \/ CallSendEmptySegment
  \/ CallTick
  \/ \E ackno \in Acceptable, win \in 0..MaxWin : ArriveAck(ackno, win)
  \/ \E ack \in late : ArriveLateAck(ack)

Spec == Init /\ [][Next]_vars

(* Properties *)

\* The members of the queue; the window is never taken to be 0, and nothing was ever erased
\* past the end of a deque.
UnAckQueues ==
  [unAcked : Seq(Nat), ends : Seq(Nat), synSent : BOOLEAN, synAcked : BOOLEAN,
   finSent : BOOLEAN, finAcked : BOOLEAN, baseSqn : Nat, nextSeqno : Nat,
   winSize : Nat \ {0}, overrun : {FALSE}]

Timers ==
  [timeout : Nat \ {0}, isTimerRunning : BOOLEAN, msSinceBaseSegSent : Nat,
   consecutiveRetransmissions : Nat, doubleTimeout : BOOLEAN]

\* The members of the classes have their C++ types: the queue of unacknowledged bytes, the
\* timer, the initial sequence number, and the stream, whose length stays within its
\* capacity.  The caller takes every segment off the queue of segments.
TypeOK ==
  /\ s.q \in UnAckQueues
  /\ s.timer \in Timers
  /\ s.isn = Isn
  /\ s.stream \in Streams(Nat)
  /\ s.segmentsOut = <<>>

OneIf(b) == IF b THEN 1 ELSE 0

\* The sequence space is accounted for: _next_seqno counts the SYN, the bytes taken off the
\* stream and the FIN; _unAcked holds exactly what of it lies after _baseSqn, less a SYN or
\* FIN under way; and the sizes in _unAckedPayloadSize add up to its length.
SequenceSpaceAccounted ==
  /\ s.q.nextSeqno = OneIf(s.q.synSent) + s.stream.numRead + OneIf(s.q.finSent)
  /\ s.q.nextSeqno - s.q.baseSqn =
       OneIf(s.q.synSent /\ ~s.q.synAcked) + Len(s.q.unAcked) + OneIf(s.q.finSent /\ ~s.q.finAcked)
  /\ LastEnd(s.q) = s.q.baseSqn + Len(s.q.unAcked)
  /\ ~s.q.overrun

\* Every segment, sent first or again, carries the bytes that belong at its sequence
\* number, and a FIN only behind the last byte of a stream that was ended.
SegmentsCarryTheStream ==
  \A k \in DOMAIN wire :
    LET seg == wire[k]
        first == Unwrap(seg.seqno, s.isn, s.q.baseSqn)
    IN  /\ \A j \in DOMAIN seg.payload : seg.payload[j] = first + j - 1
        /\ seg.syn => first = 0
        /\ seg.fin => /\ s.stream.isInputEnd
                      /\ first + Len(seg.payload) + OneIf(seg.syn) = s.stream.numWritten + 1

\* The timer runs exactly while something is outstanding: nothing sent is left without a
\* retransmission to come, and nothing is retransmitted when all is acknowledged.
TimerRunsWhileOutstanding == s.timer.isTimerRunning <=> s.q.nextSeqno > s.q.baseSqn

\* Nothing new is sent past the right edge of the window the peer advertised, save the
\* one sequence number that probes a closed window.
StaysInWindow ==
  [][s'.q.nextSeqno > s.q.nextSeqno =>
       \/ s'.q.nextSeqno <= peer.ackno + peer.win
       \/ s'.q.nextSeqno = peer.ackno + 1]_vars

\* The window of the newest ack; a closed one lets one sequence number through, to probe it.
NewestWindow == IF peer.win = 0 THEN 1 ELSE peer.win

\* The same for as long as the window the sender goes by is the newest one and holds all that
\* is in flight, whatever acks came late before.
StaysInNewestWindow ==
  [][LET edge == peer.ackno + NewestWindow
     IN  (s.q.winSize = NewestWindow /\ s.q.nextSeqno <= edge /\ s'.q.nextSeqno > s.q.nextSeqno) =>
           s'.q.nextSeqno <= edge]_vars

\* A timeout sends one segment, and it starts at the oldest outstanding sequence number.
RetransmitsOldest ==
  [][s'.timer.consecutiveRetransmissions > s.timer.consecutiveRetransmissions =>
       Len(wire') = 1 /\ wire'[1].seqno = Wrap(s.q.baseSqn, s.isn)]_vars

\* An ack that was delayed or duplicated takes nothing back: it may set the window, but the
\* unacknowledged bytes, the sequence numbers and the timer stay.
LateAckMovesNothing ==
  [][(\E ack \in late : ack.ackno < s.q.baseSqn /\ ArriveLateAck(ack)) =>
       /\ s'.q = [s.q EXCEPT !.winSize = s'.q.winSize]
       /\ s'.timer = [s.timer EXCEPT !.doubleTimeout = s'.timer.doubleTimeout]]_vars
===============================================================================
