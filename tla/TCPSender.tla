------------------------------- MODULE TCPSender -------------------------------
(***************************************************************************)
(* Class TCPSender (libsponge/tcp_sender.{hh,cc}) with its helper classes  *)
(* UnAckQueue and Timer.  A sender is a record of its members; q stands    *)
(* for unAckQueue.  Where UnAckQueue keeps the sizes of the segments that  *)
(* were sent (_unAckedPayloadSize), ends holds the sequence number after   *)
(* each of them, counted from baseSqn as the loop of erase() does:         *)
(* ends[i] = baseSqn + size 1 + ... + size i.                              *)
(***************************************************************************)
EXTENDS MachineTypes, WrappingIntegers, ByteStream

CONSTANTS MAX_PAYLOAD_SIZE,  \* TCPConfig::MAX_PAYLOAD_SIZE
          RetxTimeout        \* the initial retransmission timeout, TCPConfig::rt_timeout

ASSUME SenderAssumption ==
  MAX_PAYLOAD_SIZE \in Nat \ {0} /\ RetxTimeout \in Nat \ {0}

\* A TCPSegment with the header fields the sender fills in.
Segment(seqno, syn, fin, payload) ==
  [seqno |-> seqno, syn |-> syn, fin |-> fin, rst |-> FALSE, ack |-> FALSE,
   ackno |-> 0, win |-> 0, payload |-> payload]

NewUnAckQueue ==
  [unAcked |-> <<>>, ends |-> <<>>, synSent |-> FALSE, synAcked |-> FALSE,
   finSent |-> FALSE, finAcked |-> FALSE, baseSqn |-> 0, nextSeqno |-> 0,
   winSize |-> 1, overrun |-> FALSE]

NewTimer ==
  [timeout |-> RetxTimeout, isTimerRunning |-> FALSE, msSinceBaseSegSent |-> 0,
   consecutiveRetransmissions |-> 0, doubleTimeout |-> TRUE]

NewTCPSender(capacity, isn) ==
  [q |-> NewUnAckQueue, timer |-> NewTimer, isn |-> isn,
   stream |-> NewByteStream(capacity), segmentsOut |-> <<>>]

(* UnAckQueue *)

BytesInFlight(q) == q.nextSeqno - q.baseSqn

\* The end of what push() recorded last.
LastEnd(q) == IF q.ends = <<>> THEN q.baseSqn ELSE q.ends[Len(q.ends)]

\* Moving baseSqn without touching the sizes moves all the ends with it.
Rebase(q, base) ==
  [q EXCEPT !.baseSqn = base, !.ends = [i \in DOMAIN @ |-> @[i] + base - q.baseSqn]]

\* Mutant of FrontSeg: every retransmission carries the FIN once it was sent.
FrontSegAlwaysFin(q, isn) ==
  Segment(Wrap(q.baseSqn, isn), FALSE, q.finSent, SubSeq(q.unAcked, 1, q.ends[1] - q.baseSqn))

\* Mutant of FrontSeg: numbered as if it was new.
FrontSegAtNext(q, isn) ==
  Segment(Wrap(q.nextSeqno, isn), FALSE, FALSE, SubSeq(q.unAcked, 1, q.ends[1] - q.baseSqn))

\* frontSeg(): as many bytes as the first size says, from a deque that may hold fewer.
FrontSeg(q, isn) ==
  LET toSend == q.ends[1] - q.baseSqn
  IN  Segment(Wrap(q.baseSqn, isn), FALSE, q.finSent /\ q.nextSeqno - 1 = q.baseSqn + toSend,
              [i \in 1..toSend |-> IF i <= Len(q.unAcked) THEN q.unAcked[i] ELSE Garbage])

\* empty(); a deque whose begin was moved past its end is not empty.
QueueEmpty(q) == q.unAcked = <<>> /\ ~q.overrun

\* _unAcked.erase(begin, begin + n), where n may go past the end of the deque.
EraseBytes(q, n) ==
  [q EXCEPT !.unAcked = SubSeq(@, n + 1, Len(@)), !.overrun = @ \/ n > Len(q.unAcked)]

\* erase(), for an ackno that does not cover a FIN: i is where the loop stops.  A whole
\* number of segments is dropped; an ackno inside segment i takes its bytes off that size
\* only; past all of them, baseSqn follows but no size is dropped.
Erase(q, ackno) ==
  LET reached == {i \in DOMAIN q.ends : q.ends[i] >= ackno}
      i == CHOOSE i \in reached : \A j \in reached : i <= j
      prev == IF i = 1 THEN q.baseSqn ELSE q.ends[i - 1]
      base == IF reached = {} THEN LastEnd(q) ELSE ackno
      ends == CASE reached = {} -> Rebase(q, base).ends
                [] reached # {} /\ q.ends[i] = ackno -> SubSeq(q.ends, i + 1, Len(q.ends))
                [] reached # {} /\ q.ends[i] > ackno ->
                     [j \in DOMAIN q.ends |->
                        IF j < i THEN q.ends[j] + ackno - q.baseSqn ELSE q.ends[j] + prev - q.baseSqn]
  IN  EraseBytes([q EXCEPT !.baseSqn = base, !.ends = ends], base - q.baseSqn)

\* Mutant of UpdateBase: any ack counts for the FIN once it was sent.
UpdateBaseAnyAckForFin(q, ackno) ==
  IF ackno = 1
  THEN [Rebase(q, q.baseSqn + 1) EXCEPT !.synAcked = TRUE]
  ELSE IF q.finSent
       THEN [q EXCEPT !.finAcked = TRUE, !.baseSqn = ackno, !.unAcked = <<>>, !.ends = <<>>]
       ELSE IF QueueEmpty(q) THEN q ELSE Erase(q, ackno)

\* updateBase(), called with ackno > baseSqn.
UpdateBase(q, ackno) ==
  LET forFin == q.finSent /\ ackno = q.nextSeqno
  IN  CASE ackno = 1 -> [Rebase(q, q.baseSqn + 1) EXCEPT !.synAcked = TRUE]
        [] ackno # 1 /\ forFin /\ ~QueueEmpty(q) ->
             [q EXCEPT !.finAcked = TRUE, !.baseSqn = ackno, !.unAcked = <<>>, !.ends = <<>>,
                       !.overrun = FALSE]
        [] ackno # 1 /\ forFin /\ QueueEmpty(q) ->
             [Rebase(q, q.baseSqn + 1) EXCEPT !.finAcked = TRUE]
        [] ackno # 1 /\ ~forFin -> IF QueueEmpty(q) THEN q ELSE Erase(q, ackno)

(* Timer *)

StartTimer(t) ==
  [t EXCEPT !.isTimerRunning = TRUE, !.msSinceBaseSegSent = 0,
            !.consecutiveRetransmissions = 0, !.timeout = RetxTimeout]

StopTimer(t) == [StartTimer(t) EXCEPT !.isTimerRunning = FALSE]

(* TCPSender *)

\* Mutant of RemainSpace: what is in flight is not taken off.
RemainSpaceOfWindow(s) == s.q.winSize

\* size_t subtraction: a window smaller than what is in flight leaves a huge space.
RemainSpace(s) == Difference(s.q.winSize, BytesInFlight(s.q))

\* firstPush() of each of segs.
FirstPush(s, segs) ==
  [s EXCEPT !.segmentsOut = @ \o segs,
            !.timer = IF segs = <<>> \/ @.isTimerRunning THEN @ ELSE StartTimer(@)]

\* makeSynSeg() marks the SYN, and a FIN it can carry, as sent.
MarkSyn(s) ==
  LET syn == [s EXCEPT !.q.synSent = TRUE, !.q.nextSeqno = IF s.q.synSent THEN @ ELSE @ + 1]
  IN  IF Eof(s.stream) /\ RemainSpace(syn) >= 2
      THEN [syn EXCEPT !.q.finSent = TRUE, !.q.nextSeqno = @ + 1]
      ELSE syn

\* The segment makeSynSeg() returns.
SynSeg(s) == Segment(Wrap(0, s.isn), TRUE, MarkSyn(s).q.finSent, <<>>)

\* Mutant of PushFirstFin: the FIN takes no sequence number.
PushFirstFinUncounted(s) ==
  FirstPush([s EXCEPT !.q.finSent = TRUE], <<Segment(Wrap(s.q.nextSeqno, s.isn), FALSE, TRUE, <<>>)>>)

\* makeFirstFinSeg()
PushFirstFin(s) ==
  FirstPush([s EXCEPT !.q.finSent = TRUE, !.q.nextSeqno = @ + 1],
            <<Segment(Wrap(s.q.nextSeqno, s.isn), FALSE, TRUE, <<>>)>>)

\* Mutant of PushPayload: the bytes are peeked but not popped.
PushPayloadPeeks(s) ==
  LET n == Least(MAX_PAYLOAD_SIZE, Least(RemainSpace(s), s.stream.size))
  IN  IF n = 0
      THEN s
      ELSE FirstPush([s EXCEPT !.q.unAcked = @ \o PeekOutput(s.stream, n),
                               !.q.ends = Append(@, LastEnd(s.q) + n), !.q.nextSeqno = @ + n],
                     <<Segment(Wrap(s.q.nextSeqno, s.isn), FALSE, FALSE, PeekOutput(s.stream, n))>>)

\* The loop of fill_window(): segments of MAX_PAYLOAD_SIZE bytes until the space or the
\* stream is used up, a FIN on the last one if there is space left for it.
PushPayload(s) ==
  LET space == RemainSpace(s)
      n == Least(space, s.stream.size)
      fin == s.stream.isInputEnd /\ n = s.stream.size /\ space > n /\ ~s.q.finSent
      count == IF n = 0 /\ fin THEN 1 ELSE (n + MAX_PAYLOAD_SIZE - 1) \div MAX_PAYLOAD_SIZE
      EndOf(i) == Least(i * MAX_PAYLOAD_SIZE, n)
      segs == [i \in 1..count |->
                 Segment(Wrap(s.q.nextSeqno + (i - 1) * MAX_PAYLOAD_SIZE, s.isn), FALSE, fin /\ i = count,
                         SubSeq(s.stream.buf, (i - 1) * MAX_PAYLOAD_SIZE + 1, EndOf(i)))]
      q == [s.q EXCEPT !.unAcked = @ \o PeekOutput(s.stream, n),
                       !.ends = @ \o [i \in 1..count |-> LastEnd(s.q) + EndOf(i)],
                       !.finSent = @ \/ fin,
                       !.nextSeqno = @ + n + (IF fin THEN 1 ELSE 0)]
  IN  FirstPush([s EXCEPT !.stream = PopOutput(@, n), !.q = q], segs)

FillWindow(s) ==
  LET closed == IF Eof(s.stream) /\ RemainSpace(s) > 1 THEN PushFirstFin(s) ELSE s
  IN  CASE s.q.finSent \/ s.q.finAcked -> s
        [] ~s.q.finSent /\ ~s.q.finAcked /\ ~s.q.synSent -> FirstPush(MarkSyn(s), <<SynSeg(s)>>)
        [] ~s.q.finSent /\ ~s.q.finAcked /\ s.q.synSent ->
             IF s.q.synAcked THEN PushPayload(closed) ELSE closed

\* Mutant of SetWindowSize: a closed window is not probed.
SetWindowSizeZero(s, size) == [s EXCEPT !.timer.doubleTimeout = size # 0, !.q.winSize = size]

SetWindowSize(s, size) ==
  [s EXCEPT !.timer.doubleTimeout = size # 0, !.q.winSize = IF size > 0 THEN size ELSE 1]

\* Mutant of AckReceived: a FIN under way does not keep the timer running.
AckReceivedStopsEarly(s, ackno, windowSize) ==
  LET w == SetWindowSize(s, windowSize)
      absAckno == Unwrap(ackno, s.isn, s.q.baseSqn)
      q == UpdateBase(w.q, absAckno)
  IN  IF absAckno <= s.q.baseSqn \/ (s.q.finSent /\ absAckno > s.q.nextSeqno)
      THEN w
      ELSE [w EXCEPT !.q = q, !.timer = IF QueueEmpty(q) THEN StopTimer(@) ELSE StartTimer(@)]

\* Mutant of AckReceived: an old ackno is taken for a new one.
AckReceivedTakesOld(s, ackno, windowSize) ==
  LET w == SetWindowSize(s, windowSize)
      q == UpdateBase(w.q, Unwrap(ackno, s.isn, s.q.baseSqn))
  IN  [w EXCEPT !.q = q, !.timer = IF QueueEmpty(q) THEN StopTimer(@) ELSE StartTimer(@)]

AckReceived(s, ackno, windowSize) ==
  LET w == SetWindowSize(s, windowSize)
      absAckno == Unwrap(ackno, s.isn, s.q.baseSqn)
      refused == (s.q.finSent /\ absAckno > s.q.nextSeqno) \/ absAckno = 0 \/ absAckno < s.q.baseSqn
      q == UpdateBase(w.q, absAckno)
      outstanding == ~QueueEmpty(q) \/ (q.finSent /\ ~q.finAcked)
  IN  IF refused \/ absAckno = s.q.baseSqn
      THEN w
      ELSE [w EXCEPT !.q = q, !.timer = IF outstanding THEN StartTimer(@) ELSE StopTimer(@)]

\* timeoutRetransmit(): the segment it picks, and what picking it marks as sent.
TimeoutRetransmit(s) ==
  LET q == s.q
      syn == ~q.finSent /\ q.synSent /\ ~q.synAcked
      seg == CASE q.finSent /\ QueueEmpty(q) -> Segment(Wrap(q.nextSeqno - 1, s.isn), FALSE, TRUE, <<>>)
               [] syn -> SynSeg(s)
               [] ~syn /\ ~QueueEmpty(q) -> FrontSeg(q, s.isn)
               [] ~syn /\ ~q.finSent /\ QueueEmpty(q) -> Segment(0, FALSE, FALSE, <<>>)
      marked == IF syn THEN MarkSyn(s) ELSE s
      timer == [s.timer EXCEPT !.timeout = IF s.timer.doubleTimeout THEN @ * 2 ELSE @,
                               !.msSinceBaseSegSent = 0,
                               !.consecutiveRetransmissions = @ + 1]
  IN  IF q.finAcked
      THEN s
      ELSE [marked EXCEPT !.segmentsOut = Append(@, seg), !.timer = timer]

SenderTick(s, ms) ==
  LET later == [s EXCEPT !.timer.msSinceBaseSegSent = @ + ms]
  IN  CASE ~s.timer.isTimerRunning -> s
        [] s.timer.isTimerRunning /\ later.timer.msSinceBaseSegSent < s.timer.timeout -> later
        [] s.timer.isTimerRunning /\ later.timer.msSinceBaseSegSent >= s.timer.timeout ->
             TimeoutRetransmit(later)

SendEmptySegment(s) ==
  [s EXCEPT !.segmentsOut = Append(@, Segment(Wrap(s.q.nextSeqno, s.isn), FALSE, FALSE, <<>>))]
===============================================================================
