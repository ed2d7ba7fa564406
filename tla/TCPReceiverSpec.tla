---------------------------- MODULE TCPReceiverSpec ----------------------------
(***************************************************************************)
(* One TCPReceiver, the network that brings it segments of a peer's        *)
(* stream, and the reader of its output.  The byte with index i is <<i>>.  *)
(* Segments may be lost (never arrive), be duplicated and be reordered;    *)
(* the peer stays inside the window it was told.                           *)
(***************************************************************************)
EXTENDS TCPReceiver

CONSTANTS Capacity,   \* the argument of the constructor
          PeerIsns,   \* the initial sequence numbers the peer may choose
          StreamLen,  \* bound: length of the peer's stream
          MaxPayload, \* bound: longest payload
          MaxDelay    \* bound: how far behind the stream a delayed duplicate may be

ASSUME ReceiverAssumption ==
  /\ Capacity \in Nat /\ StreamLen \in Nat /\ MaxPayload \in Nat /\ MaxDelay \in Nat
  /\ PeerIsns \subseteq 0..SeqMod - 1
  \* a window, or a delay, of half the sequence space cannot be told apart
  /\ Capacity + 1 <= Half /\ MaxDelay <= Half
  /\ SizeMod > StreamLen + MaxPayload + Capacity + SeqMod

VARIABLES v, peerIsn, delivered

vars == <<v, peerIsn, delivered>>

Slice(index, len) == [j \in 1..len |-> <<index + j - 1>>]

FirstUnacceptable == StreamOut(v).numWritten + WindowSize(v)

Init ==
  /\ v = NewTCPReceiver(Capacity)
  /\ peerIsn \in PeerIsns
  /\ delivered = <<>>

Arrive(seg) ==
  /\ v' = ReceiverSegmentReceived(v, seg, 0)
  /\ UNCHANGED <<peerIsn, delivered>>

\* The peer's SYN; it may carry the first bytes, and even the FIN.
ArriveSyn(len, fin) ==
  /\ len <= Capacity /\ len <= StreamLen
  /\ fin => len = StreamLen
  /\ Arrive([seqno |-> peerIsn, syn |-> TRUE, fin |-> fin, payload |-> Slice(0, len)])

\* Any other segment of the stream, the first time or again.
ArriveData(index, len, fin) ==
  /\ index >= StreamOut(v).numWritten - MaxDelay
  /\ index + len <= StreamLen /\ index + len <= FirstUnacceptable
  /\ fin => index + len = StreamLen
  /\ Arrive([seqno |-> Wrap(index + 1, peerIsn), syn |-> FALSE, fin |-> fin, payload |-> Slice(index, len)])

\* A keep-alive: one sequence number below the window, with no byte or a meaningless one.
ArriveKeepAlive(len) ==
  /\ v.synRecv
  /\ Arrive([seqno |-> Wrap(StreamOut(v).numWritten, peerIsn), syn |-> FALSE, fin |-> FALSE,
             payload |-> [j \in 1..len |-> Garbage]])

Read(len) ==
  /\ len <= StreamOut(v).size
  /\ v' = [v EXCEPT !.reassembler.output = PopOutput(@, len)]
  /\ delivered' = delivered \o PeekOutput(StreamOut(v), len)
  /\ UNCHANGED peerIsn

Next ==
  \/ \E len \in 0..MaxPayload, fin \in BOOLEAN : ArriveSyn(len, fin)
  \/ \E index \in 0..StreamLen, len \in 0..MaxPayload, fin \in BOOLEAN : ArriveData(index, len, fin)
  \/ \E len \in 0..1 : ArriveKeepAlive(len)
  \/ \E len \in 1..Capacity : Read(len)

Spec == Init /\ [][Next]_vars

(* Properties *)

\* The peer's bytes, the meaningless one of a keep-alive not among them.
StreamBytes == {<<i>> : i \in 0..StreamLen - 1}

\* The members of the class have their C++ types, those of the reassembler and of its output
\* included; what is held back, in the output or with the reader is the peer's bytes only; and
\* the window, a difference of unsigned numbers, never goes below zero.
TypeOK ==
  /\ v.synRecv \in BOOLEAN
  /\ v.isn \in 0..SeqMod - 1 /\ v.ackno \in 0..SeqMod - 1
  /\ WindowSize(v) \in 0..Capacity
  /\ v.reassembler.exIdx \in 0..StreamLen /\ v.reassembler.eofIdx \in Nat
  /\ v.reassembler.eofSignRecv \in BOOLEAN
  /\ DOMAIN v.reassembler.strs \subseteq Nat
  /\ \A k \in DOMAIN v.reassembler.strs : v.reassembler.strs[k] \in Seq(StreamBytes)
  /\ StreamOut(v) \in Streams(StreamBytes)
  /\ delivered \in Seq(StreamBytes)

\* Across wrap-around of the sequence numbers, delayed duplicates and keep-alives, the
\* reader gets the peer's bytes: each once, at its place, and no meaningless one.
DeliveredInOrder ==
  LET all == delivered \o StreamOut(v).buf
  IN  \A i \in 1..Len(all) : all[i] = <<i - 1>>

\* The ackno is "the sequence number of the first byte in the stream that the receiver
\* hasn't received": nothing is acknowledged before it is in the output, all that is in
\* the output is, and the FIN is acknowledged only with the whole stream.
AcknowledgesOutput ==
  v.synRecv =>
    /\ v.isn = peerIsn
    /\ \/ v.ackno = Wrap(StreamOut(v).numWritten + 1, peerIsn) /\ ~StreamOut(v).isInputEnd
       \/ v.ackno = Wrap(StreamLen + 2, peerIsn) /\ StreamOut(v).isInputEnd /\ StreamOut(v).numWritten = StreamLen

\* The right edge of the window never moves back, so what the peer sent in good faith
\* stays acceptable.
WindowNeverShrinks == [][FirstUnacceptable' >= FirstUnacceptable]_vars

\* unwrap() next to the stream index gives back the number that was wrapped, wherever the
\* sequence numbers wrap, when it is near: less than half the space before the index, or at
\* most half the space after it.
RoundTrip ==
  LET checkpoint == StreamOut(v).numWritten
  IN  \A n \in 0..checkpoint + Half :
        checkpoint - n < Half => Unwrap(Wrap(n, v.isn), v.isn, checkpoint) = n

\* unwrap() returns "the absolute sequence number that wraps to `n` and is closest to
\* `checkpoint`": of any number of the stream or beyond it, no other with the same wrapped
\* value is nearer to the stream index, and near its beginning the result is still unsigned.
UnwrapIsClosest ==
  LET checkpoint == StreamOut(v).numWritten
  IN  \A n \in 0..StreamLen + SeqMod :
        LET found == Unwrap(Wrap(n, v.isn), v.isn, checkpoint)
        IN  /\ found \in Nat /\ Wrap(found, v.isn) = Wrap(n, v.isn)
            /\ Distance(found, checkpoint) <= Distance(n, checkpoint)
===============================================================================
