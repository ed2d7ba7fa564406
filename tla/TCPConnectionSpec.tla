--------------------------- MODULE TCPConnectionSpec ---------------------------
(***************************************************************************)
(* Two TCPConnections joined by a network that may lose and duplicate      *)
(* segments, each driven by an application the way TCPSpongeSocket drives  *)
(* it: segments that arrive, writes, the end of the stream, reads, ticks,  *)
(* and the draining of segments_out() are events in any order.  The i-th   *)
(* byte an application writes is i.                                        *)
(***************************************************************************)
EXTENDS TCPState

CONSTANTS RecvCapacity, SendCapacity,  \* TCPConfig of both ends
          ClientIsn, ServerIsn,        \* fixed_isn of each
          MaxInFlight,                 \* bound: segments the network holds in a direction
          MaxIdle,                     \* bound: time an active connection goes without a segment
          Plans                        \* the conversations to consider, each a record with
                                       \*   len: bound, the bytes each application writes
                                       \*   faults: bound, what the network may do to segments
                                       \*   kinds: the faults among "loss", "copy" and "delay"
                                       \*   aborts: may an application destroy its connection?

ASSUME LinkAssumption ==
  /\ {RecvCapacity, SendCapacity, MaxInFlight, MaxIdle} \subseteq Nat
  /\ {ClientIsn, ServerIsn} \subseteq 0..SeqMod - 1
  /\ RecvCapacity + 1 <= Half
  /\ \A p \in Plans :
       /\ p.faults \in Nat /\ p.kinds \subseteq {"loss", "copy", "delay"} /\ p.aborts \in BOOLEAN
       /\ \A h \in {"client", "server"} : p.len[h] \in Nat /\ p.len[h] + 3 < Half

VARIABLES conn,    \* the connection of each host
          net,     \* the segments on their way to each host
          faults,  \* what the network did so far
          plan     \* the conversation this is

vars == <<conn, net, faults, plan>>

Hosts == {"client", "server"}
Peer(h) == IF h = "client" THEN "server" ELSE "client"
StreamLen(h) == plan.len[h]
Isn(h) == IF h = "client" THEN ClientIsn ELSE ServerIsn

Inbound(h) == StreamOut(conn[h].receiver)
Outbound(h) == conn[h].sender.stream

Init ==
  /\ conn = [h \in Hosts |-> NewTCPConnection(RecvCapacity, SendCapacity, Isn(h))]
  /\ net = [h \in Hosts |-> <<>>]
  /\ faults = 0
  /\ plan \in Plans

Set(h, c) == conn' = [conn EXCEPT ![h] = c]

\* connect() of the client; the server listens.
AppConnect ==
  /\ StateOf(conn["client"]) = Official["LISTEN"]
  /\ Set("client", Connect(conn["client"]))
  /\ UNCHANGED <<net, faults, plan>>

\* connect() and listen_and_accept() return, and the application goes on.
Opened(h) == ~In(conn[h], {"LISTEN", "SYN_SENT", "SYN_RCVD"})

\* Rule 2 of the event loop: no more than remaining_outbound_capacity() is written.
AppWrite(h, len) ==
  /\ conn[h].active /\ ~Outbound(h).isInputEnd
  /\ len <= RemainingCapacity(Outbound(h)) /\ Outbound(h).numWritten + len <= StreamLen(h)
  /\ Opened(h)
  /\ UNCHANGED <<net, faults, plan>>
  /\ Set(h, ConnectionWrite(conn[h], [i \in 1..len |-> Outbound(h).numWritten + i]))

AppEndInput(h) ==
  /\ conn[h].active /\ ~Outbound(h).isInputEnd
  /\ RemainingCapacity(Outbound(h)) > 0 /\ Outbound(h).numWritten = StreamLen(h)
  /\ Opened(h)
  /\ UNCHANGED <<net, faults, plan>>
  /\ Set(h, EndInputStream(conn[h]))

\* Rule 3: the application takes what has arrived.
AppRead(h) ==
  /\ Inbound(h).size > 0
  /\ UNCHANGED <<net, faults, plan>>
  /\ Set(h, [conn[h] EXCEPT !.receiver.reassembler.output = PopOutput(@, @.size)])

\* Rule 4: all queued segments go to the network.
CanTransmit(h) ==
  /\ conn[h].segmentsOut # <<>>
  /\ Len(net[Peer(h)]) + Len(conn[h].segmentsOut) <= MaxInFlight

Transmit(h) ==
  /\ CanTransmit(h)
  /\ net' = [net EXCEPT ![Peer(h)] = @ \o conn[h].segmentsOut]
  /\ Set(h, [conn[h] EXCEPT !.segmentsOut = <<>>])
  /\ UNCHANGED <<faults, plan>>

\* Rule 1: a segment arrives.
Deliver(h) ==
  /\ net[h] # <<>>
  /\ net' = [net EXCEPT ![h] = Tail(@)]
  /\ UNCHANGED <<faults, plan>>
  /\ Set(h, SegmentReceived(conn[h], Head(net[h]), 0))

\* The network does something of this kind to a segment.
Fault(kind) == kind \in plan.kinds /\ faults < plan.faults /\ faults' = faults + 1

\* Time passes for both.  It usually passes while no segment is under way; a tick that
\* finds one is a delay, and counts as a fault.  Where no timer runs and nobody is in
\* TIME_WAIT, a tick only adds to a counter that the next segment resets.
Quiet == \A h \in Hosts : net[h] = <<>> /\ conn[h].segmentsOut = <<>>

\* Two ends that each miss a segment of the other answer one another's empty segments as
\* out of order until a timer runs out: this exchange alone does not hold up the clock.
MissesSegment(h) ==
  LET peer == conn[Peer(h)].sender
  IN  conn[h].active /\ ~ReceiverInListen(conn[h]) /\ Wrap(peer.q.nextSeqno, peer.isn) # conn[h].receiver.ackno

AnsweredInTurn(h, seg) == LengthInSequenceSpace(seg) = 0 /\ OutOfOrder(conn[h], seg)

OnlyAnswers ==
  /\ \A h \in Hosts : MissesSegment(h)
  /\ \A h \in Hosts :
       \A seg \in Range(net[h]) \cup Range(conn[Peer(h)].segmentsOut) : AnsweredInTurn(h, seg)

TimeForTick == Quiet \/ OnlyAnswers

Clocked ==
  /\ \E h \in Hosts : conn[h].active /\ (conn[h].sender.timer.isTimerRunning \/ conn[h].timeWait)
  /\ \A h \in Hosts : conn[h].active => conn[h].timeSinceLastSegment < MaxIdle

Tick ==
  /\ Clocked
  /\ \/ TimeForTick /\ UNCHANGED faults
     \/ ~TimeForTick /\ Fault("delay")
  /\ UNCHANGED <<net, plan>>
  /\ conn' = [h \in Hosts |-> ConnectionTick(conn[h], 1)]

Lose(h) ==
  /\ net[h] # <<>> /\ Fault("loss")
  /\ net' = [net EXCEPT ![h] = Tail(@)]
  /\ UNCHANGED <<conn, plan>>

\* A second copy of the next segment arrives after all that are on their way.
Duplicate(h) ==
  /\ net[h] # <<>> /\ Len(net[h]) < MaxInFlight /\ Fault("copy")
  /\ net' = [net EXCEPT ![h] = Append(@, Head(@))]
  /\ UNCHANGED <<conn, plan>>

\* The destructor of a connection that is still open queues a RST, on a queue that goes with
\* the object: nothing of it reaches the network any more.
AppDestroy(h) ==
  /\ plan.aborts /\ Opened(h) /\ conn[h].active
  /\ Set(h, [UncleanShutdown(Destroy(conn[h])) EXCEPT !.segmentsOut = <<>>])
  /\ UNCHANGED <<net, faults, plan>>

Next ==
  \/ AppConnect
  \/ Tick
  \/ \E h \in Hosts :
       \/ \E len \in 1..SendCapacity : AppWrite(h, len)
       \/ AppEndInput(h)
       \/ AppRead(h)
       \/ Transmit(h)
       \/ Deliver(h)
       \/ Lose(h)
       \/ Duplicate(h)
       \/ AppDestroy(h)

Spec == Init /\ [][Next]_vars

\* The event loop serves every rule that is ready, time passes, and both applications go
\* on to read, write and end their streams.  (Each disjunct below spells out when the
\* action can change the state.)
CanWrite(h) ==
  /\ conn[h].active /\ ~Outbound(h).isInputEnd
  /\ RemainingCapacity(Outbound(h)) > 0 /\ Opened(h)

Fairness ==
  /\ []<>(StateOf(conn["client"]) # Official["LISTEN"])
  /\ []<>~(Clocked /\ TimeForTick) \/ []<><<Tick>>_vars
  /\ \A h \in Hosts :
       /\ []<>~(CanWrite(h) /\ Outbound(h).numWritten < StreamLen(h))
            \/ []<><<\E len \in 1..SendCapacity : AppWrite(h, len)>>_vars
       /\ []<>~(CanWrite(h) /\ Outbound(h).numWritten = StreamLen(h)) \/ []<><<AppEndInput(h)>>_vars
       /\ []<>(Inbound(h).size = 0) \/ []<><<AppRead(h)>>_vars
       /\ []<>~CanTransmit(h) \/ []<><<Transmit(h)>>_vars
       /\ []<>(net[h] = <<>>) \/ []<><<Deliver(h)>>_vars

FairSpec == Spec /\ Fairness

(* Properties *)

\* The members of the class have their C++ types.
TypeOK ==
  \A h \in Hosts :
    /\ {conn[h].active, conn[h].linger, conn[h].timeWait} \subseteq BOOLEAN
    /\ conn[h].timeSinceLastSegment \in Nat
    /\ conn[h].sender.segmentsOut = <<>>
    /\ \A i \in DOMAIN conn[h].segmentsOut : conn[h].segmentsOut[i].win \in 0..WinMod - 1

\* Each application reads the bytes the other one wrote, each once and in order, and the end
\* of the stream exactly behind the last of them.
StreamsIntact ==
  \A h \in Hosts :
    LET in == Inbound(h)
        sent == Outbound(Peer(h))
    IN  /\ \A i \in 1..in.size : in.buf[i] = in.numRead + i
        /\ in.numWritten <= sent.numWritten
        /\ in.isInputEnd => sent.isInputEnd /\ in.numWritten = sent.numWritten

\* A sender lets go only of what has reached the other application's stream: its base never
\* passes the peer's ackno, and its FIN counts as acknowledged only when the peer has
\* the whole stream.
AckedMeansDelivered ==
  \A h \in Hosts :
    LET q == conn[h].sender.q
    IN  /\ q.baseSqn <= Inbound(Peer(h)).numWritten + (IF Inbound(Peer(h)).isInputEnd THEN 2 ELSE 1)
        /\ q.finAcked => Inbound(Peer(h)).isInputEnd

\* A connection that ended without a reset has taken in the whole of the peer's stream, and
\* has nothing left to send: its FIN is out, and acknowledged if it was the one to close
\* second.
ClosesBehindBothStreams ==
  \A h \in Hosts :
    ~conn[h].active /\ ~Inbound(h).error =>
      /\ Inbound(h).isInputEnd
      /\ conn[h].sender.q.finSent /\ (~conn[h].linger => conn[h].sender.q.finAcked)

\* active(): "true if either stream is still running or if the TCPConnection is lingering".
\* So a connection that ended without a reset has seen both of its streams finish, and the
\* outgoing one is finished when its FIN is acknowledged.
CleanCloseIsComplete ==
  \A h \in Hosts :
    ~conn[h].active /\ ~Inbound(h).error => Inbound(h).isInputEnd /\ conn[h].sender.q.finAcked

\* The states a connection can go to from each official one, by the diagram of RFC 793; one
\* segment may carry an ACK and a FIN, and so take two arrows at once.
After ==
  [LISTEN      |-> {"SYN_SENT", "SYN_RCVD"},
   SYN_SENT    |-> {"SYN_RCVD", "ESTABLISHED"},
   SYN_RCVD    |-> {"ESTABLISHED", "CLOSE_WAIT"},
   ESTABLISHED |-> {"FIN_WAIT_1", "CLOSE_WAIT", "CLOSING"},
   CLOSE_WAIT  |-> {"LAST_ACK"},
   LAST_ACK    |-> {"CLOSED"},
   FIN_WAIT_1  |-> {"FIN_WAIT_2", "CLOSING", "TIME_WAIT"},
   FIN_WAIT_2  |-> {"TIME_WAIT"},
   CLOSING     |-> {"TIME_WAIT"},
   TIME_WAIT   |-> {"CLOSED"},
   RESET       |-> {},
   CLOSED      |-> {}]

\* What a connection is that timed out of CLOSING, its FIN not acknowledged: no official state.
TimedOut == [Official["CLOSING"] EXCEPT !.active = FALSE, !.linger = FALSE]

Arrows ==
  UNION {{<<Official[from], Official[to]>> : to \in After[from] \cup {from, "RESET"}} : from \in DOMAIN Official}

\* "To test that Sponge follows the TCP spec, we use this class to compare the official
\* states with Sponge's": every connection is in an official state and moves along the diagram,
\* with one exception: a connection may time out of CLOSING.  It takes a peer that has
\* vanished, or two faults between living peers (see CleanCloseIsComplete).
FollowsDiagram ==
  [][\A h \in Hosts :
       <<StateOf(conn[h]), StateOf(conn[h])'>>
         \in Arrows \cup {<<Official["CLOSING"], TimedOut>>, <<TimedOut, TimedOut>>}]_vars

\* A conversation that both applications end comes to rest.  One segment lost, repeated or
\* delayed is always made good, and both connections end.  After more faults, or the
\* destruction of a connection, one end may be gone without the other's knowing: it gave up and
\* its RST was lost or ignored (RstShutsDown), it timed out of CLOSING, or it was destroyed
\* (DestructionEndsBoth).  The other then gives up as well, except where nothing of its own
\* is outstanding: in FIN_WAIT_2, or if it still listens, it has no timer and waits for ever.
\* Two connections never wait for each other, and no other state lasts.
ComesToRest ==
  LET deserted(h) ==
        /\ In(conn[h], {"LISTEN", "FIN_WAIT_2"}) /\ ~conn[Peer(h)].active
        /\ plan.aborts \/ faults > 1
  IN  <>[](\A h \in Hosts : ~conn[h].active \/ deserted(h))

\* "When a connected socket is destructed, it will send a RST": where the network loses nothing,
\* the connection that is destroyed takes its peer with it.  Once all that was sent has arrived,
\* the peer is not left in FIN_WAIT_2, where it has no timer and only a segment could end it.
DestructionEndsBoth ==
  \A h \in Hosts : Inbound(h).error /\ Quiet => ~In(conn[Peer(h)], {"FIN_WAIT_2"})

\* Towards the socket that drives it each connection is a DuplexConnection: it takes what it
\* has room for, delivers in order, and becomes inactive only behind both streams or with an
\* error on both.
Side(h) ==
  [opening |-> ~Opened(h) /\ ~Inbound(h).error, active |-> conn[h].active, queued |-> conn[h].segmentsOut # <<>>,
   inbound |-> Inbound(h), outbound |-> Outbound(h)]

ClientSide == INSTANCE DuplexConnectionSpec WITH c <- Side("client")
ServerSide == INSTANCE DuplexConnectionSpec WITH c <- Side("server")

KeepsContract == ClientSide!Spec /\ ServerSide!Spec

\* "After a RST segment: unclean shutdown at once", taken only of a RST that lies in the
\* receiver's window: the tests want the others ignored.
RstShutsDown ==
  [][\A h \in Hosts :
       LET r == conn[h].receiver
           seg == Head(net[h])
       IN  Deliver(h) /\ seg.rst /\ ~ReceiverInListen(conn[h])
             /\ Minus(seg.seqno, r.ackno) \in 0..WindowSize(r) - 1
           => ~conn'[h].active]_vars
===============================================================================
