---------------------------- MODULE TCPSpongeSocket ----------------------------
(***************************************************************************)
(* Class TCPSpongeSocket (libsponge/tcp_helpers/tcp_sponge_socket.{hh,cc}):*)
(* the event loop that moves bytes between a TCPConnection, one end of a   *)
(* socketpair and the datagram adapter.  It runs on the owner's thread     *)
(* until the connection is open (connect(), listen_and_accept()) and on    *)
(* the TCP thread from then on (_tcp_main()).  The connection is a         *)
(* DuplexConnection.                                                       *)
(***************************************************************************)
EXTENDS EventLoop, FileDescriptor, DuplexConnection

\* phase: "wait" (at the top of _tcp_loop()), "work" (in the results of poll(), then the
\* tick), "leave" (the loop is over), "ended".  main: in _tcp_main().
NewSocket(queued) ==
  [loop |-> NewEventLoop, phase |-> "wait", main |-> FALSE,
   tcp |-> [NewConnection EXCEPT !.queued = queued], threadData |-> NewFd,
   outboundShutdown |-> FALSE, inboundShutdown |-> FALSE]

\* Rules 1 and 4 are on the datagram adapter, 2 and 3 on the socketpair.
TcpDirection == <<"IN", "IN", "OUT", "OUT">>

TcpUsedUp(t, r) == r = 2 /\ t.threadData.eof

TcpInterest(t, r) ==
  LET inbound == t.tcp.inbound
  IN  CASE r = 1 -> t.tcp.active
        [] r = 2 -> t.tcp.active /\ ~t.outboundShutdown /\ RemainingCapacity(t.tcp.outbound) > 0
        [] r = 3 -> inbound.size > 0 \/ ((Eof(inbound) \/ inbound.error) /\ ~t.inboundShutdown)
        [] r = 4 -> t.tcp.queued

TcpCancel(t, r) ==
  IF r = 2 THEN [t EXCEPT !.tcp = EndedInput(@), !.outboundShutdown = TRUE] ELSE t

\* wait_next_event() asks the rules in order: the ones behind a rule that is cancelled are asked
\* after that.
TcpAsk(acc, r) == Asked(acc, r, TcpUsedUp(acc.s, r), TcpInterest(acc.s, r), TcpCancel(acc.s, r))
TcpSetUp(t) == TcpAsk(TcpAsk(TcpAsk(TcpAsk(Asking(t), 1), 2), 3), 4)

\* Rule 1: a segment, if the adapter made one of the datagram, does this to the connection.
FromDatagrams(t, tcp) == [t EXCEPT !.tcp = tcp, !.loop = Served(@, 1)]

\* Rule 2: bytes of the application go to the connection, which sends n of what it holds.
FromApp(t, got, n) ==
  LET fd == FdRead(t.threadData, RemainingCapacity(t.tcp.outbound), got)
      written == Written(t.tcp, got)
  IN  [t EXCEPT !.threadData = fd, !.outboundShutdown = @ \/ fd.eof, !.loop = Served(@, 2),
                !.tcp = Sent(IF fd.eof THEN EndedInput(written) ELSE written, n, fd.eof)]

\* Line 101: the connection took less than it had room for.
TookLess(t, got) == ToWrite(t.tcp.outbound, got) # Len(got)

\* Mutant of ToApp: all that was offered is popped, not what was written.
ToAppPopsAll(t, n) ==
  LET left == Taken(t.tcp, t.tcp.inbound.size)
  IN  [t EXCEPT !.tcp = left, !.loop = Served(@, 3),
                !.inboundShutdown = @ \/ Eof(left.inbound) \/ left.inbound.error]

\* Rule 3: n bytes went to the application; behind the last one, and behind a reset, the
\* socketpair is shut down for writing.
ToApp(t, n) ==
  LET left == Taken(t.tcp, n)
  IN  [t EXCEPT !.tcp = left, !.loop = Served(@, 3),
                !.inboundShutdown = @ \/ Eof(left.inbound) \/ left.inbound.error]

\* Mutant of ToDatagrams: the first segment goes, the others stay.
ToDatagramsFirst(t) == [t EXCEPT !.loop = Served(@, 4)]

\* Rule 4: all segments go to the adapter.
ToDatagrams(t) == [t EXCEPT !.tcp = Drained(@), !.loop = Served(@, 4)]

\* Line 135 of eventloop.cc: a callback that neither read nor wrote its descriptor, and is
\* still interested.  Only rule 4 can come to it, when a lossy adapter drops what it writes.
BusyWait(t, dropped) == dropped /\ TcpInterest(ToDatagrams(t), 4)
===============================================================================
