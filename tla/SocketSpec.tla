------------------------------- MODULE SocketSpec ------------------------------
(***************************************************************************)
(* A program like apps/tcp_udp.cc: connect() or listen_and_accept(), then  *)
(* bidirectional_stream_copy() on the main thread beside the TCP thread,   *)
(* then wait_until_closed(); or, out of an exception, the destructor of    *)
(* the socket.  The two threads share the socketpair and _abort.  The peer *)
(* is an environment that sends its stream and acknowledges ours; stdin    *)
(* and stdout may be pipes.                                                *)
(***************************************************************************)
EXTENDS StreamCopy, TCPSpongeSocket

CONSTANT Loads  \* records of the bytes on stdin, those of the peer's stream (bounds), and
                \* how poll() shows the end of stdin: "pipe" by a hang-up, "tty" as readable

ASSUME SocketAssumption ==
  /\ Loads \subseteq [input : Nat, peer : Nat, kind : {"pipe", "tty"}]
  /\ {PairCapacity, CopyCapacity, RecvCapacity, SendCapacity} \subseteq Nat \ {0}

VARIABLES load,
          app,       \* the main thread: its pc and the locals of the copy
          sock,      \* the event loop of the socket
          pair,      \* the socketpair
          abort,     \* _abort
          arrival,   \* the datagram that waits to be read
          stdin, stdout,
          outcome    \* how the process ended

vars == <<load, app, sock, pair, abort, arrival, stdin, stdout, outcome>>

Running == outcome = "running"

Init ==
  /\ load \in Loads
  /\ app = NewCopy
  /\ \E client \in BOOLEAN : sock = NewSocket(client)
  /\ pair = NewPair /\ abort = FALSE /\ arrival = "none"
  /\ stdin = [ready |-> <<>>, fed |-> 0, closed |-> FALSE]
  /\ stdout = [got |-> <<>>, broken |-> FALSE]
  /\ outcome = "running"

(* The world outside *)

Feed ==
  /\ Running /\ ~stdin.closed
  /\ stdin' = IF stdin.fed < load.input
              THEN [stdin EXCEPT !.fed = @ + 1, !.ready = Append(@, stdin.fed + 1)]
              ELSE [stdin EXCEPT !.closed = TRUE]
  /\ UNCHANGED <<load, app, sock, pair, abort, arrival, stdout, outcome>>

\* Whoever reads our stdout goes away.
BreakOutput ==
  /\ Running /\ ~stdout.broken /\ ~app.output.closed
  /\ stdout' = [stdout EXCEPT !.broken = TRUE]
  /\ UNCHANGED <<load, app, sock, pair, abort, arrival, stdin, outcome>>

\* What the peer may send: its part of the handshake, the next byte, the end of its stream,
\* an ack that makes room, the ack of everything, a reset.  "other" is a datagram that the
\* adapter makes no segment of.
Useful(what) ==
  LET tcp == sock.tcp
  IN  tcp.active /\
      CASE what = "open" -> tcp.opening
        [] what = "data" -> ~tcp.opening /\ tcp.inbound.numWritten < load.peer
        [] what = "fin"  -> ~tcp.opening /\ tcp.inbound.numWritten = load.peer /\ ~tcp.inbound.isInputEnd
        [] what = "ack"  -> ~tcp.opening /\ tcp.outbound.size > 0
        [] what = "last" -> Complete(tcp)

Help == {"open", "data", "fin", "ack", "last"}

\* What may wait to be read when poll() returns.  (It is looked at by nobody before that.)
Waiting == {"none", "rst", "other"} \cup {what \in Help : Useful(what)}

(* The main thread *)

InputEvents ==
  (IF stdin.ready # <<>> \/ (stdin.closed /\ load.kind = "tty") THEN {"IN"} ELSE {})
    \cup (IF stdin.closed /\ load.kind = "pipe" THEN {"HUP"} ELSE {})

OutputEvents == {"OUT"} \cup (IF stdout.broken THEN {"ERR"} ELSE {})

CopyRevents == <<InputEvents, PairEvents(pair, "app"), PairEvents(pair, "app"), OutputEvents>>

\* wait_next_event(-1), up to the return of poll(); with nothing left to poll the copy is over.
AfterPoll(setup) ==
  IF setup.polled = {}
  THEN app' = [setup.s EXCEPT !.loop.rules = setup.rules, !.pc = "closing"]
  ELSE /\ Awake(setup.rules, setup.polled, CopyDirection, CopyRevents)
       /\ app' = [setup.s EXCEPT !.loop = [rules |-> setup.rules,
                                           todo |-> Results(setup.rules, setup.polled, CopyDirection, CopyRevents)]]

CopyWait ==
  /\ Running /\ app.pc = "copying" /\ app.loop.todo = NothingToDo
  /\ AfterPoll(CopySetUp(app))
  /\ UNCHANGED <<load, sock, pair, abort, arrival, stdin, stdout, outcome>>

CopyTurn(r, verdict) == Running /\ app.pc = "copying" /\ Turn(app.loop, r, verdict)

CopyCancels ==
  /\ \E r \in Rules : CopyTurn(r, "defunct") /\ app' = [CopyCancel(app, r) EXCEPT !.loop = Erased(@, r)]
  /\ UNCHANGED <<load, sock, pair, abort, arrival, stdin, stdout, outcome>>

\* "error on polled file descriptor": the exception unwinds to main() through ~TCPSpongeSocket().
CopyThrows ==
  /\ \E r \in Rules : CopyTurn(r, "error")
  /\ app' = [app EXCEPT !.pc = "closing", !.threw = TRUE, !.loop.todo = NothingToDo]
  /\ UNCHANGED <<load, sock, pair, abort, arrival, stdin, stdout, outcome>>

Die(how) == outcome' = how /\ UNCHANGED <<load, app, sock, pair, abort, arrival, stdin, stdout>>

CopyFromInput ==
  LET got == SubSeq(stdin.ready, 1, Least(RemainingCapacity(app.outbound), Len(stdin.ready)))
  IN  /\ CopyTurn(1, "ready")
      /\ app' = FromInput(app, got)
      /\ stdin' = [stdin EXCEPT !.ready = SubSeq(@, Len(got) + 1, Len(@))]
      /\ UNCHANGED <<load, sock, pair, abort, arrival, stdout, outcome>>

CopyToSocket ==
  LET data == app.outbound.buf
      n == PairTakes(pair, "app", data)
      written == PairWrite(pair, "app", data)
  IN  /\ CopyTurn(2, "ready")
      /\ IF Sigpipe(pair, "app", data)
         THEN Die("killed")
         ELSE /\ app' = ToSocket(app, n)
              /\ pair' = IF app'.outboundShutdown THEN ShutWrite(written, "app") ELSE written
              /\ UNCHANGED <<load, sock, abort, arrival, stdin, stdout, outcome>>

CopyFromSocket ==
  LET limit == RemainingCapacity(app.inbound)
  IN  /\ CopyTurn(3, "ready")
      /\ app' = FromSocket(app, PairGot(pair, "app", limit))
      /\ pair' = PairRead(pair, "app", limit)
      /\ UNCHANGED <<load, sock, abort, arrival, stdin, stdout, outcome>>

\* stdout may take a part only; nobody reading it is one more SIGPIPE.
CopyToOutput ==
  LET data == app.inbound.buf
  IN  /\ CopyTurn(4, "ready")
      /\ IF stdout.broken /\ data # <<>>
         THEN Die("killed")
         ELSE \E n \in 0..Len(data) :
                /\ n = 0 => data = <<>>
                /\ app' = ToOutput(app, n)
                /\ stdout' = [stdout EXCEPT !.got = @ \o SubSeq(data, 1, n)]
                /\ UNCHANGED <<load, sock, pair, abort, arrival, stdin, outcome>>

\* wait_until_closed(), or the destructor when the copy threw.
AppClose ==
  /\ Running /\ app.pc = "closing"
  /\ IF app.threw THEN abort' = TRUE /\ UNCHANGED pair ELSE pair' = ShutBoth(pair) /\ UNCHANGED abort
  /\ app' = [app EXCEPT !.pc = "joining"]
  /\ UNCHANGED <<load, sock, arrival, stdin, stdout, outcome>>

AppJoin ==
  /\ Running /\ app.pc = "joining" /\ sock.phase = "ended"
  /\ outcome' = IF app.threw THEN "failure" ELSE "success"
  /\ UNCHANGED <<load, app, sock, pair, abort, arrival, stdin, stdout>>

(* The event loop of the socket: first on the main thread, then on the TCP thread *)

SockRevents(what) ==
  LET adapter == {"OUT"} \cup (IF what # "none" THEN {"IN"} ELSE {})
  IN  <<adapter, PairEvents(pair, "tcp"), PairEvents(pair, "tcp"), adapter>>

\* The condition of _tcp_loop().
LoopOn == sock.main \/ sock.tcp.opening

\* With nothing ready poll() times out.
SockAfterPoll(setup, what) ==
  IF setup.polled = {}
  THEN sock' = [setup.s EXCEPT !.loop.rules = setup.rules, !.phase = "leave"] /\ UNCHANGED arrival
  ELSE /\ sock' = [setup.s EXCEPT
                     !.loop = [rules |-> setup.rules,
                               todo |-> Results(setup.rules, setup.polled, TcpDirection, SockRevents(what))],
                     !.phase = "work"]
       /\ arrival' = what

SockWait ==
  /\ Running /\ sock.phase = "wait" /\ LoopOn
  /\ \E what \in Waiting :
       /\ what # "none" => sock.tcp.active
       /\ SockAfterPoll(TcpSetUp(sock), what)
  /\ UNCHANGED <<load, app, pair, abort, stdin, stdout, outcome>>

SockTurn(r, verdict) == Running /\ sock.phase = "work" /\ Turn(sock.loop, r, verdict)

SockCancels ==
  /\ \E r \in Rules : SockTurn(r, "defunct") /\ sock' = [TcpCancel(sock, r) EXCEPT !.loop = Erased(@, r)]
  /\ UNCHANGED <<load, app, pair, abort, arrival, stdin, stdout, outcome>>

\* What a datagram does to the connection.  (Tick gives the other ways to end it.)
Effect(tcp, what) ==
  CASE ~tcp.active -> tcp
    [] tcp.active /\ what = "open" -> Sent(Opened(tcp), 0, TRUE)
    [] tcp.active /\ what = "data" -> Sent(Arrived(tcp, Least(1, RemainingCapacity(tcp.inbound))), 0, TRUE)
    [] tcp.active /\ what = "fin" -> Sent(Finished(tcp), 0, TRUE)
    [] tcp.active /\ what = "ack" -> Sent(tcp, 1, FALSE)
    [] tcp.active /\ what = "last" -> IF Complete(tcp) THEN Closed(tcp) ELSE tcp
    [] tcp.active /\ what = "rst" -> Reset(tcp)
    [] tcp.active /\ what = "other" -> tcp

SockFromDatagrams ==
  /\ SockTurn(1, "ready")
  /\ sock' = FromDatagrams(sock, Effect(sock.tcp, arrival))
  /\ arrival' = "none"
  /\ UNCHANGED <<load, app, pair, abort, stdin, stdout, outcome>>

\* A connection that takes less than it advertised would end the process by std::terminate().
SockFromApp ==
  LET limit == RemainingCapacity(sock.tcp.outbound)
      got == PairGot(pair, "tcp", limit)
  IN  /\ SockTurn(2, "ready")
      /\ IF TookLess(sock, got)
         THEN Die("terminated")
         ELSE /\ \E n \in 0..1 : sock' = FromApp(sock, got, n)
              /\ pair' = PairRead(pair, "tcp", limit)
              /\ UNCHANGED <<load, app, abort, arrival, stdin, stdout, outcome>>

SockToApp ==
  LET data == sock.tcp.inbound.buf
      written == PairWrite(pair, "tcp", data)
  IN  /\ SockTurn(3, "ready")
      /\ IF Sigpipe(pair, "tcp", data)
         THEN Die("killed")
         ELSE /\ sock' = ToApp(sock, PairTakes(pair, "tcp", data))
              /\ pair' = IF sock'.inboundShutdown THEN ShutWrite(written, "tcp") ELSE written
              /\ UNCHANGED <<load, app, abort, arrival, stdin, stdout, outcome>>

SockToDatagrams(dropped) ==
  /\ SockTurn(4, "ready")
  /\ IF BusyWait(sock, dropped)
     THEN Die("terminated")
     ELSE /\ sock' = ToDatagrams(sock)
          /\ UNCHANGED <<load, app, pair, abort, arrival, stdin, stdout, outcome>>

\* tick() may do nothing, retransmit, give up with a reset, or end the lingering.
Ticked(tcp) ==
  {tcp} \cup (IF tcp.active THEN {Sent(tcp, 0, TRUE), Reset(Sent(tcp, 0, TRUE))} ELSE {})
        \cup (IF tcp.active /\ Complete(tcp) THEN {Closed(tcp)} ELSE {})

\* Mutant of SockTick: _abort is not looked at.
SockTickNoAbort ==
  /\ Running /\ sock.phase = "work" /\ sock.loop.todo = NothingToDo
  /\ \E tcp \in Ticked(sock.tcp) : sock' = [sock EXCEPT !.phase = "wait", !.tcp = tcp]
  /\ UNCHANGED <<load, app, pair, abort, arrival, stdin, stdout, outcome>>

\* Behind wait_next_event(): _abort is looked at, and an active connection gets its tick.
SockTick ==
  /\ Running /\ sock.phase = "work" /\ sock.loop.todo = NothingToDo
  /\ IF abort
     THEN sock' = [sock EXCEPT !.phase = "leave"]
     ELSE \E tcp \in Ticked(sock.tcp) : sock' = [sock EXCEPT !.phase = "wait", !.tcp = tcp]
  /\ UNCHANGED <<load, app, pair, abort, arrival, stdin, stdout, outcome>>

\* connect() and listen_and_accept() return, for better or worse, and the TCP thread takes over.
SockOpened ==
  /\ Running /\ ~sock.main
  /\ sock.phase = "leave" \/ (sock.phase = "wait" /\ ~LoopOn)
  /\ sock' = [sock EXCEPT !.main = TRUE, !.phase = "wait"]
  /\ app' = [app EXCEPT !.pc = "copying"]
  /\ UNCHANGED <<load, pair, abort, arrival, stdin, stdout, outcome>>

\* The end of _tcp_main(): shutdown(SHUT_RDWR) of the application's end, and the connection goes.
SockEnd ==
  /\ Running /\ sock.main /\ sock.phase = "leave"
  /\ sock' = [sock EXCEPT !.phase = "ended"]
  /\ pair' = ShutBoth(pair)
  /\ UNCHANGED <<load, app, abort, arrival, stdin, stdout, outcome>>

AppThread ==
  CopyWait \/ CopyCancels \/ CopyThrows \/ CopyFromInput \/ CopyToSocket \/ CopyFromSocket
    \/ CopyToOutput \/ AppClose \/ AppJoin

TcpThread ==
  \/ SockWait \/ SockCancels \/ SockFromDatagrams \/ SockFromApp \/ SockToApp \/ \E dropped \in BOOLEAN : SockToDatagrams(dropped)
  \/ SockTick \/ SockOpened \/ SockEnd

World == Feed \/ BreakOutput

Ended == ~Running /\ UNCHANGED <<load, app, sock, pair, abort, arrival, stdin, stdout, outcome>>

Next == AppThread \/ TcpThread \/ World \/ Ended

Spec == Init /\ [][Next]_vars

\* The main thread waits: for the handshake, in poll(), or for the TCP thread.
Idle(setup) ==
  setup.polled # {} /\ Results(setup.rules, setup.polled, CopyDirection, CopyRevents) = NothingToDo

AppBlocked ==
  CASE app.pc = "opening" -> TRUE
    [] app.pc = "copying" ->
         app.loop.todo = NothingToDo /\ Idle(CopySetUp(app))
    [] app.pc = "closing" -> FALSE
    [] app.pc = "joining" -> sock.phase # "ended"

\* As long as the process lives: stdin comes to its end, the TCP thread keeps turning, at the
\* latest with the timeouts of poll(), until it ends, the main thread moves when it can, and
\* the peer, which retransmits, gets through to us with some of what is due.
Fair ==
  \/ <>~Running
  \/ /\ <>stdin.closed
     /\ \/ /\ []<><<TRUE>>_sock
           /\ []<><<app' # app \/ AppBlocked>>_<<app, sock>>
           /\ []<><<arrival' \in Help \/ ~ \E what \in Help : Useful(what)>>_<<sock, arrival>>
        \/ <>(sock.phase = "ended") /\ ([]<>AppBlocked \/ []<><<TRUE>>_app)

FairSpec == Spec /\ Fair

(* Properties *)

Count(from, n) == [i \in 1..n |-> from + i]

\* Every byte of either direction is, in order and once, in one of the places between the two
\* threads, however the callbacks of the two event loops (tcp_sponge_socket.cc, rules 2 and 3,
\* bidirectional_stream_copy.cc) interleave and however little a write takes.  (When the TCP
\* thread has ended, the copy throws away what is still typed.)
NothingLost ==
  /\ stdout.got \o app.inbound.buf \o pair.queue.app \o sock.tcp.inbound.buf
       = Count(0, sock.tcp.inbound.numWritten)
  /\ sock.phase # "ended" =>
       sock.tcp.outbound.buf \o pair.queue.tcp \o app.outbound.buf \o stdin.ready
         = Count(sock.tcp.outbound.numRead, stdin.fed - sock.tcp.outbound.numRead)

\* When main() returns EXIT_SUCCESS (tcp_udp.cc:135) behind a connection that was not reset, all
\* of stdin has been taken for segments, and all of the peer's stream is on stdout.
CleanExitIsComplete ==
  outcome = "success" /\ ~sock.tcp.inbound.error =>
    /\ stdin.closed /\ sock.tcp.outbound.numRead = load.input
    /\ sock.tcp.inbound.isInputEnd /\ Len(stdout.got) = load.peer

\* The process dies of SIGPIPE only if the peer reset the connection or the reader of stdout went
\* away, fails (tcp_udp.cc:131) only for the latter, and none of the exceptions of the TCP thread
\* (tcp_sponge_socket.cc:101, eventloop.cc:135) is ever thrown, stale as the results of poll() may be.
DiesForAReason ==
  /\ outcome = "killed" => stdout.broken \/ sock.tcp.inbound.error
  /\ outcome = "failure" => stdout.broken
  /\ outcome # "terminated"

\* The process ends: neither thread waits for ever for the other, in the copy, behind
\* wait_until_closed() (tcp_sponge_socket.cc:193), or in the destructor (tcp_sponge_socket.cc:179).
ProcessEnds == <>~Running
===============================================================================
