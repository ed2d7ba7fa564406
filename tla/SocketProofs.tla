------------------------------ MODULE SocketProofs -----------------------------
(***************************************************************************)
(* Proofs about SocketSpec, for every capacity and every load: what the    *)
(* two threads of a program over the socket may do to the bytes, how it    *)
(* ends and what its end means.  Inv says, of each place where a byte or   *)
(* an end can be, what the places before it have passed on, and, of each   *)
(* result of poll() not yet served, what is still true of the descriptor   *)
(* when other threads and callbacks ran in between.                        *)
(***************************************************************************)
EXTENDS SocketSpec, CommonLemmas

\* Zenon proves the leaves, unless they ask for arithmetic.
USE ZenonT(30)

\* A byte is known by its place in its stream.
Bytes == Nat
Verdicts == {"none", "ready", "defunct", "error"}
Loops == [rules : SUBSET Rules, todo : [Rules -> Verdicts]]
Fds == [eof : BOOLEAN, closed : BOOLEAN]

Copies ==
  [loop : Loops, input : Fds, socket : Fds, output : Fds, outbound : Streams(Bytes), inbound : Streams(Bytes),
   outboundShutdown : BOOLEAN, inboundShutdown : BOOLEAN,
   pc : {"opening", "copying", "closing", "joining"}, threw : BOOLEAN]

Connections ==
  [opening : BOOLEAN, active : BOOLEAN, queued : BOOLEAN, inbound : Streams(Bytes), outbound : Streams(Bytes)]

Sockets ==
  [loop : Loops, phase : {"wait", "work", "leave", "ended"}, main : BOOLEAN, tcp : Connections,
   threadData : Fds, outboundShutdown : BOOLEAN, inboundShutdown : BOOLEAN]

Pairs ==
  [queue : [app : Seq(Bytes), tcp : Seq(Bytes)],
   noRead : [app : BOOLEAN, tcp : BOOLEAN], noWrite : [app : BOOLEAN, tcp : BOOLEAN]]

\* The types, and the invariants of every ByteStream in the system.
Types ==
  /\ load \in Loads /\ app \in Copies /\ sock \in Sockets /\ pair \in Pairs /\ abort \in BOOLEAN
  /\ arrival \in {"none", "rst", "other"} \cup Help
  /\ stdin \in [ready : Seq(Bytes), fed : Nat, closed : BOOLEAN]
  /\ stdout \in [got : Seq(Bytes), broken : BOOLEAN]
  /\ outcome \in {"running", "killed", "failure", "terminated", "success"}

\* The TCP thread has shut the socketpair, behind its event loop.
Over == sock.phase = "ended"
\* stdin has come to its end, and the copy has read all of it.
InputRead == stdin.closed /\ stdin.ready = <<>>
\* wait_until_closed() has shut down the socket in both directions.
Shut == app.pc = "joining" /\ ~app.threw

\* What the results of poll() that the copy has not served still mean. Nothing but the copy takes
\* from stdin or from its end of the pair, so that "ready" is never stale; rules 3 and 4 are
\* never cancelled for a hang-up.
CopyResults ==
  LET todo == app.loop.todo
  IN  /\ todo[1] = "ready" => stdin.ready # <<>> \/ stdin.closed
      /\ todo[1] = "defunct" => InputRead
      /\ todo[2] = "defunct" => Over
      /\ todo[3] = "ready" => ~app.inbound.isInputEnd /\ (pair.queue.app # <<>> \/ pair.noRead.app)
      /\ todo[3] # "defunct" /\ todo[4] # "defunct"
      /\ \A r \in Rules : todo[r] = "error" => stdout.broken

\* A rule that is no longer in the event loop of the copy has nothing left to do.
RulesLeft ==
  /\ 1 \notin app.loop.rules => app.outbound.isInputEnd
  /\ 2 \notin app.loop.rules => Over
  /\ 3 \notin app.loop.rules => app.socket.eof
  /\ 4 \notin app.loop.rules => app.output.closed

\* From stdin to the socket: the stream ends when stdin does, or when the TCP thread is over.
CopyOut ==
  /\ ~app.outbound.error /\ app.outbound.capacity = CopyCapacity
  /\ app.input.eof => app.outbound.isInputEnd
  /\ ~app.input.closed
  /\ app.outbound.isInputEnd => InputRead \/ Over
  /\ app.outboundShutdown => Eof(app.outbound)

\* From the socket to stdout: the stream ends when the TCP thread shut the pair and all was read.
CopyIn ==
  /\ ~app.inbound.error /\ app.inbound.capacity = CopyCapacity
  /\ ~app.socket.closed
  /\ app.output.closed => Eof(app.inbound)
  /\ app.inbound.isInputEnd <=> app.socket.eof
  /\ app.socket.eof => pair.queue.app = <<>> /\ (sock.inboundShutdown \/ Over)

\* A direction of the pair is shut by its writer, by wait_until_closed() or by the end of the TCP
\* thread, and by nobody else.
Flags ==
  /\ pair.noWrite.app \/ pair.noRead.tcp => app.outboundShutdown \/ Shut \/ Over
  /\ pair.noWrite.tcp \/ pair.noRead.app => sock.inboundShutdown \/ Shut \/ Over
  /\ sock.inboundShutdown => pair.noWrite.tcp
  /\ Len(pair.queue.app) <= PairCapacity /\ Len(pair.queue.tcp) <= PairCapacity

\* The copy returns without an exception when both directions are through; only an exception
\* takes the main thread to the destructor, which is where _abort is set.
Leaving ==
  /\ app.pc \in {"closing", "joining"} /\ ~app.threw =>
       app.socket.eof /\ app.inbound.size = 0 /\ (app.outboundShutdown \/ Over)
  /\ app.pc \in {"opening", "copying"} => ~app.threw
  /\ app.threw => stdout.broken
  /\ abort => app.threw
  /\ ~sock.main => app.pc = "opening"
  /\ Over => sock.main

\* What the results of poll() that the TCP thread has not served still mean.
SockResults ==
  LET todo == sock.loop.todo
  IN  /\ todo[1] = "ready" => arrival # "none"
      /\ todo[2] = "ready" => pair.queue.tcp # <<>> \/ pair.noRead.tcp
      /\ todo[1] # "defunct" /\ todo[2] # "defunct"
      /\ todo[3] = "defunct" => sock.tcp.inbound.error
      /\ 1 \in sock.loop.rules
      /\ 3 \notin sock.loop.rules => sock.tcp.inbound.error

\* From the socketpair to the connection: the outbound stream ends exactly when the pair was read to
\* its end, which comes after the whole of stdin.
SockOut ==
  /\ sock.tcp.outbound.isInputEnd => sock.threadData.eof
  /\ sock.threadData.eof => app.outboundShutdown /\ pair.queue.tcp = <<>> /\ InputRead
  /\ sock.threadData.eof => sock.outboundShutdown /\ sock.tcp.outbound.isInputEnd

\* From the connection to the socketpair: the pair is shut at the end of the inbound stream or after
\* a reset, and that end comes behind the last byte of the peer.
SockIn ==
  /\ sock.inboundShutdown => Eof(sock.tcp.inbound) \/ sock.tcp.inbound.error
  /\ sock.tcp.inbound.isInputEnd \/ arrival = "fin" => sock.tcp.inbound.numWritten = load.peer

\* A connection ends by a reset or when both streams are complete, and the event loop is left after
\* that, with nothing in the inbound stream, or by _abort.
Ending ==
  /\ ~sock.tcp.active => sock.tcp.inbound.error \/ Complete(sock.tcp)
  /\ sock.main /\ sock.phase \in {"leave", "ended"} =>
       abort \/ (~sock.tcp.active /\ (sock.tcp.inbound.error \/ sock.tcp.inbound.size = 0))

\* The connection never sends more than came from stdin.
InputEnds ==
  /\ sock.tcp.outbound.numRead <= stdin.fed /\ stdin.fed <= load.input
  /\ stdin.closed => stdin.fed = load.input

\* What lies in four places one behind the other.
Line(a, b, c, d) == a \o b \o c \o d

\* They hold a run of a stream.
InLine(a, b, c, d, k, n) == Line(a, b, c, d) = Count(k, n)

\* The bytes of each direction in all the places they can be, the furthest first. When the TCP thread
\* is over, what the copy still writes may be lost, unless the end of stdin was read before.
Pipes ==
  /\ InLine(stdout.got, app.inbound.buf, pair.queue.app, sock.tcp.inbound.buf, 0, sock.tcp.inbound.numWritten)
  /\ ~Over \/ sock.threadData.eof =>
       InLine(sock.tcp.outbound.buf, pair.queue.tcp, app.outbound.buf, stdin.ready,
              sock.tcp.outbound.numRead, stdin.fed - sock.tcp.outbound.numRead)

\* How the process may end.
Outcomes ==
  /\ DiesForAReason
  /\ outcome = "success" => Over /\ Shut

\* The inductive invariant.
Inv ==
  /\ Types /\ CopyResults /\ RulesLeft /\ CopyOut /\ CopyIn /\ Flags /\ Leaving /\ SockResults
  /\ SockOut /\ SockIn /\ Ending /\ InputEnds /\ Pipes /\ Outcomes

(* Byte streams *)

\* end_input() and set_error() set one flag.
LEMMA FlagIs ==
  ASSUME NEW s \in Streams(Bytes)
  PROVE  /\ EndInput(s) \in Streams(Bytes) /\ EndInput(s).isInputEnd = TRUE
         /\ EndInput(s).buf = s.buf /\ EndInput(s).size = s.size /\ EndInput(s).capacity = s.capacity
         /\ EndInput(s).numWritten = s.numWritten /\ EndInput(s).numRead = s.numRead
         /\ EndInput(s).error = s.error
         /\ SetError(s) \in Streams(Bytes) /\ SetError(s).error = TRUE
         /\ SetError(s).buf = s.buf /\ SetError(s).size = s.size /\ SetError(s).capacity = s.capacity
         /\ SetError(s).numWritten = s.numWritten /\ SetError(s).numRead = s.numRead
         /\ SetError(s).isInputEnd = s.isInputEnd
<1>1. s \in [buf : Seq(Bytes), capacity : Nat, size : Nat, isInputEnd : BOOLEAN,
             numWritten : Nat, numRead : Nat, error : BOOLEAN]
      /\ s.size = Len(s.buf) /\ s.size <= s.capacity
  BY DEF Streams
<1> DEFINE e == EndInput(s)
           x == SetError(s)
<1>2. e \in [buf : Seq(Bytes), capacity : Nat, size : Nat, isInputEnd : BOOLEAN,
             numWritten : Nat, numRead : Nat, error : BOOLEAN]
      /\ e.isInputEnd = TRUE /\ e.buf = s.buf /\ e.size = s.size /\ e.capacity = s.capacity
      /\ e.numWritten = s.numWritten /\ e.numRead = s.numRead /\ e.error = s.error
  BY <1>1 DEF EndInput
<1>3. x \in [buf : Seq(Bytes), capacity : Nat, size : Nat, isInputEnd : BOOLEAN,
             numWritten : Nat, numRead : Nat, error : BOOLEAN]
      /\ x.error = TRUE /\ x.buf = s.buf /\ x.size = s.size /\ x.capacity = s.capacity
      /\ x.numWritten = s.numWritten /\ x.numRead = s.numRead /\ x.isInputEnd = s.isInputEnd
  BY <1>1 DEF SetError
<1> HIDE DEF e, x
<1>4. e \in Streams(Bytes) /\ x \in Streams(Bytes)
  BY <1>1, <1>2, <1>3 DEF Streams
<1> QED
  BY <1>2, <1>3, <1>4 DEF e, x

\* What popping leaves of s is t.
PoppedTo(s, n, t) ==
  /\ t \in Streams(Bytes) /\ s.buf = SubSeq(s.buf, 1, n) \o t.buf
  /\ t.size = s.size - n /\ t.numRead = s.numRead + n /\ t.numWritten = s.numWritten
  /\ t.isInputEnd = s.isInputEnd /\ t.capacity = s.capacity /\ t.error = s.error

\* pop_output() of no more than there is.
LEMMA PopIs ==
  ASSUME NEW s \in Streams(Bytes), NEW n \in 0..s.size
  PROVE  PoppedTo(s, n, PopOutput(s, n))
<1> DEFINE t == PopOutput(s, n)
           p == PeekOutput(s, n)
<1>1. s.size \in Nat /\ s.size = Len(s.buf) /\ s.buf \in Seq(Bytes)
  BY DEF Streams
<1>2. n \in Nat /\ Least(n, s.size) = n
  BY <1>1, SMTT(30) DEF Least
<1>3. p = SubSeq(s.buf, 1, n)
  BY <1>2 DEF PeekOutput
<1>4. Len(p) = n
  BY <1>1, <1>3, PrefixType
<1>5. /\ t \in Streams(Bytes) /\ s.buf = p \o t.buf
      /\ t.size = s.size - Len(p) /\ t.numRead = s.numRead + Len(p) /\ t.numWritten = s.numWritten
      /\ t.isInputEnd = s.isInputEnd /\ t.capacity = s.capacity
  BY <1>2, PopSplits
<1>6. t.error = s.error
  BY DEF PopOutput, Streams
<1> HIDE DEF t, p
<1> QED
  BY <1>3, <1>4, <1>5, <1>6 DEF PoppedTo, t

\* A pop of nothing, or of a stream that holds nothing.
LEMMA PopAny ==
  ASSUME NEW s \in Streams(Bytes), NEW k \in Nat
  PROVE  \E n \in 0..s.size : n <= k /\ PoppedTo(s, n, PopOutput(s, k))
<1> DEFINE n == Least(k, s.size)
<1>1. s.size \in Nat
  BY DEF Streams
<1>2. n \in 0..s.size /\ n <= k
  BY <1>1, SMTT(30) DEF Least
<1>3. Least(n, s.size) = n
  BY <1>1, <1>2 DEF Least
<1>4. PopOutput(s, k) = PopOutput(s, n)
  BY <1>3 DEF PopOutput
<1> HIDE DEF n
<1> QED
  BY <1>2, <1>4, PopIs

\* What writing makes of s is t, with n bytes accepted.
WrittenTo(s, data, n, t) ==
  /\ t \in Streams(Bytes) /\ t.buf = s.buf \o SubSeq(data, 1, n)
  /\ t.size = s.size + n /\ t.numWritten = s.numWritten + n /\ t.numRead = s.numRead
  /\ t.isInputEnd = s.isInputEnd /\ t.capacity = s.capacity /\ t.error = s.error

\* write() takes a prefix, and nothing behind the end of the input.
LEMMA WriteIs ==
  ASSUME NEW s \in Streams(Bytes), NEW data \in Seq(Bytes)
  PROVE  /\ WrittenTo(s, data, ToWrite(s, data), Write(s, data))
         /\ ToWrite(s, data) \in 0..Len(data)
         /\ s.isInputEnd => ToWrite(s, data) = 0
<1> DEFINE n == ToWrite(s, data)
           t == Write(s, data)
           b == s.buf \o SubSeq(data, 1, n)
<1>1. /\ t \in Streams(Bytes) /\ t = [s EXCEPT !.buf = b, !.size = s.size + n, !.numWritten = s.numWritten + n]
  BY WriteAppends
<1>2. /\ t.size = s.size + n /\ t.numWritten = s.numWritten + n /\ t.numRead = s.numRead
      /\ t.capacity = s.capacity /\ t.isInputEnd = s.isInputEnd /\ t.error = s.error
  BY WriteCounts
<1>3. t.buf = b
  <2> HIDE DEF t, b, n
  <2> QED
    BY <1>1 DEF Streams
<1>4. n \in 0..Len(data) /\ (s.isInputEnd => n = 0)
  BY ToWriteFits
<1> HIDE DEF t, n
<1> QED
  BY <1>1, <1>2, <1>3, <1>4 DEF WrittenTo, t, n

\* A stream that is open takes what it has room for.
LEMMA WriteAll ==
  ASSUME NEW s \in Streams(Bytes), NEW data \in Seq(Bytes),
         Len(data) <= RemainingCapacity(s), data = <<>> \/ ~s.isInputEnd
  PROVE  ToWrite(s, data) = Len(data)
<1>1. Len(data) \in Nat /\ s.size \in Nat /\ s.capacity \in Nat /\ s.size <= s.capacity
  BY SeqIsFunction DEF Streams
<1>2. Len(data) <= s.capacity - s.size
  BY DEF RemainingCapacity
<1>3. CASE data = <<>>
  <2>1. Len(data) = 0
    BY <1>3, EmptyIsSeq
  <2> QED
    BY <1>1, <2>1, SMTT(30) DEF ToWrite, Least
<1>4. CASE ~s.isInputEnd
  BY <1>1, <1>2, <1>4, SMTT(30) DEF ToWrite, Least
<1> QED
  BY <1>3, <1>4

(* The pipes *)

\* A line of bytes is as long as its parts.
LEMMA LineType ==
  ASSUME NEW a \in Seq(Bytes), NEW b \in Seq(Bytes), NEW c \in Seq(Bytes), NEW d \in Seq(Bytes)
  PROVE  /\ Line(a, b, c, d) \in Seq(Bytes)
         /\ Len(Line(a, b, c, d)) = Len(a) + Len(b) + Len(c) + Len(d)
<1>1. a \o b \in Seq(Bytes) /\ Len(a \o b) = Len(a) + Len(b)
  BY ConcatElements
<1>2. (a \o b) \o c \in Seq(Bytes) /\ Len((a \o b) \o c) = Len(a \o b) + Len(c)
  BY <1>1, ConcatElements
<1>3. ((a \o b) \o c) \o d \in Seq(Bytes) /\ Len(((a \o b) \o c) \o d) = Len((a \o b) \o c) + Len(d)
  BY <1>2, ConcatElements
<1> QED
  BY <1>1, <1>2, <1>3 DEF Line

\* Concatenation is associative.
Joins(a, b, c) == (a \o b) \o c = a \o (b \o c)

\* Where the brackets stand makes no difference.
LEMMA Associative == ASSUME NEW a \in Seq(Bytes), NEW b \in Seq(Bytes), NEW c \in Seq(Bytes) PROVE Joins(a, b, c)
BY ConcatRegroups, SMTT(30) DEF Joins

\* Bytes go from the front of one place to the back of the place ahead of it.
MovesToA(a, b, c, d, p) == Line(a \o p, b, c, d) = Line(a, p \o b, c, d)
MovesToB(a, b, c, d, p) == Line(a, b \o p, c, d) = Line(a, b, p \o c, d)
MovesToC(a, b, c, d, p) == Line(a, b, c \o p, d) = Line(a, b, c, p \o d)
\* Bytes come in at the back, or go at the front.
Comes(a, b, c, d, p) == Line(a, b, c, d \o p) = Line(a, b, c, d) \o p
Goes(a, b, c, d, p) == Line(p \o a, b, c, d) = p \o Line(a, b, c, d)

\* Bytes that go from the front of one place to the back of the place ahead of it stay in line.
LEMMA LineMoves ==
  ASSUME NEW a \in Seq(Bytes), NEW b \in Seq(Bytes), NEW c \in Seq(Bytes), NEW d \in Seq(Bytes),
         NEW p \in Seq(Bytes)
  PROVE  MovesToA(a, b, c, d, p) /\ MovesToB(a, b, c, d, p) /\ MovesToC(a, b, c, d, p)
<1>1. a \o b \in Seq(Bytes)
  BY ConcatElements
<1>2. (a \o b) \o c \in Seq(Bytes)
  BY <1>1, ConcatElements
<1>3. Joins(a, p, b) /\ Joins(a, b, p) /\ Joins(a \o b, p, c) /\ Joins(a \o b, c, p)
      /\ Joins((a \o b) \o c, p, d)
  BY <1>1, <1>2, Associative
<1> QED
  BY <1>3 DEF Line, Joins, MovesToA, MovesToB, MovesToC

\* Bytes that come in at the back, or go at the front.
LEMMA LineEnds ==
  ASSUME NEW a \in Seq(Bytes), NEW b \in Seq(Bytes), NEW c \in Seq(Bytes), NEW d \in Seq(Bytes),
         NEW p \in Seq(Bytes)
  PROVE  Comes(a, b, c, d, p) /\ Goes(a, b, c, d, p)
<1>1. a \o b \in Seq(Bytes)
  BY ConcatElements
<1>2. (a \o b) \o c \in Seq(Bytes)
  BY <1>1, ConcatElements
<1>3. Joins((a \o b) \o c, d, p) /\ Joins(p, a, b) /\ Joins(p, a \o b, c) /\ Joins(p, (a \o b) \o c, d)
  BY <1>1, <1>2, Associative
<1> QED
  BY <1>3 DEF Line, Joins, Comes, Goes

\* A run of a stream has the bytes that belong at its places.
LEMMA CountType ==
  ASSUME NEW k \in Nat, NEW n \in Nat
  PROVE  /\ Count(k, n) \in Seq(Bytes) /\ Len(Count(k, n)) = n
         /\ \A i \in 1..n : Count(k, n)[i] = k + i
<1> DEFINE q == Count(k, n)
<1>1. q \in [1..n -> Nat] /\ DOMAIN q = 1..n /\ \A i \in 1..n : q[i] = k + i
  BY SMTT(30) DEF Count
<1> HIDE DEF q
<1>2. q \in Seq(Bytes)
  BY <1>1, SMTT(30) DEF Bytes
<1>3. Len(q) = n
  BY <1>1, <1>2, SeqIsFunction, SMTT(30)
<1> QED
  BY <1>1, <1>2, <1>3 DEF q

\* Two runs, one where the other ends, are one run.
LEMMA CountGrows ==
  ASSUME NEW k \in Nat, NEW n \in Nat, NEW m \in Nat
  PROVE  Count(k, n) \o Count(k + n, m) = Count(k, n + m)
<1> DEFINE a == Count(k, n)
           b == Count(k + n, m)
           c == Count(k, n + m)
<1>1. a \in Seq(Bytes) /\ Len(a) = n /\ \A i \in 1..n : a[i] = k + i
  BY CountType
<1>2. b \in Seq(Bytes) /\ Len(b) = m /\ \A i \in 1..m : b[i] = (k + n) + i
  <2>1. k + n \in Nat
    BY SMTT(30)
  <2> QED
    BY <2>1, CountType
<1>3. c \in Seq(Bytes) /\ Len(c) = n + m /\ \A i \in 1..n + m : c[i] = k + i
  <2>1. n + m \in Nat
    BY SMTT(30)
  <2> QED
    BY <2>1, CountType
<1> HIDE DEF a, b, c
<1>4. a \o b \in Seq(Bytes) /\ Len(a \o b) = n + m
      /\ \A i \in 1..n + m : (a \o b)[i] = IF i <= n THEN a[i] ELSE b[i - n]
  BY <1>1, <1>2, ConcatElements
<1>5. \A i \in 1..n + m : (a \o b)[i] = c[i]
  <2> TAKE i \in 1..n + m
  <2>1. c[i] = k + i
    BY <1>3
  <2>2. CASE i <= n
    BY <1>1, <1>4, <2>1, <2>2, SMTT(30)
  <2>3. CASE ~(i <= n)
    <3>1. i - n \in 1..m
      BY <2>3, SMTT(30)
    <3>2. b[i - n] = (k + n) + (i - n)
      BY <1>2, <3>1
    <3> QED
      BY <1>4, <2>1, <2>3, <3>2, SMTT(30)
  <2> QED
    BY <2>2, <2>3
<1>6. a \o b = c
  BY <1>3, <1>4, <1>5, EqualElements
<1> QED
  BY <1>6 DEF a, b, c

\* What is left of a run behind its first bytes is a run.
LEMMA CountRest ==
  ASSUME NEW k \in Nat, NEW n \in Nat, NEW p \in Seq(Bytes), NEW r \in Seq(Bytes), p \o r = Count(k, n)
  PROVE  Len(p) <= n /\ r = Count(k + Len(p), n - Len(p))
<1> DEFINE c == Count(k, n)
           m == Len(p)
           e == Count(k + m, n - m)
<1>1. c \in Seq(Bytes) /\ Len(c) = n /\ \A i \in 1..n : c[i] = k + i
  BY CountType
<1>2. m \in Nat /\ Len(r) \in Nat
  BY SeqIsFunction
<1>3. Len(p \o r) = m + Len(r) /\ \A i \in 1..m + Len(r) : (p \o r)[i] = IF i <= m THEN p[i] ELSE r[i - m]
  BY ConcatElements
<1>4. n = m + Len(r)
  BY <1>1, <1>3
<1>5. k + m \in Nat /\ n - m \in Nat /\ n - m = Len(r)
  BY <1>2, <1>4, SMTT(30)
<1>6. e \in Seq(Bytes) /\ Len(e) = n - m /\ \A i \in 1..n - m : e[i] = (k + m) + i
  BY <1>5, CountType
<1>7. ASSUME NEW i \in 1..Len(r) PROVE r[i] = e[i]
  <2>1. m + i \in 1..n /\ ~(m + i <= m) /\ (m + i) - m = i /\ i \in 1..n - m
    BY <1>2, <1>4, SMTT(30)
  <2>2. (p \o r)[m + i] = r[i]
    BY <1>3, <1>4, <2>1
  <2>3. c[m + i] = k + (m + i) /\ e[i] = (k + m) + i
    BY <1>1, <1>6, <2>1
  <2>4. k + (m + i) = (k + m) + i
    BY <1>2, SMTT(30)
  <2> QED
    BY <2>2, <2>3, <2>4
<1> HIDE DEF e, m
<1>8. r = e
  BY <1>5, <1>6, <1>7, EqualElements
<1> QED
  BY <1>2, <1>4, <1>8, SMTT(30) DEF e, m

\* The next bytes of the stream come in at the back.
LEMMA LineGrows ==
  ASSUME NEW a \in Seq(Bytes), NEW b \in Seq(Bytes), NEW c \in Seq(Bytes), NEW d \in Seq(Bytes),
         NEW k \in Nat, NEW n \in Nat, NEW m \in Nat, InLine(a, b, c, d, k, n)
  PROVE  InLine(a, b, c, d \o Count(k + n, m), k, n + m)
<1> DEFINE p == Count(k + n, m)
<1>1. p \in Seq(Bytes)
  <2>1. k + n \in Nat
    BY SMTT(30)
  <2> QED
    BY <2>1, CountType
<1>2. Count(k, n) \o p = Count(k, n + m)
  BY CountGrows
<1> HIDE DEF p
<1>3. Comes(a, b, c, d, p)
  BY <1>1, LineEnds
<1> QED
  BY <1>2, <1>3 DEF p, InLine, Comes

\* A sequence of one element, appended.
LEMMA AppendOne ==
  ASSUME NEW d \in Seq(Bytes), NEW x \in Bytes, NEW one \in Seq(Bytes), Len(one) = 1, one[1] = x
  PROVE  Append(d, x) = d \o one
<1> DEFINE s == Append(d, x)
           t == d \o one
<1>1. s \in Seq(Bytes) /\ Len(s) = Len(d) + 1 /\ (\A i \in 1..Len(d) : s[i] = d[i]) /\ s[Len(d) + 1] = x
  BY AppendElements, SMTT(30)
<1>2. t \in Seq(Bytes) /\ Len(t) = Len(d) + 1
      /\ \A i \in 1..Len(d) + 1 : t[i] = IF i <= Len(d) THEN d[i] ELSE one[i - Len(d)]
  BY ConcatElements, SMTT(30)
<1>3. Len(d) \in Nat
  BY SeqIsFunction
<1> HIDE DEF s, t
<1>4. \A i \in 1..Len(d) + 1 : s[i] = t[i]
  <2> TAKE i \in 1..Len(d) + 1
  <2>1. CASE i <= Len(d)
    BY <1>1, <1>2, <1>3, <2>1, SMTT(30)
  <2>2. CASE ~(i <= Len(d))
    <3>1. i = Len(d) + 1 /\ i - Len(d) = 1
      BY <1>3, <2>2, SMTT(30)
    <3> QED
      BY <1>1, <1>2, <2>2, <3>1
  <2> QED
    BY <2>1, <2>2
<1>5. s = t
  BY <1>1, <1>2, <1>4, EqualElements
<1> QED
  BY <1>5 DEF s, t

\* One more byte.
LEMMA LineAppends ==
  ASSUME NEW a \in Seq(Bytes), NEW b \in Seq(Bytes), NEW c \in Seq(Bytes), NEW d \in Seq(Bytes),
         NEW k \in Nat, NEW f \in Nat, k <= f, InLine(a, b, c, d, k, f - k)
  PROVE  InLine(a, b, c, Append(d, f + 1), k, (f + 1) - k)
<1> DEFINE n == f - k
           one == Count(f, 1)
<1>1. n \in Nat /\ k + n = f /\ (f + 1) - k = n + 1
  BY SMTT(30)
<1>2. one \in Seq(Bytes) /\ Len(one) = 1 /\ one[1] = f + 1
  <2>1. 1 \in Nat /\ 1 \in 1..1
    BY SMTT(30)
  <2>2. one \in Seq(Bytes) /\ Len(one) = 1
    BY <2>1, CountType
  <2> QED
    BY <2>1, <2>2 DEF Count
<1>3. f + 1 \in Bytes
  BY SMTT(30) DEF Bytes
<1>4. Append(d, f + 1) = d \o one
  BY <1>2, <1>3, AppendOne
<1> HIDE DEF n
<1>5. InLine(a, b, c, d \o Count(k + n, 1), k, n + 1)
  <2>1. InLine(a, b, c, d, k, n) /\ 1 \in Nat
    BY DEF n
  <2> QED
    BY <1>1, <2>1, LineGrows
<1> QED
  BY <1>1, <1>4, <1>5

\* Bytes leave at the front.
LEMMA LineShrinks ==
  ASSUME NEW a \in Seq(Bytes), NEW b \in Seq(Bytes), NEW c \in Seq(Bytes), NEW d \in Seq(Bytes),
         NEW p \in Seq(Bytes), NEW k \in Nat, NEW n \in Nat, InLine(p \o a, b, c, d, k, n)
  PROVE  Len(p) <= n /\ InLine(a, b, c, d, k + Len(p), n - Len(p))
<1> DEFINE l == Line(a, b, c, d)
<1>1. l \in Seq(Bytes)
  BY LineType
<1>2. Goes(a, b, c, d, p)
  BY LineEnds
<1>3. p \o l = Count(k, n)
  BY <1>2 DEF Goes, InLine
<1> HIDE DEF l
<1>4. Len(p) <= n /\ l = Count(k + Len(p), n - Len(p))
  BY <1>1, <1>3, CountRest
<1> QED
  BY <1>4 DEF l, InLine

\* When all places but the first are empty.
LEMMA LineOfOne ==
  ASSUME NEW a \in Seq(Bytes)
  PROVE  Line(a, <<>>, <<>>, <<>>) = a
BY ConcatEmpty DEF Line

(* The socketpair *)

\* The fields of a pair.
LEMMA PairParts ==
  ASSUME NEW p \in Pairs
  PROVE  /\ p.queue["app"] = p.queue.app /\ p.queue["tcp"] = p.queue.tcp
         /\ p.noRead["app"] = p.noRead.app /\ p.noRead["tcp"] = p.noRead.tcp
         /\ p.noWrite["app"] = p.noWrite.app /\ p.noWrite["tcp"] = p.noWrite.tcp
         /\ p.queue.app \in Seq(Bytes) /\ p.queue.tcp \in Seq(Bytes)
BY DEF Pairs

\* writev(2) of the application's end.
LEMMA AppWrites ==
  ASSUME NEW p \in Pairs, NEW data \in Seq(Bytes), Len(p.queue.tcp) <= PairCapacity
  PROVE  LET n == PairTakes(p, "app", data)
             q == PairWrite(p, "app", data)
         IN  /\ n \in 0..Len(data) /\ q \in Pairs
             /\ q.queue.tcp = p.queue.tcp \o SubSeq(data, 1, n) /\ q.queue.app = p.queue.app
             /\ q.noRead = p.noRead /\ q.noWrite = p.noWrite /\ Len(q.queue.tcp) <= PairCapacity
<1> DEFINE n == PairTakes(p, "app", data)
           q == PairWrite(p, "app", data)
           b == p.queue.tcp \o SubSeq(data, 1, n)
<1>1. p.queue.tcp \in Seq(Bytes) /\ p.queue["tcp"] = p.queue.tcp
  BY PairParts
<1>2. Len(p.queue.tcp) \in Nat /\ Len(data) \in Nat /\ PairCapacity \in Nat
  BY <1>1, SeqIsFunction, SocketAssumption
<1>3. n = Least(Len(data), PairCapacity - Len(p.queue.tcp))
  BY <1>1 DEF PairTakes, PairRoom, OtherEnd
<1>4. n \in 0..Len(data) /\ n <= PairCapacity - Len(p.queue.tcp)
  BY <1>2, <1>3, SMTT(30) DEF Least
<1>5. SubSeq(data, 1, n) \in Seq(Bytes) /\ Len(SubSeq(data, 1, n)) = n
  BY <1>4, PrefixType
<1>6. b \in Seq(Bytes) /\ Len(b) = Len(p.queue.tcp) + n
  BY <1>1, <1>5, ConcatElements
<1>7. Len(b) <= PairCapacity
  BY <1>2, <1>4, <1>6, SMTT(30)
<1>8. q = [p EXCEPT !.queue["tcp"] = b]
  BY <1>1 DEF PairWrite, OtherEnd
<1> HIDE DEF b, q
<1>9. q \in Pairs /\ q.queue.tcp = b /\ q.queue.app = p.queue.app /\ q.noRead = p.noRead /\ q.noWrite = p.noWrite
  BY <1>6, <1>8 DEF Pairs
<1> QED
  BY <1>4, <1>7, <1>9 DEF b, q

\* writev(2) of the TCP thread's end.
LEMMA TcpWrites ==
  ASSUME NEW p \in Pairs, NEW data \in Seq(Bytes), Len(p.queue.app) <= PairCapacity
  PROVE  LET n == PairTakes(p, "tcp", data)
             q == PairWrite(p, "tcp", data)
         IN  /\ n \in 0..Len(data) /\ q \in Pairs
             /\ q.queue.app = p.queue.app \o SubSeq(data, 1, n) /\ q.queue.tcp = p.queue.tcp
             /\ q.noRead = p.noRead /\ q.noWrite = p.noWrite /\ Len(q.queue.app) <= PairCapacity
<1> DEFINE n == PairTakes(p, "tcp", data)
           q == PairWrite(p, "tcp", data)
           b == p.queue.app \o SubSeq(data, 1, n)
<1>1. p.queue.app \in Seq(Bytes) /\ p.queue["app"] = p.queue.app
  BY PairParts
<1>2. Len(p.queue.app) \in Nat /\ Len(data) \in Nat /\ PairCapacity \in Nat
  BY <1>1, SeqIsFunction, SocketAssumption
<1>3. n = Least(Len(data), PairCapacity - Len(p.queue.app))
  BY <1>1 DEF PairTakes, PairRoom, OtherEnd
<1>4. n \in 0..Len(data) /\ n <= PairCapacity - Len(p.queue.app)
  BY <1>2, <1>3, SMTT(30) DEF Least
<1>5. SubSeq(data, 1, n) \in Seq(Bytes) /\ Len(SubSeq(data, 1, n)) = n
  BY <1>4, PrefixType
<1>6. b \in Seq(Bytes) /\ Len(b) = Len(p.queue.app) + n
  BY <1>1, <1>5, ConcatElements
<1>7. Len(b) <= PairCapacity
  BY <1>2, <1>4, <1>6, SMTT(30)
<1>8. q = [p EXCEPT !.queue["app"] = b]
  BY <1>1 DEF PairWrite, OtherEnd
<1> HIDE DEF b, q
<1>9. q \in Pairs /\ q.queue.app = b /\ q.queue.tcp = p.queue.tcp /\ q.noRead = p.noRead /\ q.noWrite = p.noWrite
  BY <1>6, <1>8 DEF Pairs
<1> QED
  BY <1>4, <1>7, <1>9 DEF b, q

\* read(2) of a queue q with a limit: what it got, and what is left.
ReadFrom(q, limit, got, left) ==
  /\ got \in Seq(Bytes) /\ left \in Seq(Bytes) /\ q = got \o left
  /\ Len(got) <= limit /\ Len(left) <= Len(q)
  /\ q = <<>> => got = <<>> /\ left = <<>>
  /\ limit > 0 /\ got = <<>> => q = <<>>

\* A read splits a queue in two.
LEMMA ReadSplits ==
  ASSUME NEW q \in Seq(Bytes), NEW limit \in Nat
  PROVE  ReadFrom(q, limit, SubSeq(q, 1, Least(limit, Len(q))), SubSeq(q, Least(limit, Len(q)) + 1, Len(q)))
<1> DEFINE n == Least(limit, Len(q))
           got == SubSeq(q, 1, n)
           left == SubSeq(q, n + 1, Len(q))
<1>1. Len(q) \in Nat
  BY SeqIsFunction
<1>2. n \in 0..Len(q) /\ n <= limit /\ (n = limit \/ n = Len(q))
  BY <1>1, SMTT(30) DEF Least
<1> HIDE DEF n
<1>3. got \in Seq(Bytes) /\ Len(got) = n /\ left \in Seq(Bytes) /\ Len(left) = Len(q) - n
  BY <1>2, PrefixType, SuffixType
<1>4. q = got \o left
  BY <1>2, SplitAt
<1> HIDE DEF got, left
<1>5. ASSUME q = <<>> PROVE got = <<>> /\ left = <<>>
  <2>1. Len(q) = 0
    BY <1>5, EmptyIsSeq
  <2>2. n = 0
    BY <1>2, <2>1, SMTT(30)
  <2>3. Len(got) = 0 /\ Len(left) = 0
    BY <1>3, <2>1, <2>2, SMTT(30)
  <2> QED
    BY <1>3, <2>3, EmptyIsSeq
<1>6. ASSUME limit > 0, got = <<>> PROVE q = <<>>
  <2>1. n = 0
    BY <1>3, <1>6, EmptyIsSeq
  <2>2. Len(q) = 0
    BY <1>2, <1>6, <2>1, SMTT(30)
  <2> QED
    BY <2>2, EmptyIsSeq
<1>7. Len(got) <= limit /\ Len(left) <= Len(q)
  BY <1>1, <1>2, <1>3, SMTT(30)
<1> QED
  BY <1>3, <1>4, <1>5, <1>6, <1>7 DEF ReadFrom, got, left, n

\* read() at the end of the main thread.
LEMMA AppReads ==
  ASSUME NEW p \in Pairs, NEW limit \in Nat
  PROVE  LET q == PairRead(p, "app", limit)
         IN  /\ ReadFrom(p.queue.app, limit, PairGot(p, "app", limit), q.queue.app)
             /\ q \in Pairs /\ q.queue.tcp = p.queue.tcp /\ q.noRead = p.noRead /\ q.noWrite = p.noWrite
<1> DEFINE q == PairRead(p, "app", limit)
           a == p.queue.app
           got == SubSeq(a, 1, Least(limit, Len(a)))
           left == SubSeq(a, Least(limit, Len(a)) + 1, Len(a))
<1>1. a \in Seq(Bytes) /\ p.queue["app"] = a
  BY PairParts
<1>2. ReadFrom(a, limit, got, left)
  BY <1>1, ReadSplits
<1>3. PairGot(p, "app", limit) = got /\ q = [p EXCEPT !.queue["app"] = left]
  BY <1>1 DEF PairGot, PairRead
<1>4. left \in Seq(Bytes)
  BY <1>2 DEF ReadFrom
<1> HIDE DEF left, got, q
<1>5. q \in Pairs /\ q.queue.app = left /\ q.queue.tcp = p.queue.tcp /\ q.noRead = p.noRead /\ q.noWrite = p.noWrite
  BY <1>3, <1>4 DEF Pairs
<1> QED
  BY <1>2, <1>3, <1>5 DEF q

\* read() at the end of the TCP thread.
LEMMA TcpReads ==
  ASSUME NEW p \in Pairs, NEW limit \in Nat
  PROVE  LET q == PairRead(p, "tcp", limit)
         IN  /\ ReadFrom(p.queue.tcp, limit, PairGot(p, "tcp", limit), q.queue.tcp)
             /\ q \in Pairs /\ q.queue.app = p.queue.app /\ q.noRead = p.noRead /\ q.noWrite = p.noWrite
<1> DEFINE q == PairRead(p, "tcp", limit)
           a == p.queue.tcp
           got == SubSeq(a, 1, Least(limit, Len(a)))
           left == SubSeq(a, Least(limit, Len(a)) + 1, Len(a))
<1>1. a \in Seq(Bytes) /\ p.queue["tcp"] = a
  BY PairParts
<1>2. ReadFrom(a, limit, got, left)
  BY <1>1, ReadSplits
<1>3. PairGot(p, "tcp", limit) = got /\ q = [p EXCEPT !.queue["tcp"] = left]
  BY <1>1 DEF PairGot, PairRead
<1>4. left \in Seq(Bytes)
  BY <1>2 DEF ReadFrom
<1> HIDE DEF left, got, q
<1>5. q \in Pairs /\ q.queue.tcp = left /\ q.queue.app = p.queue.app /\ q.noRead = p.noRead /\ q.noWrite = p.noWrite
  BY <1>3, <1>4 DEF Pairs
<1> QED
  BY <1>2, <1>3, <1>5 DEF q

\* shutdown(2)
LEMMA Shuts ==
  ASSUME NEW p \in Pairs
  PROVE  /\ LET q == ShutWrite(p, "app")
            IN  /\ q \in Pairs /\ q.queue = p.queue /\ q.noWrite.app = TRUE /\ q.noRead.tcp = TRUE
                /\ q.noWrite.tcp = p.noWrite.tcp /\ q.noRead.app = p.noRead.app
         /\ LET q == ShutWrite(p, "tcp")
            IN  /\ q \in Pairs /\ q.queue = p.queue /\ q.noWrite.tcp = TRUE /\ q.noRead.app = TRUE
                /\ q.noWrite.app = p.noWrite.app /\ q.noRead.tcp = p.noRead.tcp
         /\ LET q == ShutBoth(p)
            IN  /\ q \in Pairs /\ q.queue = p.queue /\ q.noWrite.tcp = TRUE /\ q.noRead.app = TRUE
                /\ q.noWrite.app = TRUE /\ q.noRead.tcp = TRUE
BY DEF Pairs, ShutWrite, ShutBoth, OtherEnd

(* The copy *)

\* The parts of the main thread.
LEMMA CopyParts ==
  ASSUME NEW o \in Copies
  PROVE  /\ o.loop.rules \in SUBSET Rules /\ o.loop.todo \in [Rules -> Verdicts]
         /\ o.outbound \in Streams(Bytes) /\ o.inbound \in Streams(Bytes)
         /\ o.input \in Fds /\ o.socket \in Fds /\ o.output \in Fds
BY DEF Copies, Loops

\* The buffer of a stream is empty when its size says so.
LEMMA Sizes ==
  ASSUME NEW s \in Streams(Bytes)
  PROVE  /\ s.buf \in Seq(Bytes) /\ s.size \in Nat /\ s.size = Len(s.buf) /\ (s.size = 0 <=> s.buf = <<>>)
         /\ RemainingCapacity(s) \in Nat /\ s.numRead \in Nat /\ s.numWritten \in Nat
<1>1. s.buf \in Seq(Bytes) /\ s.size \in Nat /\ s.size = Len(s.buf) /\ s.numRead \in Nat /\ s.numWritten \in Nat
  BY DEF Streams
<1>2. s.size <= s.capacity /\ s.capacity \in Nat
  BY DEF Streams
<1>3. RemainingCapacity(s) \in Nat
  BY <1>1, <1>2, SMTT(30) DEF RemainingCapacity
<1>4. s.size = 0 <=> s.buf = <<>>
  BY <1>1, EmptyIsSeq
<1> QED
  BY <1>1, <1>3, <1>4

\* A rule is served.
LEMMA ServedIs ==
  ASSUME NEW l \in Loops, NEW r \in Rules
  PROVE  /\ Served(l, r) \in Loops /\ Served(l, r).rules = l.rules /\ Served(l, r).todo[r] = "none"
         /\ \A q \in Rules : q # r => Served(l, r).todo[q] = l.todo[q]
         /\ Erased(l, r) \in Loops /\ Erased(l, r).rules = l.rules \ {r} /\ Erased(l, r).todo = Served(l, r).todo
BY DEF Loops, Served, Erased, Verdicts

\* What FromInput, FromSocket, ToSocket and ToOutput leave alone.
Besides(o, p, r) ==
  /\ p \in Copies /\ p.loop.rules = o.loop.rules /\ p.loop.todo[r] = "none"
  /\ \A q \in Rules : q # r => p.loop.todo[q] = o.loop.todo[q]
  /\ p.pc = o.pc /\ p.threw = o.threw

\* The callback of rule 1 of the copy, by what it does to each part.
LEMMA FromInputIs ==
  ASSUME NEW o \in Copies, NEW got \in Seq(Bytes)
  PROVE  LET p == FromInput(o, got)
             end == o.input.eof \/ (RemainingCapacity(o.outbound) > 0 /\ got = <<>>)
             w == Write(o.outbound, got)
         IN  /\ Besides(o, p, 1) /\ p.socket = o.socket /\ p.output = o.output /\ p.inbound = o.inbound
             /\ p.input.eof = end /\ p.input.closed = o.input.closed
             /\ p.outbound = IF end THEN EndInput(w) ELSE w
             /\ p.outboundShutdown = o.outboundShutdown
<1> DEFINE p == FromInput(o, got)
           k == RemainingCapacity(o.outbound) > 0
           end == o.input.eof \/ (k /\ got = <<>>)
           w == Write(o.outbound, got)
           fd == FdRead(o.input, RemainingCapacity(o.outbound), got)
           l == Served(o.loop, 1)
           s == IF end THEN EndInput(w) ELSE w
<1>1. o.loop \in Loops /\ o.input \in Fds /\ o.outbound \in Streams(Bytes) /\ 1 \in Rules
  BY SMTT(30) DEF Copies, Rules
<1>2. l \in Loops /\ l.rules = o.loop.rules /\ l.todo[1] = "none" /\ \A q \in Rules : q # 1 => l.todo[q] = o.loop.todo[q]
  BY <1>1, ServedIs
<1>3. w \in Streams(Bytes)
  BY <1>1, WriteIs DEF WrittenTo
<1>4. s \in Streams(Bytes)
  BY <1>3, FlagIs
<1>5. end \in BOOLEAN
  BY <1>1 DEF Fds
<1>6. fd \in Fds /\ fd.eof = end /\ fd.closed = o.input.closed
  BY <1>1 DEF Fds, FdRead
<1>7. p = [o EXCEPT !.input = fd, !.outbound = s, !.loop = l]
  BY <1>6 DEF FromInput, Filled
<1> HIDE DEF fd, s, l, p
<1>8. /\ p \in Copies /\ p.loop = l /\ p.pc = o.pc /\ p.threw = o.threw /\ p.input = fd /\ p.outbound = s
      /\ p.socket = o.socket /\ p.output = o.output /\ p.inbound = o.inbound
      /\ p.outboundShutdown = o.outboundShutdown
  BY <1>2, <1>4, <1>6, <1>7 DEF Copies
<1>9. Besides(o, p, 1)
  BY <1>2, <1>8 DEF Besides
<1> QED
  BY <1>6, <1>8, <1>9 DEF p, s

\* The callback of rule 3 of the copy.
LEMMA FromSocketIs ==
  ASSUME NEW o \in Copies, NEW got \in Seq(Bytes)
  PROVE  LET p == FromSocket(o, got)
             end == o.socket.eof \/ (RemainingCapacity(o.inbound) > 0 /\ got = <<>>)
             w == Write(o.inbound, got)
         IN  /\ Besides(o, p, 3) /\ p.input = o.input /\ p.output = o.output /\ p.outbound = o.outbound
             /\ p.socket.eof = end /\ p.socket.closed = o.socket.closed
             /\ p.inbound = IF end THEN EndInput(w) ELSE w
             /\ p.outboundShutdown = o.outboundShutdown
<1> DEFINE p == FromSocket(o, got)
           k == RemainingCapacity(o.inbound) > 0
           end == o.socket.eof \/ (k /\ got = <<>>)
           w == Write(o.inbound, got)
           fd == FdRead(o.socket, RemainingCapacity(o.inbound), got)
           l == Served(o.loop, 3)
           s == IF end THEN EndInput(w) ELSE w
<1>1. o.loop \in Loops /\ o.socket \in Fds /\ o.inbound \in Streams(Bytes) /\ 3 \in Rules
  BY SMTT(30) DEF Copies, Rules
<1>2. l \in Loops /\ l.rules = o.loop.rules /\ l.todo[3] = "none" /\ \A q \in Rules : q # 3 => l.todo[q] = o.loop.todo[q]
  BY <1>1, ServedIs
<1>3. w \in Streams(Bytes)
  BY <1>1, WriteIs DEF WrittenTo
<1>4. s \in Streams(Bytes)
  BY <1>3, FlagIs
<1>5. end \in BOOLEAN
  BY <1>1 DEF Fds
<1>6. fd \in Fds /\ fd.eof = end /\ fd.closed = o.socket.closed
  BY <1>1 DEF Fds, FdRead
<1>7. p = [o EXCEPT !.socket = fd, !.inbound = s, !.loop = l]
  BY <1>6 DEF FromSocket, Filled
<1> HIDE DEF fd, s, l, p
<1>8. /\ p \in Copies /\ p.loop = l /\ p.pc = o.pc /\ p.threw = o.threw /\ p.socket = fd /\ p.inbound = s
      /\ p.input = o.input /\ p.output = o.output /\ p.outbound = o.outbound
      /\ p.outboundShutdown = o.outboundShutdown
  BY <1>2, <1>4, <1>6, <1>7 DEF Copies
<1>9. Besides(o, p, 3)
  BY <1>2, <1>8 DEF Besides
<1> QED
  BY <1>6, <1>8, <1>9 DEF p, s

\* The callback of rule 2 of the copy.
LEMMA ToSocketIs ==
  ASSUME NEW o \in Copies, NEW n \in 0..o.outbound.size
  PROVE  LET p == ToSocket(o, n)
         IN  /\ Besides(o, p, 2) /\ p.input = o.input /\ p.socket = o.socket /\ p.output = o.output
             /\ p.inbound = o.inbound /\ PoppedTo(o.outbound, n, p.outbound)
             /\ p.outboundShutdown = (o.outboundShutdown \/ Eof(p.outbound))
<1> DEFINE p == ToSocket(o, n)
           s == PopOutput(o.outbound, n)
           l == Served(o.loop, 2)
           e == Eof(s)
<1>1. o.loop \in Loops /\ o.outbound \in Streams(Bytes) /\ 2 \in Rules
  BY SMTT(30) DEF Copies, Rules
<1>2. l \in Loops /\ l.rules = o.loop.rules /\ l.todo[2] = "none" /\ \A q \in Rules : q # 2 => l.todo[q] = o.loop.todo[q]
  BY <1>1, ServedIs
<1>3. PoppedTo(o.outbound, n, s) /\ s \in Streams(Bytes)
  BY <1>1, PopIs DEF PoppedTo
<1>4. e \in BOOLEAN
  BY <1>3 DEF Eof, Streams
<1>5. p = [o EXCEPT !.outbound = s, !.outboundShutdown = @ \/ e, !.loop = l]
  BY DEF ToSocket
<1> HIDE DEF s, l, p, e
<1>6. /\ p \in Copies /\ p.loop = l /\ p.pc = o.pc /\ p.threw = o.threw /\ p.outbound = s
      /\ p.input = o.input /\ p.socket = o.socket /\ p.output = o.output /\ p.inbound = o.inbound
      /\ p.outboundShutdown = (o.outboundShutdown \/ e)
  BY <1>2, <1>3, <1>4, <1>5 DEF Copies
<1>7. Besides(o, p, 2)
  BY <1>2, <1>6 DEF Besides
<1> QED
  BY <1>3, <1>6, <1>7 DEF p, e

\* The callback of rule 4 of the copy.
LEMMA ToOutputIs ==
  ASSUME NEW o \in Copies, NEW n \in 0..o.inbound.size
  PROVE  LET p == ToOutput(o, n)
         IN  /\ Besides(o, p, 4) /\ p.input = o.input /\ p.socket = o.socket
             /\ p.outbound = o.outbound /\ PoppedTo(o.inbound, n, p.inbound)
             /\ p.output.closed = (o.output.closed \/ Eof(p.inbound))
             /\ p.outboundShutdown = o.outboundShutdown
<1> DEFINE p == ToOutput(o, n)
           s == PopOutput(o.inbound, n)
           l == Served(o.loop, 4)
           e == Eof(s)
           fd == IF e THEN FdClose(o.output) ELSE o.output
<1>1. o.loop \in Loops /\ o.inbound \in Streams(Bytes) /\ o.output \in Fds /\ 4 \in Rules
  BY SMTT(30) DEF Copies, Rules
<1>2. l \in Loops /\ l.rules = o.loop.rules /\ l.todo[4] = "none" /\ \A q \in Rules : q # 4 => l.todo[q] = o.loop.todo[q]
  BY <1>1, ServedIs
<1>3. PoppedTo(o.inbound, n, s) /\ s \in Streams(Bytes)
  BY <1>1, PopIs DEF PoppedTo
<1>4. e \in BOOLEAN
  BY <1>3 DEF Eof, Streams
<1>5. fd \in Fds /\ fd.closed = (o.output.closed \/ e)
  BY <1>1, <1>4 DEF Fds, FdClose
<1>6. p = [o EXCEPT !.inbound = s, !.inboundShutdown = @ \/ e, !.loop = l, !.output = fd]
  BY DEF ToOutput
<1> HIDE DEF s, l, p, e, fd
<1>7. /\ p \in Copies /\ p.loop = l /\ p.pc = o.pc /\ p.threw = o.threw /\ p.inbound = s /\ p.output = fd
      /\ p.input = o.input /\ p.socket = o.socket /\ p.outbound = o.outbound
      /\ p.outboundShutdown = o.outboundShutdown
  BY <1>2, <1>3, <1>4, <1>5, <1>6 DEF Copies
<1>8. Besides(o, p, 4)
  BY <1>2, <1>7 DEF Besides
<1> QED
  BY <1>3, <1>5, <1>7, <1>8 DEF p, e

\* One turn of the loop of wait_next_event() that prepares poll(), when a cancel() changes nothing.
CopyAsked(o, k, rules, polled) ==
  /\ rules = {r \in o.loop.rules : r <= k => ~CopyUsedUp(o, r)}
  /\ polled = {r \in rules : r <= k /\ CopyInterest(o, r)}

\* One round of that loop.
LEMMA CopyAskIs ==
  ASSUME NEW o \in Copies, NEW r \in Rules, NEW R, NEW P, CopyAsked(o, r - 1, R, P),
         CopyUsedUp(o, r) => CopyCancel(o, r) = o
  PROVE  \E R2, P2 : CopyAsked(o, r, R2, P2) /\ CopyAsk([s |-> o, rules |-> R, polled |-> P], r) = [s |-> o, rules |-> R2, polled |-> P2]
<1> DEFINE acc == [s |-> o, rules |-> R, polled |-> P]
           R2 == {q \in o.loop.rules : q <= r => ~CopyUsedUp(o, q)}
           P2 == {q \in R2 : q <= r /\ CopyInterest(o, q)}
           u == CopyUsedUp(o, r)
           i == CopyInterest(o, r)
<1>1. o.loop.rules \subseteq Rules /\ \A q \in Rules : q <= r <=> (q <= r - 1 \/ q = r)
  BY CopyParts, SMTT(30) DEF Rules
<1>2. ~(r <= r - 1)
  BY SMTT(30) DEF Rules
<1>3. CopyAsk(acc, r) = IF r \notin R THEN acc
                        ELSE IF u THEN [s |-> CopyCancel(o, r), rules |-> R \ {r}, polled |-> P]
                             ELSE [s |-> o, rules |-> R, polled |-> IF i THEN P \cup {r} ELSE P]
  <2>1. acc.s = o /\ acc.rules = R /\ acc.polled = P
    OBVIOUS
  <2>2. CopyAsk(acc, r) = IF r \notin acc.rules THEN acc
                          ELSE IF CopyUsedUp(acc.s, r)
                               THEN [s |-> CopyCancel(acc.s, r), rules |-> acc.rules \ {r}, polled |-> acc.polled]
                               ELSE [acc EXCEPT !.polled = IF CopyInterest(acc.s, r) THEN acc.polled \cup {r} ELSE acc.polled]
    BY DEF CopyAsk, Asked
  <2>3. CopyAsk(acc, r) = IF r \notin R THEN acc
                          ELSE IF u THEN [s |-> CopyCancel(o, r), rules |-> R \ {r}, polled |-> P]
                               ELSE [acc EXCEPT !.polled = IF i THEN P \cup {r} ELSE P]
    <3> HIDE DEF acc
    <3> QED
      BY <2>1, <2>2
  <2> DEFINE P3 == IF i THEN P \cup {r} ELSE P
  <2>4. [acc EXCEPT !.polled = P3] = [s |-> o, rules |-> R, polled |-> P3]
    <3> HIDE DEF P3
    <3> QED
      BY SMTT(30)
  <2> QED
    BY <2>3, <2>4
<1>4. R2 = IF u THEN R \ {r} ELSE R
  BY <1>1, <1>2 DEF CopyAsked
<1>5. P2 = IF r \in R /\ ~u /\ i THEN P \cup {r} ELSE P
  BY <1>1, <1>2, <1>4 DEF CopyAsked
<1>6. CopyAsk(acc, r) = [s |-> o, rules |-> R2, polled |-> P2]
  <2> HIDE DEF R2, P2, u, i
  <2>1. CASE r \notin R
    <3>1. R2 = R
      BY <1>4, <2>1
    <3> QED
      BY <1>3, <1>5, <2>1, <3>1
  <2>2. CASE r \in R /\ u
    BY <1>3, <1>4, <1>5, <2>2 DEF u
  <2>3. CASE r \in R /\ ~u
    BY <1>3, <1>4, <1>5, <2>3
  <2> QED
    BY <2>1, <2>2, <2>3
<1>7. CopyAsked(o, r, R2, P2)
  BY DEF CopyAsked
<1> QED
  BY <1>6, <1>7

\* In the states of the invariant, preparing poll() leaves the copy as it is.
LEMMA CopySetUpIs ==
  ASSUME NEW o \in Copies, \A r \in Rules : CopyUsedUp(o, r) => CopyCancel(o, r) = o
  PROVE  LET setup == CopySetUp(o)
         IN  /\ setup.s = o
             /\ setup.rules = {r \in o.loop.rules : ~CopyUsedUp(o, r)}
             /\ setup.polled = {r \in setup.rules : CopyInterest(o, r)}
<1> DEFINE A0 == [s |-> o, rules |-> o.loop.rules, polled |-> {}]
           setup == CopySetUp(o)
<1>1. setup = CopyAsk(CopyAsk(CopyAsk(CopyAsk(A0, 1), 2), 3), 4)
  BY DEF CopySetUp, Asking
<1>2. o.loop.rules \subseteq Rules
  BY CopyParts
<1>3. CopyAsked(o, 0, o.loop.rules, {})
  BY <1>2, SMTT(30) DEF CopyAsked, Rules
<1>4. 1 \in Rules /\ 2 \in Rules /\ 3 \in Rules /\ 4 \in Rules
  BY SMTT(30) DEF Rules
<1>5. PICK R1, P1 : CopyAsked(o, 1, R1, P1) /\ CopyAsk(A0, 1) = [s |-> o, rules |-> R1, polled |-> P1]
  <2> DEFINE R0 == o.loop.rules
             P0 == {}
  <2>1. CopyAsked(o, 1 - 1, R0, P0)
    BY <1>3, SMTT(30)
  <2> HIDE DEF R0, P0
  <2>2. \E R1, P1 : CopyAsked(o, 1, R1, P1) /\ CopyAsk([s |-> o, rules |-> R0, polled |-> P0], 1) = [s |-> o, rules |-> R1, polled |-> P1]
    BY <1>4, <2>1, CopyAskIs, SMTT(30)
  <2> QED
    BY <2>2 DEF R0, P0
<1>6. PICK R2, P2 : CopyAsked(o, 2, R2, P2) /\ CopyAsk(CopyAsk(A0, 1), 2) = [s |-> o, rules |-> R2, polled |-> P2]
  <2>1. CopyAsked(o, 2 - 1, R1, P1)
    BY <1>5, SMTT(30)
  <2> QED
    BY <1>4, <1>5, <2>1, CopyAskIs, SMTT(30)
<1>7. PICK R3, P3 : CopyAsked(o, 3, R3, P3) /\ CopyAsk(CopyAsk(CopyAsk(A0, 1), 2), 3) = [s |-> o, rules |-> R3, polled |-> P3]
  <2>1. CopyAsked(o, 3 - 1, R2, P2)
    BY <1>6, SMTT(30)
  <2> QED
    BY <1>4, <1>6, <2>1, CopyAskIs, SMTT(30)
<1>8. PICK R4, P4 : CopyAsked(o, 4, R4, P4) /\ CopyAsk(CopyAsk(CopyAsk(CopyAsk(A0, 1), 2), 3), 4) = [s |-> o, rules |-> R4, polled |-> P4]
  <2>1. CopyAsked(o, 4 - 1, R3, P3)
    BY <1>7, SMTT(30)
  <2> QED
    BY <1>4, <1>7, <2>1, CopyAskIs, SMTT(30)
<1>9. \A r \in o.loop.rules : r <= 4
  BY <1>2, SMTT(30) DEF Rules
<1>10. R4 = {r \in o.loop.rules : ~CopyUsedUp(o, r)} /\ P4 = {r \in R4 : CopyInterest(o, r)}
  BY <1>8, <1>9 DEF CopyAsked
<1>11. setup = [s |-> o, rules |-> R4, polled |-> P4]
  BY <1>1, <1>8
<1> HIDE DEF setup
<1>12. setup.s = o /\ setup.rules = R4 /\ setup.polled = P4
  BY <1>11
<1> QED
  BY <1>10, <1>12 DEF setup

\* The parts of the TCP thread.
LEMMA SockParts ==
  ASSUME NEW t \in Sockets
  PROVE  /\ t.loop.rules \in SUBSET Rules /\ t.loop.todo \in [Rules -> Verdicts]
         /\ t.tcp \in Connections /\ t.tcp.outbound \in Streams(Bytes) /\ t.tcp.inbound \in Streams(Bytes)
         /\ t.threadData \in Fds /\ t.tcp.active \in BOOLEAN /\ t.tcp.queued \in BOOLEAN
BY DEF Sockets, Loops, Connections

\* Inv holds when the program starts.
LEMMA InitInv == Init => Inv
<1> SUFFICES ASSUME Init PROVE Inv
  OBVIOUS
<1> DEFINE empty == NewByteStream(CopyCapacity)
<1>1. \A c \in Nat : /\ NewByteStream(c) \in Streams(Bytes) /\ NewByteStream(c).buf = <<>>
                     /\ NewByteStream(c).size = 0 /\ NewByteStream(c).numWritten = 0 /\ NewByteStream(c).numRead = 0
                     /\ NewByteStream(c).isInputEnd = FALSE /\ NewByteStream(c).error = FALSE
                     /\ NewByteStream(c).capacity = c
  BY EmptyIsSeq, SMTT(30) DEF NewByteStream, Streams
<1>2. CopyCapacity \in Nat /\ RecvCapacity \in Nat /\ SendCapacity \in Nat /\ PairCapacity \in Nat
  BY SocketAssumption
<1>3. NewEventLoop \in Loops /\ NewEventLoop.rules = Rules /\ \A r \in Rules : NewEventLoop.todo[r] = "none"
  BY DEF NewEventLoop, NothingToDo, Loops, Verdicts
<1>4. NewFd \in Fds /\ NewFd.eof = FALSE /\ NewFd.closed = FALSE
  BY DEF NewFd, Fds
<1>5. /\ app \in Copies /\ app.loop = NewEventLoop /\ app.input = NewFd /\ app.socket = NewFd /\ app.output = NewFd
      /\ app.outbound = empty /\ app.inbound = empty
      /\ app.outboundShutdown = FALSE /\ app.pc = "opening" /\ app.threw = FALSE
  <2> HIDE DEF empty
  <2> QED
    BY <1>1, <1>2, <1>3, <1>4 DEF Init, NewCopy, Copies, empty
<1> DEFINE in == NewByteStream(RecvCapacity)
           out == NewByteStream(SendCapacity)
<1>6. PICK client \in BOOLEAN : sock = NewSocket(client)
  BY DEF Init
<1> DEFINE tcp == [NewConnection EXCEPT !.queued = client]
<1>7. tcp \in Connections /\ tcp.active = TRUE /\ tcp.inbound = in /\ tcp.outbound = out
  <2>1. in \in Streams(Bytes) /\ out \in Streams(Bytes)
    BY <1>1, <1>2
  <2>2. NewConnection = [opening |-> TRUE, active |-> TRUE, queued |-> FALSE, inbound |-> in, outbound |-> out]
    BY DEF NewConnection
  <2> HIDE DEF in, out
  <2> QED
    BY <2>1, <2>2 DEF Connections
<1>8. /\ sock \in Sockets /\ sock.loop = NewEventLoop /\ sock.phase = "wait" /\ sock.main = FALSE /\ sock.tcp = tcp
      /\ sock.threadData = NewFd /\ sock.outboundShutdown = FALSE /\ sock.inboundShutdown = FALSE
  <2> HIDE DEF tcp
  <2> QED
    BY <1>3, <1>4, <1>6, <1>7 DEF NewSocket, Sockets, tcp
<1>9. pair \in Pairs /\ pair.queue.app = <<>> /\ pair.queue.tcp = <<>> /\ pair.noRead.app = FALSE
      /\ pair.noRead.tcp = FALSE /\ pair.noWrite.app = FALSE /\ pair.noWrite.tcp = FALSE
  BY EmptyIsSeq DEF Init, NewPair, Pairs
<1>10. load \in Loads /\ load.input \in Nat /\ load.peer \in Nat
  BY SocketAssumption DEF Init
<1>11. stdin.ready = <<>> /\ stdin.fed = 0 /\ stdin.closed = FALSE /\ stdout.got = <<>> /\ stdout.broken = FALSE
       /\ outcome = "running" /\ abort = FALSE /\ arrival = "none"
  BY DEF Init
<1>12. stdin \in [ready : Seq(Bytes), fed : Nat, closed : BOOLEAN] /\ stdout \in [got : Seq(Bytes), broken : BOOLEAN]
  BY EmptyIsSeq DEF Init
<1>13. /\ app.outbound.buf = <<>> /\ app.outbound.size = 0 /\ app.outbound.isInputEnd = FALSE
       /\ app.outbound.error = FALSE /\ app.outbound.capacity = CopyCapacity
       /\ app.inbound.buf = <<>> /\ app.inbound.size = 0 /\ app.inbound.isInputEnd = FALSE
       /\ app.inbound.error = FALSE /\ app.inbound.capacity = CopyCapacity
  BY <1>1, <1>2, <1>5, SMTT(30)
<1>14. /\ sock.tcp.inbound.buf = <<>> /\ sock.tcp.inbound.numWritten = 0 /\ sock.tcp.inbound.isInputEnd = FALSE
       /\ sock.tcp.outbound.buf = <<>> /\ sock.tcp.outbound.numRead = 0 /\ sock.tcp.outbound.isInputEnd = FALSE
  BY <1>1, <1>2, <1>7, <1>8, SMTT(30)
<1> HIDE DEF empty, in, out, tcp
<1>15. Types
  BY <1>5, <1>8, <1>9, <1>10, <1>11, <1>12 DEF Types
<1>16. CopyResults /\ RulesLeft
  BY <1>3, <1>5, SMTT(30) DEF CopyResults, RulesLeft, Rules
<1>17. CopyOut /\ CopyIn
  BY <1>4, <1>5, <1>13 DEF CopyOut, CopyIn
<1>18. Flags
  BY <1>2, <1>8, <1>9, EmptyIsSeq, SMTT(30) DEF Flags
<1>19. Leaving
  BY <1>5, <1>8, <1>11 DEF Leaving, Over
<1>20. SockResults
  BY <1>3, <1>8, SMTT(30) DEF SockResults, Rules
<1>21. SockOut /\ SockIn /\ Ending
  BY <1>4, <1>7, <1>8, <1>11, <1>14 DEF SockOut, SockIn, Ending
<1>22. InputEnds
  BY <1>10, <1>11, <1>14, SMTT(30) DEF InputEnds
<1>23. Pipes
  <2>1. Count(0, 0) = <<>>
    <3>1. Count(0, 0) \in Seq(Bytes) /\ Len(Count(0, 0)) = 0
      BY CountType
    <3> QED
      BY <3>1, EmptyIsSeq
  <2>2. Line(<<>>, <<>>, <<>>, <<>>) = <<>>
    <3>1. <<>> \in Seq(Bytes)
      BY EmptyIsSeq
    <3> QED
      BY <3>1, LineOfOne
  <2>3. stdin.fed - sock.tcp.outbound.numRead = 0
    BY <1>11, <1>14, SMTT(30)
  <2> QED
    BY <1>9, <1>11, <1>13, <1>14, <2>1, <2>2, <2>3 DEF Pipes, InLine
<1>24. Outcomes
  BY <1>11 DEF Outcomes, DiesForAReason
<1> QED
  BY <1>15, <1>16, <1>17, <1>18, <1>19, <1>20, <1>21, <1>22, <1>23, <1>24 DEF Inv

(* The steps that keep it: the world outside *)

\* Inv is about the variables only.
LEMMA StutterKeeps == Inv /\ UNCHANGED vars => Inv'
<1> SUFFICES ASSUME Inv, UNCHANGED vars PROVE Inv'
  OBVIOUS
<1> /\ Types /\ CopyResults /\ RulesLeft /\ CopyOut /\ CopyIn /\ Flags /\ Leaving /\ SockResults
    /\ SockOut /\ SockIn /\ Ending /\ InputEnds /\ Pipes /\ Outcomes
  BY DEF Inv
<1> UNCHANGED <<load, app, sock, pair, abort, arrival, stdin, stdout, outcome>>
  BY DEF vars
<1>1. Types'
  BY DEF Types
<1>2. CopyResults'
  BY DEF CopyResults, Over, InputRead
<1>3. RulesLeft' /\ CopyOut' /\ CopyIn'
  BY DEF RulesLeft, CopyOut, CopyIn, Over, InputRead
<1>4. Flags' /\ Leaving'
  BY DEF Flags, Leaving, Over, Shut
<1>5. SockResults' /\ SockOut' /\ SockIn' /\ Ending' /\ InputEnds'
  BY DEF SockResults, SockOut, SockIn, Ending, InputEnds, InputRead
<1>6. Pipes' /\ Outcomes'
  BY DEF Pipes, Outcomes, DiesForAReason, Over, Shut
<1> QED
  BY <1>1, <1>2, <1>3, <1>4, <1>5, <1>6 DEF Inv

\* Each step of the program keeps Inv. The world outside: stdin gets a byte or ends.
LEMMA FeedKeeps == Inv /\ Feed => Inv'
<1> SUFFICES ASSUME Inv, Feed PROVE Inv'
  OBVIOUS
<1> /\ Types /\ CopyResults /\ RulesLeft /\ CopyOut /\ CopyIn /\ Flags /\ Leaving /\ SockResults
    /\ SockOut /\ SockIn /\ Ending /\ InputEnds /\ Pipes /\ Outcomes
  BY DEF Inv
<1>2. UNCHANGED <<load, app, sock, pair, abort, arrival, stdout, outcome>> /\ ~stdin.closed
  BY DEF Feed
<1>3. stdin \in [ready : Seq(Bytes), fed : Nat, closed : BOOLEAN] /\ load.input \in Nat
  BY SocketAssumption DEF Types
<1>4. \/ /\ stdin.fed < load.input /\ stdin'.fed = stdin.fed + 1 /\ stdin'.ready = Append(stdin.ready, stdin.fed + 1)
         /\ stdin'.closed = FALSE
      \/ /\ ~(stdin.fed < load.input) /\ stdin'.fed = stdin.fed /\ stdin'.ready = stdin.ready
         /\ stdin'.closed = TRUE
  BY <1>2, <1>3 DEF Feed
<1>5. stdin' \in [ready : Seq(Bytes), fed : Nat, closed : BOOLEAN]
  <2>1. CASE stdin.fed < load.input
    <3>1. stdin.fed + 1 \in Bytes /\ stdin.fed + 1 \in Nat
      BY <1>3, SMTT(30) DEF Bytes
    <3>2. Append(stdin.ready, stdin.fed + 1) \in Seq(Bytes)
      BY <1>3, <3>1, AppendElements
    <3>3. stdin' = [stdin EXCEPT !.fed = stdin.fed + 1, !.ready = Append(stdin.ready, stdin.fed + 1)]
      BY <2>1 DEF Feed
    <3> QED
      BY <1>3, <3>1, <3>2, <3>3
  <2>2. CASE ~(stdin.fed < load.input)
    BY <1>3, <2>2 DEF Feed
  <2> QED
    BY <2>1, <2>2
<1>6. Types'
  BY <1>2, <1>5 DEF Types
<1>7. stdin.ready # <<>> => stdin'.ready # <<>>
  <2>1. CASE stdin.fed < load.input
    <3>1. stdin.fed + 1 \in Bytes
      BY <1>3, SMTT(30) DEF Bytes
    <3>2. Append(stdin.ready, stdin.fed + 1) # <<>>
      BY <1>3, <3>1, AppendElements, SMTT(30)
    <3> QED
      BY <1>4, <2>1, <3>2
  <2> QED
    BY <1>4, <2>1
<1>8. CopyResults'
  BY <1>2, <1>7 DEF CopyResults, InputRead, Over
<1>9. CopyOut' /\ SockOut'
  BY <1>2 DEF CopyOut, SockOut, InputRead, Over
<1>10. RulesLeft' /\ CopyIn' /\ Flags' /\ Leaving' /\ SockResults' /\ SockIn' /\ Ending' /\ Outcomes'
  BY <1>2, SMTT(30) DEF RulesLeft, CopyIn, Flags, Leaving, SockResults, SockIn, Ending, Outcomes, DiesForAReason, Over, Shut
<1>11. sock \in Sockets
  BY DEF Types
<1>12. sock.tcp.outbound.numRead \in Nat
  BY <1>11, SockParts, Sizes
<1>13. InputEnds'
  BY <1>2, <1>3, <1>4, <1>12, SMTT(30) DEF InputEnds
<1>14. Pipes'
  <2>1. CASE ~(stdin.fed < load.input)
    BY <1>2, <1>4, <2>1 DEF Pipes, Over
  <2>2. CASE stdin.fed < load.input
    <3> DEFINE a == sock.tcp.outbound.buf
               b == pair.queue.tcp
               c == app.outbound.buf
               d == stdin.ready
               k == sock.tcp.outbound.numRead
               f == stdin.fed
    <3>1. a \in Seq(Bytes) /\ b \in Seq(Bytes) /\ c \in Seq(Bytes) /\ d \in Seq(Bytes)
      <4>1. a \in Seq(Bytes)
        BY <1>11, SockParts, Sizes
      <4>2. b \in Seq(Bytes)
        BY PairParts DEF Types
      <4>3. c \in Seq(Bytes)
        BY CopyParts, Sizes DEF Types
      <4> QED
        BY <1>3, <4>1, <4>2, <4>3
    <3>2. k \in Nat /\ f \in Nat /\ k <= f
      BY <1>3, <1>12 DEF InputEnds
    <3>3. stdin'.ready = Append(d, f + 1) /\ stdin'.fed = f + 1
      BY <1>4, <2>2
    <3>4. ~Over \/ sock.threadData.eof => InLine(a, b, c, d, k, f - k)
      BY DEF Pipes
    <3> HIDE DEF a, b, c, d, k, f
    <3>5. ~Over \/ sock.threadData.eof => InLine(a, b, c, Append(d, f + 1), k, (f + 1) - k)
      BY <3>1, <3>2, <3>4, LineAppends
    <3>6. ~Over \/ sock.threadData.eof => InLine(a, b, c, stdin'.ready, k, stdin'.fed - k)
      BY <3>3, <3>5
    <3> QED
      BY <1>2, <3>6 DEF Pipes, Over, a, b, c, k
  <2> QED
    BY <2>1, <2>2
<1> QED
  BY <1>6, <1>8, <1>9, <1>10, <1>13, <1>14 DEF Inv

\* Whoever read stdout goes away.
LEMMA BreakOutputKeeps == Inv /\ BreakOutput => Inv'
<1> SUFFICES ASSUME Inv, BreakOutput PROVE Inv'
  OBVIOUS
<1> /\ Types /\ CopyResults /\ RulesLeft /\ CopyOut /\ CopyIn /\ Flags /\ Leaving /\ SockResults
    /\ SockOut /\ SockIn /\ Ending /\ InputEnds /\ Pipes /\ Outcomes
  BY DEF Inv
<1>2. UNCHANGED <<load, app, sock, pair, abort, arrival, stdin, outcome>>
  BY DEF BreakOutput
<1>3. stdout' \in [got : Seq(Bytes), broken : BOOLEAN] /\ stdout'.got = stdout.got /\ stdout'.broken = TRUE
  BY DEF Types, BreakOutput
<1>4. Types'
  BY <1>2, <1>3 DEF Types
<1>5. CopyResults' /\ Leaving' /\ Outcomes'
  BY <1>2, <1>3 DEF CopyResults, Leaving, Outcomes, DiesForAReason, Over, Shut, InputRead
<1>6. Pipes'
  BY <1>2, <1>3 DEF Pipes, Over
<1>7. RulesLeft' /\ CopyOut' /\ CopyIn' /\ Flags' /\ SockResults' /\ SockOut' /\ SockIn' /\ Ending' /\ InputEnds'
  BY <1>2, SMTT(30) DEF RulesLeft, CopyOut, CopyIn, Flags, SockResults, SockOut, SockIn, Ending, InputEnds, Over, Shut, InputRead
<1> QED
  BY <1>4, <1>5, <1>6, <1>7 DEF Inv

(* The main thread *)

\* An exception out of the copy.
LEMMA CopyThrowsKeeps == Inv /\ CopyThrows => Inv'
<1> SUFFICES ASSUME Inv, CopyThrows PROVE Inv'
  OBVIOUS
<1> /\ Types /\ CopyResults /\ RulesLeft /\ CopyOut /\ CopyIn /\ Flags /\ Leaving /\ SockResults
    /\ SockOut /\ SockIn /\ Ending /\ InputEnds /\ Pipes /\ Outcomes
  BY DEF Inv
<1>2. UNCHANGED <<load, sock, pair, abort, arrival, stdin, stdout, outcome>>
  BY DEF CopyThrows
<1>3. PICK r \in Rules : CopyTurn(r, "error")
  BY DEF CopyThrows
<1>4. app.pc = "copying" /\ Running /\ stdout.broken
  BY <1>3 DEF CopyTurn, Turn, CopyResults
<1>5. /\ app' \in Copies /\ app'.loop.rules = app.loop.rules /\ app'.loop.todo = NothingToDo
      /\ app'.input = app.input /\ app'.socket = app.socket /\ app'.output = app.output
      /\ app'.outbound = app.outbound /\ app'.inbound = app.inbound
      /\ app'.outboundShutdown = app.outboundShutdown /\ app'.pc = "closing" /\ app'.threw = TRUE
  <2>1. app \in Copies
    BY DEF Types
  <2>2. NothingToDo \in [Rules -> Verdicts]
    BY DEF NothingToDo, Verdicts
  <2>3. app' = [app EXCEPT !.pc = "closing", !.threw = TRUE, !.loop.todo = NothingToDo]
    BY DEF CopyThrows
  <2> QED
    BY <2>1, <2>2, <2>3 DEF Copies, Loops
<1>6. Types'
  BY <1>2, <1>5 DEF Types
<1>7. CopyResults'
  BY <1>2, <1>5, SMTT(30) DEF CopyResults, NothingToDo, Rules
<1>8. RulesLeft' /\ CopyOut' /\ CopyIn'
  BY <1>2, <1>5 DEF RulesLeft, CopyOut, CopyIn, Over, InputRead
<1>9. Flags' /\ Leaving'
  BY <1>2, <1>4, <1>5 DEF Flags, Leaving, Over, Shut
<1>10. SockResults' /\ SockOut' /\ SockIn' /\ Ending' /\ InputEnds'
  BY <1>2, <1>5 DEF SockResults, SockOut, SockIn, Ending, InputEnds, InputRead
<1>11. Pipes'
  BY <1>2, <1>5 DEF Pipes, Over
<1>12. Outcomes'
  BY <1>2, <1>4 DEF Outcomes, DiesForAReason, Running
<1> QED
  BY <1>6, <1>7, <1>8, <1>9, <1>10, <1>11, <1>12 DEF Inv

\* wait_until_closed(), or the destructor.
LEMMA AppCloseKeeps == Inv /\ AppClose => Inv'
<1> SUFFICES ASSUME Inv, AppClose PROVE Inv'
  OBVIOUS
<1> /\ Types /\ CopyResults /\ RulesLeft /\ CopyOut /\ CopyIn /\ Flags /\ Leaving /\ SockResults
    /\ SockOut /\ SockIn /\ Ending /\ InputEnds /\ Pipes /\ Outcomes
  BY DEF Inv
<1>2. UNCHANGED <<load, sock, arrival, stdin, stdout, outcome>> /\ Running /\ app.pc = "closing"
  BY DEF AppClose
<1>3. /\ app' \in Copies /\ app'.loop = app.loop
      /\ app'.input = app.input /\ app'.socket = app.socket /\ app'.output = app.output
      /\ app'.outbound = app.outbound /\ app'.inbound = app.inbound
      /\ app'.outboundShutdown = app.outboundShutdown /\ app'.pc = "joining" /\ app'.threw = app.threw
  BY DEF Types, Copies, AppClose
<1>4. /\ pair' \in Pairs /\ pair'.queue = pair.queue
      /\ pair.noRead.app => pair'.noRead.app
      /\ pair.noRead.tcp => pair'.noRead.tcp
      /\ pair.noWrite.tcp => pair'.noWrite.tcp
      /\ app.threw => pair' = pair
      /\ abort' = (abort \/ app.threw)
  <2>1. pair \in Pairs /\ app.threw \in BOOLEAN /\ abort \in BOOLEAN
    BY DEF Types, Copies
  <2>2. CASE app.threw
    BY <2>1, <2>2 DEF AppClose
  <2>3. CASE ~app.threw
    <3>1. pair' = ShutBoth(pair) /\ abort' = abort
      BY <2>3 DEF AppClose
    <3> QED
      BY <2>1, <2>3, <3>1, Shuts
  <2> QED
    BY <2>2, <2>3
<1>5. Types'
  BY <1>2, <1>3, <1>4 DEF Types, Copies
<1>6. CopyResults'
  BY <1>2, <1>3, <1>4 DEF CopyResults, Over, InputRead
<1>7. RulesLeft' /\ CopyOut' /\ CopyIn'
  BY <1>2, <1>3, <1>4 DEF RulesLeft, CopyOut, CopyIn, Over, InputRead
<1>8. Flags'
  BY <1>2, <1>3, <1>4 DEF Flags, Over, Shut
<1>9. Leaving'
  BY <1>2, <1>3, <1>4 DEF Leaving, Over
<1>10. SockResults' /\ SockOut' /\ SockIn' /\ Ending' /\ InputEnds'
  BY <1>2, <1>3, <1>4 DEF SockResults, SockOut, SockIn, Ending, InputEnds, InputRead
<1>11. Pipes'
  BY <1>2, <1>3, <1>4 DEF Pipes, Over
<1>12. Outcomes'
  BY <1>2 DEF Outcomes, DiesForAReason, Running
<1> QED
  BY <1>5, <1>6, <1>7, <1>8, <1>9, <1>10, <1>11, <1>12 DEF Inv

\* The process ends in one of the ways it may.
LEMMA EndsWell ==
  ASSUME Inv, UNCHANGED <<load, app, sock, pair, abort, arrival, stdin, stdout>>, Outcomes',
         outcome' \in {"killed", "failure", "success"}
  PROVE  Inv'
<1>1. Types'
  BY DEF Inv, Types
<1>2. CopyResults' /\ RulesLeft' /\ CopyOut' /\ CopyIn' /\ Flags' /\ Leaving'
  BY SMTT(30) DEF Inv, CopyResults, RulesLeft, CopyOut, CopyIn, Flags, Leaving, Over, Shut, InputRead
<1>3. SockResults' /\ SockOut' /\ SockIn' /\ Ending' /\ InputEnds' /\ Pipes'
  BY DEF Inv, SockResults, SockOut, SockIn, Ending, InputEnds, Pipes, Over, InputRead
<1> QED
  BY <1>1, <1>2, <1>3 DEF Inv

\* join(), and the end of the process.
LEMMA AppJoinKeeps == Inv /\ AppJoin => Inv'
<1> SUFFICES ASSUME Inv, AppJoin PROVE Inv'
  OBVIOUS
<1>1. Types /\ Leaving
  BY DEF Inv
<1>2. UNCHANGED <<load, app, sock, pair, abort, arrival, stdin, stdout>> /\ app.pc = "joining" /\ sock.phase = "ended"
      /\ outcome' = IF app.threw THEN "failure" ELSE "success"
  BY DEF AppJoin
<1>3. app.threw \in BOOLEAN
  BY <1>1 DEF Types, Copies
<1>4. Outcomes'
  BY <1>1, <1>2, <1>3 DEF Outcomes, DiesForAReason, Leaving, Over, Shut
<1> QED
  BY <1>2, <1>4, EndsWell

\* The copy drops a rule whose descriptor hung up, or is through.
LEMMA CopyCancelsKeeps == Inv /\ CopyCancels => Inv'
<1> SUFFICES ASSUME Inv, CopyCancels PROVE Inv'
  OBVIOUS
<1> /\ Types /\ CopyResults /\ RulesLeft /\ CopyOut /\ CopyIn /\ Flags /\ Leaving /\ SockResults
    /\ SockOut /\ SockIn /\ Ending /\ InputEnds /\ Pipes /\ Outcomes
  BY DEF Inv
<1>2. UNCHANGED <<load, sock, pair, abort, arrival, stdin, stdout, outcome>>
  BY DEF CopyCancels
<1>3. PICK r \in Rules : CopyTurn(r, "defunct") /\ app' = [CopyCancel(app, r) EXCEPT !.loop = Erased(@, r)]
  BY DEF CopyCancels
<1>4. app.loop.todo[r] = "defunct"
  BY <1>3 DEF CopyTurn, Turn
<1>5. r \in {1, 2} /\ (r = 1 => InputRead) /\ (r = 2 => Over)
  BY <1>4, SMTT(30) DEF CopyResults, Rules
<1> DEFINE s == EndInput(app.outbound)
           l == Erased(app.loop, r)
<1>6. app \in Copies /\ app.outbound \in Streams(Bytes) /\ app.loop \in Loops
  BY CopyParts DEF Types, Copies
<1>7. /\ s \in Streams(Bytes) /\ s.isInputEnd = TRUE /\ s.buf = app.outbound.buf /\ s.size = app.outbound.size
      /\ s.capacity = app.outbound.capacity /\ s.error = app.outbound.error
  BY <1>6, FlagIs
<1>8. /\ l \in Loops /\ l.rules = app.loop.rules \ {r} /\ l.todo[r] = "none"
      /\ \A q \in Rules : q # r => l.todo[q] = app.loop.todo[q]
  <2>1. l \in Loops /\ l.rules = app.loop.rules \ {r} /\ l.todo = Served(app.loop, r).todo
    BY <1>6, ServedIs
  <2>2. Served(app.loop, r).todo[r] = "none" /\ \A q \in Rules : q # r => Served(app.loop, r).todo[q] = app.loop.todo[q]
    BY <1>6, ServedIs
  <2> QED
    BY <2>1, <2>2
<1>9. CopyCancel(app, r) = [app EXCEPT !.outbound = s]
  BY <1>5 DEF CopyCancel
<1> HIDE DEF s, l
<1> DEFINE o == [app EXCEPT !.outbound = s]
<1>10. /\ o \in Copies /\ o.loop = app.loop /\ o.input = app.input /\ o.socket = app.socket /\ o.output = app.output
       /\ o.outbound = s /\ o.inbound = app.inbound /\ o.outboundShutdown = app.outboundShutdown
       /\ o.pc = app.pc /\ o.threw = app.threw
  BY <1>6, <1>7 DEF Copies
<1>11. app' = [o EXCEPT !.loop = l]
  BY <1>3, <1>9, <1>10 DEF l
<1> HIDE DEF o
<1>12. /\ app' \in Copies /\ app'.loop = l
       /\ app'.input = app.input /\ app'.socket = app.socket /\ app'.output = app.output
       /\ app'.outbound = s /\ app'.inbound = app.inbound
       /\ app'.outboundShutdown = app.outboundShutdown /\ app'.pc = app.pc /\ app'.threw = app.threw
  BY <1>8, <1>10, <1>11 DEF Copies
<1>13. Types'
  BY <1>2, <1>12 DEF Types
<1>14. CopyResults'
  BY <1>2, <1>8, <1>12, SMTT(30) DEF CopyResults, Over, InputRead, Rules
<1>15. RulesLeft'
  BY <1>2, <1>5, <1>7, <1>8, <1>12, SMTT(30) DEF RulesLeft, Over
<1>16. CopyOut'
  BY <1>2, <1>5, <1>7, <1>12 DEF CopyOut, Over, InputRead, Eof
<1>17. CopyIn' /\ Flags' /\ Leaving'
  BY <1>2, <1>12 DEF CopyIn, Flags, Leaving, Over, Shut
<1>18. SockResults' /\ SockOut' /\ SockIn' /\ Ending' /\ InputEnds'
  BY <1>2, <1>12 DEF SockResults, SockOut, SockIn, Ending, InputEnds, InputRead
<1>19. Pipes'
  BY <1>2, <1>7, <1>12 DEF Pipes, Over
<1>20. Outcomes'
  BY <1>2, <1>3 DEF Outcomes, DiesForAReason, CopyTurn, Running
<1> QED
  BY <1>13, <1>14, <1>15, <1>16, <1>17, <1>18, <1>19, <1>20 DEF Inv

\* From stdin to the outbound stream of the copy.
LEMMA CopyFromInputKeeps == Inv /\ CopyFromInput => Inv'
<1> SUFFICES ASSUME Inv, CopyFromInput PROVE Inv'
  OBVIOUS
<1> /\ Types /\ CopyResults /\ RulesLeft /\ CopyOut /\ CopyIn /\ Flags /\ Leaving /\ SockResults
    /\ SockOut /\ SockIn /\ Ending /\ InputEnds /\ Pipes /\ Outcomes
  BY DEF Inv
<1> DEFINE limit == RemainingCapacity(app.outbound)
           got == SubSeq(stdin.ready, 1, Least(limit, Len(stdin.ready)))
           left == SubSeq(stdin.ready, Least(limit, Len(stdin.ready)) + 1, Len(stdin.ready))
           end == app.input.eof \/ (limit > 0 /\ got = <<>>)
           w == Write(app.outbound, got)
           n == ToWrite(app.outbound, got)
<1>2. UNCHANGED <<load, sock, pair, abort, arrival, stdout, outcome>> /\ app.pc = "copying"
      /\ app.loop.todo[1] = "ready" /\ app' = FromInput(app, got)
  BY DEF CopyFromInput, CopyTurn, Turn
<1>3. app \in Copies /\ app.outbound \in Streams(Bytes) /\ stdin \in [ready : Seq(Bytes), fed : Nat, closed : BOOLEAN]
  BY CopyParts DEF Types
<1>4. limit \in Nat /\ stdin.ready \in Seq(Bytes)
  BY <1>3, Sizes
<1>5. ReadFrom(stdin.ready, limit, got, left)
  BY <1>4, ReadSplits
<1>6. Len(got) = Least(limit, Len(stdin.ready))
  <2>1. Len(stdin.ready) \in Nat
    BY <1>4, SeqIsFunction
  <2>2. Least(limit, Len(stdin.ready)) \in 0..Len(stdin.ready)
    BY <1>4, <2>1, SMTT(30) DEF Least
  <2> QED
    BY <1>4, <2>2, PrefixType
<1>7. stdin' = [stdin EXCEPT !.ready = left]
  BY <1>6 DEF CopyFromInput
<1> HIDE DEF got, left
<1>8. /\ got \in Seq(Bytes) /\ left \in Seq(Bytes) /\ stdin.ready = got \o left /\ Len(got) <= limit
      /\ stdin.ready = <<>> => got = <<>> /\ left = <<>>
      /\ limit > 0 /\ got = <<>> => stdin.ready = <<>>
  BY <1>5 DEF ReadFrom
<1>9. stdin' \in [ready : Seq(Bytes), fed : Nat, closed : BOOLEAN] /\ stdin'.ready = left /\ stdin'.fed = stdin.fed
      /\ stdin'.closed = stdin.closed
  BY <1>3, <1>7, <1>8
<1>10. /\ Besides(app, app', 1) /\ app'.socket = app.socket /\ app'.output = app.output /\ app'.inbound = app.inbound
       /\ app'.input.eof = end /\ app'.input.closed = app.input.closed
       /\ app'.outbound = IF end THEN EndInput(w) ELSE w
       /\ app'.outboundShutdown = app.outboundShutdown
  BY <1>2, <1>3, <1>8, FromInputIs
<1>11. WrittenTo(app.outbound, got, n, w) /\ n \in 0..Len(got) /\ (app.outbound.isInputEnd => n = 0)
  BY <1>3, <1>8, WriteIs
<1> HIDE DEF w, n, limit
<1>12. /\ w \in Streams(Bytes) /\ w.buf = app.outbound.buf \o SubSeq(got, 1, n) /\ w.size = app.outbound.size + n
       /\ w.isInputEnd = app.outbound.isInputEnd /\ w.capacity = app.outbound.capacity /\ w.error = app.outbound.error
  BY <1>11 DEF WrittenTo
<1>13. /\ app'.outbound.buf = w.buf /\ app'.outbound.size = w.size /\ app'.outbound.capacity = w.capacity
       /\ app'.outbound.error = w.error /\ app'.outbound.isInputEnd = (w.isInputEnd \/ end)
  <2>1. app.input.eof \in BOOLEAN /\ w.isInputEnd \in BOOLEAN
    BY <1>3, <1>12, CopyParts DEF Fds, Streams
  <2>2. end \in BOOLEAN
    BY <2>1
  <2> HIDE DEF end
  <2>3. CASE end
    BY <1>10, <1>12, <2>1, <2>3, FlagIs
  <2>4. CASE ~end
    BY <1>10, <2>1, <2>4
  <2> QED
    BY <2>2, <2>3, <2>4
<1>14. /\ app' \in Copies /\ app'.loop.rules = app.loop.rules /\ app'.loop.todo[1] = "none"
       /\ \A q \in Rules : q # 1 => app'.loop.todo[q] = app.loop.todo[q]
       /\ app'.pc = app.pc /\ app'.threw = app.threw
  BY <1>10 DEF Besides
<1>15. InputRead => InputRead'
  BY <1>8, <1>9 DEF InputRead
<1>16. end => app.outbound.isInputEnd \/ InputRead'
  <2>1. CASE app.input.eof
    BY <2>1 DEF CopyOut
  <2>2. CASE limit > 0 /\ got = <<>>
    <3>1. stdin.ready = <<>>
      BY <1>8, <2>2
    <3>2. stdin.closed
      BY <1>2, <3>1 DEF CopyResults
    <3> QED
      BY <1>8, <1>9, <3>1, <3>2 DEF InputRead
  <2> QED
    BY <2>1, <2>2
<1> HIDE DEF end
<1>17. Types'
  BY <1>2, <1>9, <1>14 DEF Types
<1>18. CopyResults'
  BY <1>2, <1>10, <1>14, SMTT(30) DEF CopyResults, Over, Rules
<1>19. RulesLeft'
  BY <1>2, <1>10, <1>12, <1>13, <1>14 DEF RulesLeft, Over
<1>20. CopyOut'
  <2>1. app.outbound.isInputEnd => app'.outbound.size = app.outbound.size
    BY <1>3, <1>11, <1>12, <1>13, Sizes, SMTT(30)
  <2> QED
    BY <1>2, <1>10, <1>12, <1>13, <1>15, <1>16, <2>1 DEF CopyOut, Eof, Over
<1>21. CopyIn' /\ Flags' /\ Leaving'
  BY <1>2, <1>10, <1>14 DEF CopyIn, Flags, Leaving, Over, Shut
<1>22. SockResults' /\ SockOut' /\ SockIn' /\ Ending' /\ InputEnds'
  BY <1>2, <1>9, <1>10, <1>15 DEF SockResults, SockOut, SockIn, Ending, InputEnds
<1>23. Pipes'
  <2> DEFINE a == sock.tcp.outbound.buf
             b == pair.queue.tcp
             c == app.outbound.buf
  <2>1. a \in Seq(Bytes) /\ b \in Seq(Bytes) /\ c \in Seq(Bytes)
    <3>1. a \in Seq(Bytes)
      BY SockParts, Sizes DEF Types
    <3>2. b \in Seq(Bytes)
      BY PairParts DEF Types
    <3> QED
      BY <1>3, <3>1, <3>2, Sizes
  <2>2. ASSUME ~Over \/ sock.threadData.eof PROVE app'.outbound.buf = c \o got
    <3>1. app.outbound.isInputEnd => InputRead
      BY <2>2 DEF CopyOut, SockOut
    <3>2. got = <<>> \/ ~app.outbound.isInputEnd
      BY <1>8, <3>1 DEF InputRead
    <3>3. n = Len(got)
      BY <1>3, <1>8, <3>2, WriteAll DEF n, limit
    <3>4. SubSeq(got, 1, Len(got)) = got
      BY <1>8, WholeSubSeq
    <3> QED
      BY <1>12, <1>13, <3>3, <3>4
  <2>3. MovesToC(a, b, c, left, got)
    BY <1>8, <2>1, LineMoves
  <2>4. ~Over \/ sock.threadData.eof => Line(a, b, app'.outbound.buf, stdin'.ready) = Line(a, b, c, stdin.ready)
    BY <1>8, <1>9, <2>2, <2>3 DEF MovesToC
  <2> HIDE DEF a, b, c
  <2>5. ~Over \/ sock.threadData.eof =>
          InLine(a, b, app'.outbound.buf, stdin'.ready, sock.tcp.outbound.numRead, stdin.fed - sock.tcp.outbound.numRead)
    BY <2>4 DEF Pipes, InLine, a, b, c
  <2> QED
    BY <1>2, <1>9, <1>10, <2>5 DEF Pipes, Over, a, b
<1>24. Outcomes'
  BY <1>2, <1>14 DEF Outcomes, DiesForAReason, Over, Shut
<1> QED
  BY <1>17, <1>18, <1>19, <1>20, <1>21, <1>22, <1>23, <1>24 DEF Inv

\* From the socketpair to the inbound stream of the copy.
LEMMA CopyFromSocketKeeps == Inv /\ CopyFromSocket => Inv'
<1> SUFFICES ASSUME Inv, CopyFromSocket PROVE Inv'
  OBVIOUS
<1> /\ Types /\ CopyResults /\ RulesLeft /\ CopyOut /\ CopyIn /\ Flags /\ Leaving /\ SockResults
    /\ SockOut /\ SockIn /\ Ending /\ InputEnds /\ Pipes /\ Outcomes
  BY DEF Inv
<1> DEFINE limit == RemainingCapacity(app.inbound)
           got == PairGot(pair, "app", limit)
           left == PairRead(pair, "app", limit).queue.app
           end == app.socket.eof \/ (limit > 0 /\ got = <<>>)
           w == Write(app.inbound, got)
           n == ToWrite(app.inbound, got)
<1>2. UNCHANGED <<load, sock, abort, arrival, stdin, stdout, outcome>> /\ app.pc = "copying"
      /\ app.loop.todo[3] = "ready" /\ app' = FromSocket(app, got) /\ pair' = PairRead(pair, "app", limit)
  BY DEF CopyFromSocket, CopyTurn, Turn
<1>3. app \in Copies /\ app.inbound \in Streams(Bytes) /\ pair \in Pairs
  BY CopyParts DEF Types
<1>4. limit \in Nat
  BY <1>3, Sizes
<1>5. ReadFrom(pair.queue.app, limit, got, left)
      /\ pair' \in Pairs /\ pair'.queue.app = left /\ pair'.queue.tcp = pair.queue.tcp
      /\ pair'.noRead = pair.noRead /\ pair'.noWrite = pair.noWrite
  BY <1>2, <1>3, <1>4, AppReads
<1> HIDE DEF got, left
<1>6. /\ got \in Seq(Bytes) /\ left \in Seq(Bytes) /\ pair.queue.app = got \o left /\ Len(got) <= limit
      /\ Len(left) <= Len(pair.queue.app)
      /\ pair.queue.app = <<>> => got = <<>> /\ left = <<>>
      /\ limit > 0 /\ got = <<>> => pair.queue.app = <<>>
  BY <1>5 DEF ReadFrom
<1>7. ~app.inbound.isInputEnd /\ ~app.socket.eof /\ ~app.output.closed /\ (pair.queue.app # <<>> \/ pair.noRead.app)
  BY <1>2 DEF CopyResults, CopyIn, Eof
<1>8. /\ Besides(app, app', 3) /\ app'.input = app.input /\ app'.output = app.output /\ app'.outbound = app.outbound
      /\ app'.socket.eof = end /\ app'.socket.closed = app.socket.closed
      /\ app'.inbound = IF end THEN EndInput(w) ELSE w
      /\ app'.outboundShutdown = app.outboundShutdown
  BY <1>2, <1>3, <1>6, FromSocketIs
<1>9. n = Len(got)
  BY <1>3, <1>6, <1>7, WriteAll
<1>10. WrittenTo(app.inbound, got, n, w)
  BY <1>3, <1>6, WriteIs
<1>11. SubSeq(got, 1, n) = got
  BY <1>6, <1>9, WholeSubSeq
<1> HIDE DEF w, n, limit
<1>12. /\ w \in Streams(Bytes) /\ w.buf = app.inbound.buf \o got
       /\ w.isInputEnd = app.inbound.isInputEnd /\ w.capacity = app.inbound.capacity /\ w.error = app.inbound.error
  BY <1>10, <1>11 DEF WrittenTo
<1>13. end => pair'.queue.app = <<>> /\ (sock.inboundShutdown \/ Over)
  <2>1. end => pair.queue.app = <<>> /\ pair.noRead.app
    BY <1>6, <1>7
  <2> QED
    BY <1>2, <1>5, <1>6, <2>1 DEF Flags, Shut
<1>14. end \in BOOLEAN
  BY <1>3, CopyParts DEF Fds
<1> HIDE DEF end
<1>15. /\ app'.inbound.buf = w.buf /\ app'.inbound.capacity = w.capacity
       /\ app'.inbound.error = w.error /\ app'.inbound.isInputEnd = end
  <2>1. CASE end
    BY <1>8, <1>12, <1>14, <2>1, FlagIs
  <2>2. CASE ~end
    BY <1>7, <1>8, <1>12, <1>14, <2>2 DEF Streams
  <2> QED
    BY <1>14, <2>1, <2>2
<1>16. /\ app' \in Copies /\ app'.loop.rules = app.loop.rules /\ app'.loop.todo[3] = "none"
       /\ \A q \in Rules : q # 3 => app'.loop.todo[q] = app.loop.todo[q]
       /\ app'.pc = app.pc /\ app'.threw = app.threw
  BY <1>8 DEF Besides
<1>17. Types'
  BY <1>2, <1>5, <1>16 DEF Types
<1>18. CopyResults'
  BY <1>2, <1>16, SMTT(30) DEF CopyResults, Over, InputRead, Rules
<1>19. RulesLeft'
  BY <1>2, <1>7, <1>8, <1>16 DEF RulesLeft, Over
<1>20. CopyIn'
  BY <1>2, <1>7, <1>8, <1>12, <1>13, <1>15 DEF CopyIn, Over
<1>21. Flags'
  <2>1. Len(pair'.queue.app) <= PairCapacity
    <3>1. pair.queue.app \in Seq(Bytes)
      BY <1>3, PairParts
    <3>2. Len(pair.queue.app) \in Nat /\ Len(left) \in Nat /\ PairCapacity \in Nat
      BY <1>6, <3>1, SeqIsFunction, SocketAssumption
    <3>3. Len(pair.queue.app) <= PairCapacity
      BY DEF Flags
    <3> QED
      BY <1>5, <1>6, <3>2, <3>3, SMTT(30)
  <2> QED
    BY <1>2, <1>5, <1>8, <1>16, <2>1 DEF Flags, Over, Shut
<1>22. CopyOut' /\ Leaving'
  BY <1>2, <1>8, <1>16 DEF CopyOut, Leaving, Over, InputRead
<1>23. SockResults' /\ SockOut' /\ SockIn' /\ Ending' /\ InputEnds'
  BY <1>2, <1>5, <1>8 DEF SockResults, SockOut, SockIn, Ending, InputEnds, InputRead
<1>24. Pipes'
  <2> DEFINE a == stdout.got
             b == app.inbound.buf
             d == sock.tcp.inbound.buf
  <2>1. a \in Seq(Bytes) /\ b \in Seq(Bytes) /\ d \in Seq(Bytes)
    <3>1. d \in Seq(Bytes)
      BY SockParts, Sizes DEF Types
    <3>2. a \in Seq(Bytes)
      BY DEF Types
    <3> QED
      BY <1>3, <3>1, <3>2, Sizes
  <2>2. MovesToB(a, b, left, d, got)
    BY <1>6, <2>1, LineMoves
  <2>3. Line(a, app'.inbound.buf, pair'.queue.app, d) = Line(a, b, pair.queue.app, d)
    BY <1>5, <1>6, <1>12, <1>15, <2>2 DEF MovesToB
  <2> HIDE DEF a, b, d
  <2>4. InLine(a, app'.inbound.buf, pair'.queue.app, d, 0, sock.tcp.inbound.numWritten)
    BY <2>3 DEF Pipes, InLine, a, b, d
  <2> QED
    BY <1>2, <1>5, <1>8, <2>4 DEF Pipes, Over, a, d
<1>25. Outcomes'
  BY <1>2, <1>16 DEF Outcomes, DiesForAReason, Over, Shut
<1> QED
  BY <1>17, <1>18, <1>19, <1>20, <1>21, <1>22, <1>23, <1>24, <1>25 DEF Inv

\* From the outbound stream of the copy to the socketpair.
LEMMA CopyToSocketKeeps == Inv /\ CopyToSocket => Inv'
<1> SUFFICES ASSUME Inv, CopyToSocket PROVE Inv'
  OBVIOUS
<1> /\ Types /\ CopyResults /\ RulesLeft /\ CopyOut /\ CopyIn /\ Flags /\ Leaving /\ SockResults
    /\ SockOut /\ SockIn /\ Ending /\ InputEnds /\ Pipes /\ Outcomes
  BY DEF Inv
<1> DEFINE data == app.outbound.buf
           n == PairTakes(pair, "app", data)
           q == PairWrite(pair, "app", data)
           front == SubSeq(data, 1, n)
<1>2. Running /\ app.pc = "copying"
  BY DEF CopyToSocket, CopyTurn
<1>3. app \in Copies /\ app.outbound \in Streams(Bytes) /\ pair \in Pairs /\ data \in Seq(Bytes)
      /\ app.outbound.size = Len(data) /\ (app.outbound.size = 0 <=> data = <<>>)
  BY CopyParts, Sizes DEF Types
<1>4. CASE Sigpipe(pair, "app", data)
  <2>1. UNCHANGED <<load, app, sock, pair, abort, arrival, stdin, stdout>> /\ outcome' = "killed"
    BY <1>4 DEF CopyToSocket, Die
  <2>2. data # <<>> /\ pair.noWrite.app
    BY <1>3, <1>4, PairParts DEF Sigpipe
  <2>3. ~app.outboundShutdown /\ ~Shut
    BY <1>2, <1>3, <2>2 DEF CopyOut, Eof, Shut
  <2>4. Over /\ sock.main /\ ~abort
    BY <1>2, <2>2, <2>3 DEF Flags, Leaving
  <2>5. ~sock.tcp.active
    BY <2>4 DEF Ending, Over
  <2>6. sock.tcp.inbound.error \/ Complete(sock.tcp)
    BY <2>5 DEF Ending
  <2>7. Complete(sock.tcp) => app.outboundShutdown
    BY DEF Complete, Eof, SockOut
  <2>8. Outcomes'
    BY <2>1, <2>3, <2>6, <2>7 DEF Outcomes, DiesForAReason
  <2> QED
    BY <2>1, <2>8, EndsWell
<1>5. CASE ~Sigpipe(pair, "app", data)
  <2>1. UNCHANGED <<load, sock, abort, arrival, stdin, stdout, outcome>> /\ app' = ToSocket(app, n)
        /\ pair' = IF app'.outboundShutdown THEN ShutWrite(q, "app") ELSE q
    BY <1>5 DEF CopyToSocket
  <2>2. /\ n \in 0..Len(data) /\ q \in Pairs
        /\ q.queue.tcp = pair.queue.tcp \o front /\ q.queue.app = pair.queue.app
        /\ q.noRead = pair.noRead /\ q.noWrite = pair.noWrite /\ Len(q.queue.tcp) <= PairCapacity
    <3>1. Len(pair.queue.tcp) <= PairCapacity
      BY DEF Flags
    <3> QED
      BY <1>3, <3>1, AppWrites
  <2> HIDE DEF n, q, front
  <2>3. /\ Besides(app, app', 2) /\ app'.input = app.input /\ app'.socket = app.socket /\ app'.output = app.output
        /\ app'.inbound = app.inbound /\ PoppedTo(app.outbound, n, app'.outbound)
        /\ app'.outboundShutdown = (app.outboundShutdown \/ Eof(app'.outbound))
    BY <1>3, <2>1, <2>2, ToSocketIs
  <2>4. /\ app'.outbound \in Streams(Bytes) /\ data = front \o app'.outbound.buf
        /\ app'.outbound.size = app.outbound.size - n
        /\ app'.outbound.isInputEnd = app.outbound.isInputEnd /\ app'.outbound.capacity = app.outbound.capacity
        /\ app'.outbound.error = app.outbound.error
    BY <2>3 DEF PoppedTo, front
  <2>5. /\ app' \in Copies /\ app'.loop.rules = app.loop.rules /\ app'.loop.todo[2] = "none"
        /\ \A r \in Rules : r # 2 => app'.loop.todo[r] = app.loop.todo[r]
        /\ app'.pc = app.pc /\ app'.threw = app.threw
    BY <2>3 DEF Besides
  <2>6. /\ pair' \in Pairs /\ pair'.queue = q.queue
        /\ pair'.noRead.app = pair.noRead.app /\ pair'.noWrite.tcp = pair.noWrite.tcp
        /\ pair.noRead.tcp => pair'.noRead.tcp
        /\ pair'.noRead.tcp \/ pair'.noWrite.app =>
             app'.outboundShutdown \/ pair.noRead.tcp \/ pair.noWrite.app
    <3>1. CASE app'.outboundShutdown
      <4> DEFINE s == ShutWrite(q, "app")
      <4>1. pair' = s
        BY <2>1, <3>1
      <4>2. /\ s \in Pairs /\ s.queue = q.queue /\ s.noWrite.app = TRUE /\ s.noRead.tcp = TRUE
            /\ s.noWrite.tcp = q.noWrite.tcp /\ s.noRead.app = q.noRead.app
        BY <2>2, Shuts
      <4> HIDE DEF s
      <4> QED
        BY <2>2, <3>1, <4>1, <4>2
    <3>2. CASE ~app'.outboundShutdown
      BY <2>1, <2>2, <3>2
    <3> QED
      BY <3>1, <3>2
  <2>7. front \in Seq(Bytes) /\ (data = <<>> => front = <<>>)
    <3>1. front \in Seq(Bytes) /\ Len(front) = n
      BY <1>3, <2>2, PrefixType DEF front
    <3>2. data = <<>> => n = 0
      BY <2>2, SMTT(30)
    <3> QED
      BY <3>1, <3>2, EmptyIsSeq
  <2>8. app.outboundShutdown => data = <<>> /\ Eof(app'.outbound)
    BY <1>3, <2>2, <2>4, SMTT(30) DEF CopyOut, Eof
  <2>9. Types'
    BY <2>1, <2>5, <2>6 DEF Types
  <2>10. CopyResults'
    BY <2>1, <2>2, <2>3, <2>5, <2>6, SMTT(30) DEF CopyResults, Over, InputRead, Rules
  <2>11. RulesLeft'
    BY <2>1, <2>3, <2>4, <2>5 DEF RulesLeft, Over
  <2>12. CopyOut'
    BY <2>1, <2>3, <2>4, <2>8 DEF CopyOut, Over, InputRead
  <2>13. CopyIn'
    BY <2>1, <2>2, <2>3, <2>6 DEF CopyIn, Over
  <2>14. Flags'
    BY <2>1, <2>2, <2>3, <2>5, <2>6 DEF Flags, Over, Shut
  <2>15. Leaving'
    BY <2>1, <2>3, <2>5 DEF Leaving, Over
  <2>16. SockOut'
    <3>1. sock.threadData.eof => q.queue.tcp = <<>>
      BY <2>2, <2>7, <2>8, SMTT(30) DEF SockOut
    <3> QED
      BY <2>1, <2>3, <2>6, <3>1 DEF SockOut, InputRead
  <2>17. SockResults'
    <3>1. q.queue.tcp = <<>> => pair.queue.tcp = <<>>
      <4> DEFINE b == pair.queue.tcp
      <4>1. b \in Seq(Bytes)
        BY <1>3, PairParts
      <4>2. q.queue.tcp = b \o front
        BY <2>2
      <4> HIDE DEF b
      <4>3. Len(b \o front) = Len(b) + Len(front) /\ Len(b) \in Nat /\ Len(front) \in Nat
        BY <2>7, <4>1, ConcatElements, SeqIsFunction
      <4>4. b \o front = <<>> => Len(b) = 0
        BY <4>3, SMTT(30)
      <4> QED
        BY <4>1, <4>2, <4>4, EmptyIsSeq DEF b
    <3> QED
      BY <2>1, <2>6, <3>1 DEF SockResults
  <2>18. SockIn' /\ Ending' /\ InputEnds'
    BY <2>1 DEF SockIn, Ending, InputEnds
  <2>19. Pipes'
    <3> DEFINE a == sock.tcp.outbound.buf
               b == pair.queue.tcp
               c == app'.outbound.buf
               d == stdin.ready
    <3>1. a \in Seq(Bytes) /\ b \in Seq(Bytes) /\ c \in Seq(Bytes) /\ d \in Seq(Bytes)
      <4>1. a \in Seq(Bytes)
        BY SockParts, Sizes DEF Types
      <4>2. b \in Seq(Bytes)
        BY <1>3, PairParts
      <4>3. d \in Seq(Bytes)
        BY DEF Types
      <4> QED
        BY <2>4, <4>1, <4>2, <4>3, Sizes
    <3>2. MovesToB(a, b, c, d, front)
      BY <2>7, <3>1, LineMoves
    <3>3. Line(a, pair'.queue.tcp, c, d) = Line(a, b, data, d)
      BY <2>2, <2>4, <2>6, <3>2 DEF MovesToB
    <3> HIDE DEF a, b, c, d
    <3>4. ~Over \/ sock.threadData.eof =>
            InLine(a, pair'.queue.tcp, c, d, sock.tcp.outbound.numRead, stdin.fed - sock.tcp.outbound.numRead)
      BY <3>3 DEF Pipes, InLine, a, b, d
    <3> QED
      BY <2>1, <2>2, <2>3, <2>6, <3>4 DEF Pipes, Over, a, c, d
  <2>20. Outcomes'
    BY <1>2, <2>1 DEF Outcomes, DiesForAReason, Running
  <2> QED
    BY <2>9, <2>10, <2>11, <2>12, <2>13, <2>14, <2>15, <2>16, <2>17, <2>18, <2>19, <2>20 DEF Inv
<1> QED
  BY <1>4, <1>5

\* From the inbound stream of the copy to stdout.
LEMMA CopyToOutputKeeps == Inv /\ CopyToOutput => Inv'
<1> SUFFICES ASSUME Inv, CopyToOutput PROVE Inv'
  OBVIOUS
<1> /\ Types /\ CopyResults /\ RulesLeft /\ CopyOut /\ CopyIn /\ Flags /\ Leaving /\ SockResults
    /\ SockOut /\ SockIn /\ Ending /\ InputEnds /\ Pipes /\ Outcomes
  BY DEF Inv
<1> DEFINE data == app.inbound.buf
<1>2. Running /\ app.pc = "copying"
  BY DEF CopyToOutput, CopyTurn
<1>3. app \in Copies /\ app.inbound \in Streams(Bytes) /\ data \in Seq(Bytes)
      /\ app.inbound.size = Len(data) /\ stdout \in [got : Seq(Bytes), broken : BOOLEAN]
  BY CopyParts, Sizes DEF Types
<1>4. CASE stdout.broken /\ data # <<>>
  <2>1. UNCHANGED <<load, app, sock, pair, abort, arrival, stdin, stdout>> /\ outcome' = "killed"
    BY <1>4 DEF CopyToOutput, Die
  <2>2. Outcomes'
    BY <1>4, <2>1 DEF Outcomes, DiesForAReason
  <2> QED
    BY <2>1, <2>2, EndsWell
<1>5. CASE ~(stdout.broken /\ data # <<>>)
  <2>1. UNCHANGED <<load, sock, pair, abort, arrival, stdin, outcome>>
    BY <1>5 DEF CopyToOutput
  <2>2. PICK n \in 0..Len(data) : app' = ToOutput(app, n) /\ stdout' = [stdout EXCEPT !.got = @ \o SubSeq(data, 1, n)]
    BY <1>5 DEF CopyToOutput
  <2> DEFINE front == SubSeq(data, 1, n)
  <2>3. /\ Besides(app, app', 4) /\ app'.input = app.input /\ app'.socket = app.socket
        /\ app'.outbound = app.outbound /\ PoppedTo(app.inbound, n, app'.inbound)
        /\ app'.output.closed = (app.output.closed \/ Eof(app'.inbound))
        /\ app'.outboundShutdown = app.outboundShutdown
    BY <1>3, <2>2, ToOutputIs
  <2>4. /\ app'.inbound \in Streams(Bytes) /\ data = front \o app'.inbound.buf
        /\ app'.inbound.size = app.inbound.size - n
        /\ app'.inbound.isInputEnd = app.inbound.isInputEnd /\ app'.inbound.capacity = app.inbound.capacity
        /\ app'.inbound.error = app.inbound.error
    BY <2>3 DEF PoppedTo
  <2>5. /\ app' \in Copies /\ app'.loop.rules = app.loop.rules /\ app'.loop.todo[4] = "none"
        /\ \A r \in Rules : r # 4 => app'.loop.todo[r] = app.loop.todo[r]
        /\ app'.pc = app.pc /\ app'.threw = app.threw
    BY <2>3 DEF Besides
  <2>6. front \in Seq(Bytes)
    BY <1>3, PrefixType
  <2>7. stdout' \in [got : Seq(Bytes), broken : BOOLEAN] /\ stdout'.got = stdout.got \o front /\ stdout'.broken = stdout.broken
    <3> DEFINE new == stdout.got \o front
    <3>1. stdout' = [stdout EXCEPT !.got = new]
      BY <2>2
    <3>2. new \in Seq(Bytes)
      BY <1>3, <2>6, ConcatElements
    <3> HIDE DEF new
    <3>3. stdout' \in [got : Seq(Bytes), broken : BOOLEAN] /\ stdout'.got = new /\ stdout'.broken = stdout.broken
      BY <1>3, <3>1, <3>2
    <3> QED
      BY <3>3 DEF new
  <2> HIDE DEF front
  <2>8. Types'
    BY <2>1, <2>5, <2>7 DEF Types
  <2>9. CopyResults'
    <3>1. /\ app'.loop.todo[1] = app.loop.todo[1] /\ app'.loop.todo[2] = app.loop.todo[2]
          /\ app'.loop.todo[3] = app.loop.todo[3] /\ app'.loop.todo[4] # "defunct"
      BY <2>5, SMTT(30) DEF Rules
    <3>2. ASSUME NEW r \in Rules, app'.loop.todo[r] = "error" PROVE stdout'.broken
      <4>1. r # 4
        BY <2>5, <3>2, SMTT(30)
      <4> QED
        BY <2>5, <2>7, <3>2, <4>1 DEF CopyResults
    <3> QED
      BY <2>1, <2>4, <3>1, <3>2 DEF CopyResults, Over, InputRead
  <2>10. RulesLeft' /\ CopyOut'
    BY <2>1, <2>3, <2>5 DEF RulesLeft, CopyOut, Over, InputRead
  <2>11. CopyIn'
    <3>1. app.output.closed => Eof(app'.inbound)
      BY <1>3, <2>4, SMTT(30) DEF CopyIn, Eof
    <3> QED
      BY <2>1, <2>3, <2>4, <3>1 DEF CopyIn, Over
  <2>12. Flags' /\ Leaving'
    BY <1>2, <2>1, <2>3, <2>5, <2>7 DEF Flags, Leaving, Over, Shut
  <2>13. SockResults' /\ SockOut' /\ SockIn' /\ Ending' /\ InputEnds'
    BY <2>1, <2>3 DEF SockResults, SockOut, SockIn, Ending, InputEnds, InputRead
  <2>14. Pipes'
    <3> DEFINE a == stdout.got
               b == app'.inbound.buf
               c == pair.queue.app
               d == sock.tcp.inbound.buf
    <3>1. a \in Seq(Bytes) /\ b \in Seq(Bytes) /\ c \in Seq(Bytes) /\ d \in Seq(Bytes)
      <4>1. d \in Seq(Bytes)
        BY SockParts, Sizes DEF Types
      <4>2. c \in Seq(Bytes)
        BY PairParts DEF Types
      <4> QED
        BY <1>3, <2>4, <4>1, <4>2, Sizes
    <3>2. MovesToA(a, b, c, d, front)
      BY <2>6, <3>1, LineMoves
    <3>3. Line(stdout'.got, b, c, d) = Line(a, data, c, d)
      BY <2>4, <2>7, <3>2 DEF MovesToA
    <3> HIDE DEF a, b, c, d
    <3>4. InLine(stdout'.got, b, c, d, 0, sock.tcp.inbound.numWritten)
      BY <3>3 DEF Pipes, InLine, a, c, d
    <3> QED
      BY <2>1, <2>3, <3>4 DEF Pipes, Over, b, c, d
  <2>15. Outcomes'
    BY <1>2, <2>1 DEF Outcomes, DiesForAReason, Running
  <2> QED
    BY <2>8, <2>9, <2>10, <2>11, <2>12, <2>13, <2>14, <2>15 DEF Inv
<1> QED
  BY <1>4, <1>5

\* When the input of a stream has ended, ending it changes nothing.
LEMMA EndedAlready ==
  ASSUME NEW s \in Streams(Bytes), s.isInputEnd
  PROVE  EndInput(s) = s
BY DEF EndInput, Streams

\* wait_next_event() of the copy cancels only rules whose cancel() callback does nothing any more.
LEMMA CopyPolls ==
  ASSUME Types, RulesLeft, CopyOut, CopyIn
  PROVE  LET setup == CopySetUp(app)
         IN  /\ setup.s = app /\ setup.rules \in SUBSET Rules
             /\ 1 \in setup.rules \/ app.outbound.isInputEnd
             /\ 2 \in setup.rules \/ Over
             /\ 3 \in setup.rules <=> ~app.socket.eof /\ 3 \in app.loop.rules
             /\ 3 \in setup.rules \/ app.socket.eof
             /\ 4 \in setup.rules \/ app.output.closed
             /\ setup.polled = {r \in setup.rules : CopyInterest(app, r)}
<1> DEFINE setup == CopySetUp(app)
<1>1. app \in Copies /\ app.outbound \in Streams(Bytes) /\ app.inbound \in Streams(Bytes)
      /\ app.loop.rules \in SUBSET Rules
  BY CopyParts DEF Types
<1>2. /\ app["input"] = app.input /\ app["socket"] = app.socket /\ app["output"] = app.output
  BY <1>1 DEF Copies
<1>3. /\ CopyUsedUp(app, 1) = (app.input.eof \/ app.input.closed)
      /\ CopyUsedUp(app, 2) = app.socket.closed
      /\ CopyUsedUp(app, 3) = (app.socket.eof \/ app.socket.closed)
      /\ CopyUsedUp(app, 4) = app.output.closed
  <2>1. app.input \in Fds /\ app.socket \in Fds /\ app.output \in Fds
    BY <1>1, CopyParts
  <2> QED
    BY <1>2, <2>1 DEF CopyUsedUp, CopyDirection, CopyFd, Fds
<1>4. ASSUME NEW r \in Rules, CopyUsedUp(app, r) PROVE CopyCancel(app, r) = app
  <2>1. CASE r = 1
    <3>1. app.outbound.isInputEnd
      BY <1>3, <1>4, <2>1 DEF CopyOut
    <3>2. EndInput(app.outbound) = app.outbound
      BY <1>1, <3>1, EndedAlready
    <3>3. CopyCancel(app, r) = [app EXCEPT !.outbound = app.outbound]
      BY <2>1, <3>2 DEF CopyCancel
    <3> QED
      BY <1>1, <3>3 DEF Copies
  <2>2. CASE r = 2
    BY <1>3, <1>4, <2>2 DEF CopyIn
  <2>3. CASE r \in {3, 4}
    <3>1. app.inbound.isInputEnd
      BY <1>3, <1>4, <2>3 DEF CopyIn, Eof
    <3>2. EndInput(app.inbound) = app.inbound
      BY <1>1, <3>1, EndedAlready
    <3>3. CopyCancel(app, r) = [app EXCEPT !.inbound = app.inbound]
      BY <2>3, <3>2, SMTT(30) DEF CopyCancel
    <3> QED
      BY <1>1, <3>3 DEF Copies
  <2> QED
    BY <2>1, <2>2, <2>3, SMTT(30) DEF Rules
<1>5. /\ setup.s = app
      /\ setup.rules = {r \in app.loop.rules : ~CopyUsedUp(app, r)}
      /\ setup.polled = {r \in setup.rules : CopyInterest(app, r)}
  BY <1>1, <1>4, CopySetUpIs
<1> HIDE DEF setup
<1>6. setup.rules \in SUBSET Rules
  BY <1>1, <1>5
<1>7. /\ 1 \in setup.rules \/ app.outbound.isInputEnd
      /\ 2 \in setup.rules \/ Over
      /\ 3 \in setup.rules <=> ~app.socket.eof /\ 3 \in app.loop.rules
      /\ 3 \in setup.rules \/ app.socket.eof
      /\ 4 \in setup.rules \/ app.output.closed
  BY <1>3, <1>5 DEF RulesLeft, CopyOut, CopyIn
<1> QED
  BY <1>5, <1>6, <1>7 DEF setup

\* The interest of each rule of the copy.
LEMMA CopyInterests ==
  ASSUME NEW o
  PROVE  /\ CopyInterest(o, 1) <=> Accepting(o.outbound, o.inbound)
         /\ CopyInterest(o, 2) <=> Pending(o.outbound, o.outboundShutdown)
         /\ CopyInterest(o, 3) <=> Accepting(o.inbound, o.outbound)
         /\ CopyInterest(o, 4) <=> Pending(o.inbound, o.inboundShutdown)
<1>1. CopyInterest(o, 1) <=> Accepting(o.outbound, o.inbound)
  BY SMTT(30) DEF CopyInterest
<1>2. CopyInterest(o, 2) <=> Pending(o.outbound, o.outboundShutdown)
  BY SMTT(30) DEF CopyInterest
<1>3. CopyInterest(o, 3) <=> Accepting(o.inbound, o.outbound)
  BY SMTT(30) DEF CopyInterest
<1>4. CopyInterest(o, 4) <=> Pending(o.inbound, o.inboundShutdown)
  BY SMTT(30) DEF CopyInterest
<1> QED
  BY <1>1, <1>2, <1>3, <1>4

\* With nothing left to poll, all of the peer's stream has been written, and the end of ours passed on.
LEMMA CopyOver ==
  ASSUME Types, CopyOut, CopyIn, NEW R \in SUBSET Rules,
         1 \in R \/ app.outbound.isInputEnd, 2 \in R \/ Over, 3 \in R \/ app.socket.eof, 4 \in R \/ app.output.closed,
         {r \in R : CopyInterest(app, r)} = {}
  PROVE  app.socket.eof /\ app.inbound.size = 0 /\ (app.outboundShutdown \/ Over)
<1>1. app.outbound \in Streams(Bytes) /\ app.inbound \in Streams(Bytes)
  BY CopyParts DEF Types
<1>2. app.outbound.size \in Nat /\ app.inbound.size \in Nat /\ CopyCapacity \in Nat /\ CopyCapacity > 0
  BY <1>1, Sizes, SocketAssumption, SMTT(30)
<1>3. RemainingCapacity(app.outbound) = CopyCapacity - app.outbound.size
      /\ RemainingCapacity(app.inbound) = CopyCapacity - app.inbound.size
  BY DEF RemainingCapacity, CopyOut, CopyIn
<1> DEFINE m == app.outbound.size
           n == app.inbound.size
<1>4. \A r \in R : ~CopyInterest(app, r)
  OBVIOUS
<1>5. n = 0
  <2>1. 4 \in R => n = 0
    BY <1>2, <1>4, CopyInterests, SMTT(30) DEF Pending
  <2>2. app.output.closed => n = 0
    BY DEF CopyIn, Eof
  <2> QED
    BY <2>1, <2>2
<1>6. app.socket.eof
  <2>1. 3 \in R => ~Accepting(app.inbound, app.outbound)
    BY <1>4, CopyInterests
  <2>2. Accepting(app.inbound, app.outbound)
    BY <1>2, <1>3, <1>5, SMTT(30) DEF Accepting, CopyOut, CopyIn
  <2> QED
    BY <2>1, <2>2
<1>7. app.outboundShutdown \/ Over
  <2> SUFFICES ASSUME ~app.outboundShutdown, ~Over PROVE FALSE
    OBVIOUS
  <2>1. ~Pending(app.outbound, app.outboundShutdown)
    BY <1>4, CopyInterests
  <2>2. m = 0 /\ ~app.outbound.isInputEnd
    BY <1>2, <2>1, SMTT(30) DEF Pending, Eof
  <2>3. ~Accepting(app.outbound, app.inbound)
    BY <1>4, <2>2, CopyInterests
  <2> QED
    BY <1>2, <1>3, <2>2, <2>3, SMTT(30) DEF Accepting, CopyOut, CopyIn
<1> QED
  BY <1>5, <1>6, <1>7

\* What poll() says to the copy.
LEMMA CopyPolled ==
  ASSUME Types, CopyOut, CopyIn, Flags, ~Shut, NEW R \in SUBSET Rules, 3 \in R => ~app.socket.eof
  PROVE  LET todo == Results(R, {r \in R : CopyInterest(app, r)}, CopyDirection, CopyRevents)
         IN  /\ todo \in [Rules -> Verdicts]
             /\ todo[1] = "ready" => stdin.ready # <<>> \/ stdin.closed
             /\ todo[1] = "defunct" => InputRead
             /\ todo[2] = "defunct" => Over
             /\ todo[3] = "ready" => ~app.inbound.isInputEnd /\ (pair.queue.app # <<>> \/ pair.noRead.app)
             /\ todo[3] # "defunct" /\ todo[4] # "defunct"
             /\ \A r \in Rules : todo[r] = "error" => stdout.broken
<1> DEFINE polled == {r \in R : CopyInterest(app, r)}
           todo == Results(R, polled, CopyDirection, CopyRevents)
           events == PairEvents(pair, "app")
<1>1. todo \in [Rules -> Verdicts]
  BY DEF Results, Verdict, Verdicts
<1>2. \A r \in Rules : todo[r] = IF r \in R THEN Verdict(r, polled, CopyDirection, CopyRevents) ELSE "none"
  BY DEF Results
<1> HIDE DEF todo, polled
<1>3. /\ "ERR" \notin events
      /\ "IN" \in events <=> pair.queue.app # <<>> \/ pair.noRead.app
      /\ "HUP" \in events => pair.noRead.app /\ pair.noWrite.app
  <2>1. pair \in Pairs
    BY DEF Types
  <2> QED
    BY <2>1, PairParts DEF PairEvents
<1> HIDE DEF events
<1>4. /\ todo[1] = "ready" => "IN" \in InputEvents
      /\ todo[1] = "defunct" => "IN" \notin InputEvents /\ "HUP" \in InputEvents
      /\ todo[1] # "error"
  <2>1. CopyDirection[1] = "IN" /\ CopyRevents[1] = InputEvents
    BY DEF CopyDirection, CopyRevents
  <2>2. "ERR" \notin InputEvents
    BY DEF InputEvents
  <2> QED
    BY <1>2, <2>1, <2>2, SMTT(30) DEF Verdict, Rules
<1>5. /\ todo[2] = "defunct" => 2 \in polled /\ "HUP" \in events
      /\ todo[2] # "error"
  <2>1. CopyDirection[2] = "OUT" /\ CopyRevents[2] = events
    BY DEF CopyDirection, CopyRevents, events
  <2> QED
    BY <1>2, <1>3, <2>1, SMTT(30) DEF Verdict, Rules
<1>6. /\ todo[3] = "ready" => 3 \in R /\ "IN" \in events
      /\ todo[3] # "defunct" /\ todo[3] # "error"
  <2>1. CopyDirection[3] = "IN" /\ CopyRevents[3] = events
    BY DEF CopyDirection, CopyRevents, events
  <2> QED
    BY <1>2, <1>3, <2>1, SMTT(30) DEF Verdict, Rules
<1>7. /\ todo[4] = "error" => stdout.broken
      /\ todo[4] # "defunct"
  <2>1. CopyDirection[4] = "OUT" /\ CopyRevents[4] = OutputEvents
    BY DEF CopyDirection, CopyRevents
  <2>2. "OUT" \in OutputEvents /\ ("ERR" \in OutputEvents => stdout.broken)
    BY DEF OutputEvents
  <2> QED
    BY <1>2, <2>1, <2>2, SMTT(30) DEF Verdict, Rules
<1>8. todo[2] = "defunct" => Over
  <2> SUFFICES ASSUME todo[2] = "defunct", ~Over PROVE FALSE
    OBVIOUS
  <2>1. app.outboundShutdown
    BY <1>3, <1>5 DEF Flags
  <2>2. Pending(app.outbound, app.outboundShutdown)
    BY <1>5, SMTT(30) DEF polled, CopyInterest
  <2>3. app.outbound.size = 0
    BY <2>1 DEF CopyOut, Eof
  <2> QED
    BY <2>1, <2>2, <2>3, SMTT(30) DEF Pending
<1>9. /\ todo[1] = "ready" => stdin.ready # <<>> \/ stdin.closed
      /\ todo[1] = "defunct" => InputRead
  BY <1>4 DEF InputEvents, InputRead
<1>10. todo[3] = "ready" => ~app.inbound.isInputEnd /\ (pair.queue.app # <<>> \/ pair.noRead.app)
  BY <1>3, <1>6 DEF CopyIn
<1>11. \A r \in Rules : todo[r] = "error" => stdout.broken
  BY <1>4, <1>5, <1>6, <1>7, SMTT(30) DEF Rules
<1> QED
  BY <1>1, <1>6, <1>7, <1>8, <1>9, <1>10, <1>11 DEF todo, polled

\* The copy asks its rules and polls, or returns.
LEMMA CopyWaitKeeps == Inv /\ CopyWait => Inv'
<1> SUFFICES ASSUME Inv, CopyWait PROVE Inv'
  OBVIOUS
<1> /\ Types /\ CopyResults /\ RulesLeft /\ CopyOut /\ CopyIn /\ Flags /\ Leaving /\ SockResults
    /\ SockOut /\ SockIn /\ Ending /\ InputEnds /\ Pipes /\ Outcomes
  BY DEF Inv
<1> DEFINE setup == CopySetUp(app)
           todo == Results(setup.rules, setup.polled, CopyDirection, CopyRevents)
<1>2. UNCHANGED <<load, sock, pair, abort, arrival, stdin, stdout, outcome>> /\ Running /\ app.pc = "copying"
      /\ app.loop.todo = NothingToDo /\ AfterPoll(setup)
  BY DEF CopyWait
<1>3. /\ setup.s = app /\ setup.rules \in SUBSET Rules
      /\ 1 \in setup.rules \/ app.outbound.isInputEnd
      /\ 2 \in setup.rules \/ Over
      /\ 3 \in setup.rules <=> ~app.socket.eof /\ 3 \in app.loop.rules
      /\ 3 \in setup.rules \/ app.socket.eof
      /\ 4 \in setup.rules \/ app.output.closed
      /\ setup.polled = {r \in setup.rules : CopyInterest(app, r)}
  BY CopyPolls
<1> HIDE DEF setup
<1>4. app \in Copies /\ ~app.threw
  BY <1>2 DEF Types, Leaving
<1>5. /\ app' \in Copies /\ app'.loop.rules = setup.rules
      /\ app'.input = app.input /\ app'.socket = app.socket /\ app'.output = app.output
      /\ app'.outbound = app.outbound /\ app'.inbound = app.inbound
      /\ app'.outboundShutdown = app.outboundShutdown /\ ~app'.threw
      /\ \/ app'.pc = "closing" /\ setup.polled = {} /\ app'.loop.todo = NothingToDo
         \/ app'.pc = "copying" /\ app'.loop.todo = todo
  <2>1. CASE setup.polled = {}
    <3>1. app' = [app EXCEPT !.loop.rules = setup.rules, !.pc = "closing"]
      BY <1>2, <1>3, <2>1 DEF AfterPoll
    <3> QED
      BY <1>2, <1>3, <1>4, <2>1, <3>1 DEF Copies, Loops
  <2>2. CASE setup.polled # {}
    <3>1. app' = [app EXCEPT !.loop = [rules |-> setup.rules, todo |-> todo]]
      BY <1>2, <1>3, <2>2 DEF AfterPoll
    <3>2. todo \in [Rules -> Verdicts]
      BY DEF Results, Verdict, Verdicts
    <3> HIDE DEF todo
    <3> QED
      BY <1>2, <1>3, <1>4, <3>1, <3>2 DEF Copies, Loops
  <2> QED
    BY <2>1, <2>2
<1>6. Types'
  BY <1>2, <1>5 DEF Types
<1>7. CopyResults'
  <2>1. CASE app'.loop.todo = NothingToDo
    BY <1>2, <2>1, SMTT(30) DEF CopyResults, NothingToDo, Rules
  <2>2. CASE app'.loop.todo = todo
    <3>1. ~Shut
      BY <1>2 DEF Shut
    <3>2. /\ todo[1] = "ready" => stdin.ready # <<>> \/ stdin.closed
          /\ todo[1] = "defunct" => InputRead
          /\ todo[2] = "defunct" => Over
          /\ todo[3] = "ready" => ~app.inbound.isInputEnd /\ (pair.queue.app # <<>> \/ pair.noRead.app)
          /\ todo[3] # "defunct" /\ todo[4] # "defunct"
          /\ \A r \in Rules : todo[r] = "error" => stdout.broken
      BY <1>3, <3>1, CopyPolled
    <3> HIDE DEF todo
    <3> QED
      BY <1>2, <1>5, <2>2, <3>2 DEF CopyResults, Over, InputRead
  <2> QED
    BY <1>5, <2>1, <2>2
<1> HIDE DEF todo
<1>8. RulesLeft'
  BY <1>2, <1>3, <1>5 DEF RulesLeft, Over
<1>9. CopyOut' /\ CopyIn'
  BY <1>2, <1>5 DEF CopyOut, CopyIn, Over, InputRead
<1>10. Flags'
  BY <1>2, <1>5 DEF Flags, Over, Shut
<1>11. Leaving'
  <2>1. app'.pc = "closing" => app.socket.eof /\ app.inbound.size = 0 /\ (app.outboundShutdown \/ Over)
    BY <1>3, <1>5, CopyOver
  <2> QED
    BY <1>2, <1>4, <1>5, <2>1 DEF Leaving, Over
<1>12. SockResults' /\ SockOut' /\ SockIn' /\ Ending' /\ InputEnds'
  BY <1>2, <1>5 DEF SockResults, SockOut, SockIn, Ending, InputEnds, InputRead
<1>13. Pipes'
  BY <1>2, <1>5 DEF Pipes, Over
<1>14. Outcomes'
  BY <1>2 DEF Outcomes, DiesForAReason, Running
<1> QED
  BY <1>6, <1>7, <1>8, <1>9, <1>10, <1>11, <1>12, <1>13, <1>14 DEF Inv

(* The socket *)

\* The same for the loop of the TCP thread.
TcpAsked(o, k, rules, polled) ==
  /\ rules = {r \in o.loop.rules : r <= k => ~TcpUsedUp(o, r)}
  /\ polled = {r \in rules : r <= k /\ TcpInterest(o, r)}

\* One round of that loop.
LEMMA TcpAskIs ==
  ASSUME NEW o \in Sockets, NEW r \in Rules, NEW R, NEW P, TcpAsked(o, r - 1, R, P),
         TcpUsedUp(o, r) => TcpCancel(o, r) = o
  PROVE  \E R2, P2 : TcpAsked(o, r, R2, P2) /\ TcpAsk([s |-> o, rules |-> R, polled |-> P], r) = [s |-> o, rules |-> R2, polled |-> P2]
<1> DEFINE acc == [s |-> o, rules |-> R, polled |-> P]
           R2 == {q \in o.loop.rules : q <= r => ~TcpUsedUp(o, q)}
           P2 == {q \in R2 : q <= r /\ TcpInterest(o, q)}
           u == TcpUsedUp(o, r)
           i == TcpInterest(o, r)
<1>1. o.loop.rules \subseteq Rules /\ \A q \in Rules : q <= r <=> (q <= r - 1 \/ q = r)
  BY SockParts, SMTT(30) DEF Rules
<1>2. ~(r <= r - 1)
  BY SMTT(30) DEF Rules
<1>3. TcpAsk(acc, r) = IF r \notin R THEN acc
                        ELSE IF u THEN [s |-> TcpCancel(o, r), rules |-> R \ {r}, polled |-> P]
                             ELSE [s |-> o, rules |-> R, polled |-> IF i THEN P \cup {r} ELSE P]
  <2>1. acc.s = o /\ acc.rules = R /\ acc.polled = P
    OBVIOUS
  <2>2. TcpAsk(acc, r) = IF r \notin acc.rules THEN acc
                          ELSE IF TcpUsedUp(acc.s, r)
                               THEN [s |-> TcpCancel(acc.s, r), rules |-> acc.rules \ {r}, polled |-> acc.polled]
                               ELSE [acc EXCEPT !.polled = IF TcpInterest(acc.s, r) THEN acc.polled \cup {r} ELSE acc.polled]
    BY DEF TcpAsk, Asked
  <2>3. TcpAsk(acc, r) = IF r \notin R THEN acc
                          ELSE IF u THEN [s |-> TcpCancel(o, r), rules |-> R \ {r}, polled |-> P]
                               ELSE [acc EXCEPT !.polled = IF i THEN P \cup {r} ELSE P]
    <3> HIDE DEF acc
    <3> QED
      BY <2>1, <2>2
  <2> DEFINE P3 == IF i THEN P \cup {r} ELSE P
  <2>4. [acc EXCEPT !.polled = P3] = [s |-> o, rules |-> R, polled |-> P3]
    <3> HIDE DEF P3
    <3> QED
      BY SMTT(30)
  <2> QED
    BY <2>3, <2>4
<1>4. R2 = IF u THEN R \ {r} ELSE R
  BY <1>1, <1>2 DEF TcpAsked
<1>5. P2 = IF r \in R /\ ~u /\ i THEN P \cup {r} ELSE P
  BY <1>1, <1>2, <1>4 DEF TcpAsked
<1>6. TcpAsk(acc, r) = [s |-> o, rules |-> R2, polled |-> P2]
  <2> HIDE DEF R2, P2, u, i
  <2>1. CASE r \notin R
    <3>1. R2 = R
      BY <1>4, <2>1
    <3> QED
      BY <1>3, <1>5, <2>1, <3>1
  <2>2. CASE r \in R /\ u
    BY <1>3, <1>4, <1>5, <2>2 DEF u
  <2>3. CASE r \in R /\ ~u
    BY <1>3, <1>4, <1>5, <2>3
  <2> QED
    BY <2>1, <2>2, <2>3
<1>7. TcpAsked(o, r, R2, P2)
  BY DEF TcpAsked
<1> QED
  BY <1>6, <1>7

\* In the states of the invariant, preparing poll() leaves the socket as it is, too.
LEMMA TcpSetUpIs ==
  ASSUME NEW o \in Sockets, \A r \in Rules : TcpUsedUp(o, r) => TcpCancel(o, r) = o
  PROVE  LET setup == TcpSetUp(o)
         IN  /\ setup.s = o
             /\ setup.rules = {r \in o.loop.rules : ~TcpUsedUp(o, r)}
             /\ setup.polled = {r \in setup.rules : TcpInterest(o, r)}
<1> DEFINE A0 == [s |-> o, rules |-> o.loop.rules, polled |-> {}]
           setup == TcpSetUp(o)
<1>1. setup = TcpAsk(TcpAsk(TcpAsk(TcpAsk(A0, 1), 2), 3), 4)
  BY DEF TcpSetUp, Asking
<1>2. o.loop.rules \subseteq Rules
  BY SockParts
<1>3. TcpAsked(o, 0, o.loop.rules, {})
  BY <1>2, SMTT(30) DEF TcpAsked, Rules
<1>4. 1 \in Rules /\ 2 \in Rules /\ 3 \in Rules /\ 4 \in Rules
  BY SMTT(30) DEF Rules
<1>5. PICK R1, P1 : TcpAsked(o, 1, R1, P1) /\ TcpAsk(A0, 1) = [s |-> o, rules |-> R1, polled |-> P1]
  <2> DEFINE R0 == o.loop.rules
             P0 == {}
  <2>1. TcpAsked(o, 1 - 1, R0, P0)
    BY <1>3, SMTT(30)
  <2> HIDE DEF R0, P0
  <2>2. \E R1, P1 : TcpAsked(o, 1, R1, P1) /\ TcpAsk([s |-> o, rules |-> R0, polled |-> P0], 1) = [s |-> o, rules |-> R1, polled |-> P1]
    BY <1>4, <2>1, TcpAskIs, SMTT(30)
  <2> QED
    BY <2>2 DEF R0, P0
<1>6. PICK R2, P2 : TcpAsked(o, 2, R2, P2) /\ TcpAsk(TcpAsk(A0, 1), 2) = [s |-> o, rules |-> R2, polled |-> P2]
  <2>1. TcpAsked(o, 2 - 1, R1, P1)
    BY <1>5, SMTT(30)
  <2> QED
    BY <1>4, <1>5, <2>1, TcpAskIs, SMTT(30)
<1>7. PICK R3, P3 : TcpAsked(o, 3, R3, P3) /\ TcpAsk(TcpAsk(TcpAsk(A0, 1), 2), 3) = [s |-> o, rules |-> R3, polled |-> P3]
  <2>1. TcpAsked(o, 3 - 1, R2, P2)
    BY <1>6, SMTT(30)
  <2> QED
    BY <1>4, <1>6, <2>1, TcpAskIs, SMTT(30)
<1>8. PICK R4, P4 : TcpAsked(o, 4, R4, P4) /\ TcpAsk(TcpAsk(TcpAsk(TcpAsk(A0, 1), 2), 3), 4) = [s |-> o, rules |-> R4, polled |-> P4]
  <2>1. TcpAsked(o, 4 - 1, R3, P3)
    BY <1>7, SMTT(30)
  <2> QED
    BY <1>4, <1>7, <2>1, TcpAskIs, SMTT(30)
<1>9. \A r \in o.loop.rules : r <= 4
  BY <1>2, SMTT(30) DEF Rules
<1>10. R4 = {r \in o.loop.rules : ~TcpUsedUp(o, r)} /\ P4 = {r \in R4 : TcpInterest(o, r)}
  BY <1>8, <1>9 DEF TcpAsked
<1>11. setup = [s |-> o, rules |-> R4, polled |-> P4]
  BY <1>1, <1>8
<1> HIDE DEF setup
<1>12. setup.s = o /\ setup.rules = R4 /\ setup.polled = P4
  BY <1>11
<1> QED
  BY <1>10, <1>12 DEF setup

\* What the network and time may do to the connection: bytes come in at one end, unless it was
\* at its end, and bytes leave at the other, and it is over only when it may be.
Evolved(d, e, what) ==
  /\ e \in Connections
  /\ \E m \in Nat :
       /\ e.inbound.buf = d.inbound.buf \o Count(d.inbound.numWritten, m)
       /\ e.inbound.numWritten = d.inbound.numWritten + m /\ e.inbound.size = d.inbound.size + m
       /\ d.inbound.isInputEnd => m = 0
  /\ d.inbound.isInputEnd => e.inbound.isInputEnd
  /\ e.inbound.isInputEnd /\ ~d.inbound.isInputEnd =>
       what = "fin" /\ e.inbound.numWritten = d.inbound.numWritten
  /\ d.inbound.error => e.inbound.error
  /\ e.outbound.isInputEnd = d.outbound.isInputEnd
  /\ \E p \in Seq(Bytes) :
       d.outbound.buf = p \o e.outbound.buf /\ e.outbound.numRead = d.outbound.numRead + Len(p)
  /\ ~e.active => e.inbound.error \/ Complete(e) \/ e = d

\* An inbound stream that got no byte.
LEMMA SameBytes ==
  ASSUME NEW d \in Connections, NEW e \in Connections,
         e.inbound.buf = d.inbound.buf, e.inbound.numWritten = d.inbound.numWritten, e.inbound.size = d.inbound.size
  PROVE  \E m \in Nat :
           /\ e.inbound.buf = d.inbound.buf \o Count(d.inbound.numWritten, m)
           /\ e.inbound.numWritten = d.inbound.numWritten + m /\ e.inbound.size = d.inbound.size + m
           /\ d.inbound.isInputEnd => m = 0
<1>1. d.inbound \in Streams(Bytes)
  BY DEF Connections
<1>2. d.inbound.numWritten \in Nat /\ d.inbound.size \in Nat /\ d.inbound.buf \in Seq(Bytes)
  BY <1>1, Sizes
<1>3. Count(d.inbound.numWritten, 0) = <<>>
  <2>1. Count(d.inbound.numWritten, 0) \in Seq(Bytes) /\ Len(Count(d.inbound.numWritten, 0)) = 0
    BY <1>2, CountType
  <2> QED
    BY <2>1, EmptyIsSeq
<1>4. d.inbound.buf = d.inbound.buf \o <<>>
  BY <1>2, ConcatEmpty
<1>5. d.inbound.numWritten = d.inbound.numWritten + 0 /\ d.inbound.size = d.inbound.size + 0
  BY <1>2, SMTT(30)
<1> WITNESS 0 \in Nat
<1> QED
  BY <1>3, <1>4, <1>5

\* An outbound stream that gave no byte.
LEMMA NothingSent ==
  ASSUME NEW d \in Connections, NEW e \in Connections,
         e.outbound.buf = d.outbound.buf, e.outbound.numRead = d.outbound.numRead
  PROVE  \E p \in Seq(Bytes) :
           d.outbound.buf = p \o e.outbound.buf /\ e.outbound.numRead = d.outbound.numRead + Len(p)
<1>1. d.outbound \in Streams(Bytes)
  BY DEF Connections
<1>2. d.outbound.numRead \in Nat /\ d.outbound.buf \in Seq(Bytes)
  BY <1>1, Sizes
<1>3. d.outbound.buf = <<>> \o d.outbound.buf /\ <<>> \in Seq(Bytes) /\ Len(<<>>) = 0
  BY <1>2, ConcatEmpty, EmptyIsSeq
<1>4. d.outbound.numRead = d.outbound.numRead + Len(<<>>)
  BY <1>2, <1>3, SMTT(30)
<1>5. <<>> \in Seq(Bytes)
  BY <1>3
<1> WITNESS <<>> \in Seq(Bytes)
<1> QED
  BY <1>3, <1>4

\* Segments made of what the outbound stream holds.
LEMMA SentIs ==
  ASSUME NEW d \in Connections, NEW n \in Nat, NEW seg \in BOOLEAN
  PROVE  LET e == Sent(d, n, seg)
         IN  /\ e \in Connections /\ e.inbound = d.inbound /\ e.active = d.active
             /\ e.outbound.isInputEnd = d.outbound.isInputEnd
             /\ \E p \in Seq(Bytes) :
                  /\ d.outbound.buf = p \o e.outbound.buf /\ e.outbound.numRead = d.outbound.numRead + Len(p)
                  /\ e.outbound.size = d.outbound.size - Len(p)
<1> DEFINE e == Sent(d, n, seg)
           s == PopOutput(d.outbound, n)
           k == d.queued \/ n > 0 \/ seg
<1>1. d.outbound \in Streams(Bytes) /\ d.queued \in BOOLEAN
  BY DEF Connections
<1>2. PICK i \in 0..d.outbound.size : PoppedTo(d.outbound, i, s)
  BY <1>1, PopAny
<1>3. s \in Streams(Bytes) /\ d.outbound.buf = SubSeq(d.outbound.buf, 1, i) \o s.buf
      /\ s.numRead = d.outbound.numRead + i /\ s.isInputEnd = d.outbound.isInputEnd /\ s.size = d.outbound.size - i
  BY <1>2 DEF PoppedTo
<1>4. i \in 0..Len(d.outbound.buf) /\ d.outbound.buf \in Seq(Bytes)
  BY <1>1, Sizes
<1>5. SubSeq(d.outbound.buf, 1, i) \in Seq(Bytes) /\ Len(SubSeq(d.outbound.buf, 1, i)) = i
  BY <1>4, PrefixType
<1>6. k \in BOOLEAN
  BY <1>1
<1>7. e = [d EXCEPT !.outbound = s, !.queued = k]
  BY DEF Sent
<1> HIDE DEF e, s, k
<1>8. e \in Connections /\ e.inbound = d.inbound /\ e.active = d.active /\ e.outbound = s
  BY <1>3, <1>6, <1>7 DEF Connections
<1> QED
  BY <1>3, <1>5, <1>8 DEF e

\* A segment may be sent behind what the network did.
LEMMA SentEvolved ==
  ASSUME NEW d \in Connections, NEW f \in Connections, NEW what, Evolved(d, f, what),
         f.outbound = d.outbound, f.active, NEW n \in Nat, NEW seg \in BOOLEAN
  PROVE  Evolved(d, Sent(f, n, seg), what)
<1> DEFINE e == Sent(f, n, seg)
<1>1. /\ e \in Connections /\ e.inbound = f.inbound /\ e.active = f.active
      /\ e.outbound.isInputEnd = f.outbound.isInputEnd
      /\ \E p \in Seq(Bytes) : f.outbound.buf = p \o e.outbound.buf /\ e.outbound.numRead = f.outbound.numRead + Len(p)
  BY SentIs
<1> HIDE DEF e
<1>2. Evolved(d, e, what)
  BY <1>1 DEF Evolved
<1> QED
  BY <1>2 DEF e

\* A connection that does nothing.
LEMMA StaysEvolved ==
  ASSUME NEW d \in Connections, NEW what
  PROVE  Evolved(d, d, what)
<1>1. \E m \in Nat :
        /\ d.inbound.buf = d.inbound.buf \o Count(d.inbound.numWritten, m)
        /\ d.inbound.numWritten = d.inbound.numWritten + m /\ d.inbound.size = d.inbound.size + m
        /\ d.inbound.isInputEnd => m = 0
  BY SameBytes
<1>2. \E p \in Seq(Bytes) : d.outbound.buf = p \o d.outbound.buf /\ d.outbound.numRead = d.outbound.numRead + Len(p)
  BY NothingSent
<1> QED
  BY <1>1, <1>2 DEF Evolved

\* The handshake completes.
LEMMA OpenedEvolved ==
  ASSUME NEW d \in Connections, NEW what, d.active
  PROVE  Opened(d) \in Connections /\ Opened(d).outbound = d.outbound /\ Opened(d).active /\ Evolved(d, Opened(d), what)
<1> DEFINE e == Opened(d)
<1>1. e \in Connections /\ e.outbound = d.outbound /\ e.inbound = d.inbound /\ e.active
  BY DEF Opened, Connections
<1> HIDE DEF e
<1>2. Evolved(d, d, what)
  BY StaysEvolved
<1>3. Evolved(d, e, what)
  BY <1>1, <1>2 DEF Evolved
<1> QED
  BY <1>1, <1>3 DEF e

\* The peer's FIN is the end of the inbound stream.
LEMMA FinishedEvolved ==
  ASSUME NEW d \in Connections, d.active
  PROVE  LET e == Finished(d)
         IN  e \in Connections /\ e.outbound = d.outbound /\ e.active /\ Evolved(d, e, "fin")
<1> DEFINE e == Finished(d)
           s == EndInput(d.inbound)
<1>1. d.inbound \in Streams(Bytes)
  BY DEF Connections
<1>2. s \in Streams(Bytes) /\ s.isInputEnd = TRUE /\ s.buf = d.inbound.buf /\ s.size = d.inbound.size
      /\ s.numWritten = d.inbound.numWritten /\ s.error = d.inbound.error
  BY <1>1, FlagIs
<1>3. e = [d EXCEPT !.inbound = s]
  BY DEF Finished
<1> HIDE DEF e, s
<1>4. e \in Connections /\ e.outbound = d.outbound /\ e.inbound = s /\ e.active
  BY <1>2, <1>3 DEF Connections
<1>5. \E m \in Nat :
        /\ e.inbound.buf = d.inbound.buf \o Count(d.inbound.numWritten, m)
        /\ e.inbound.numWritten = d.inbound.numWritten + m /\ e.inbound.size = d.inbound.size + m
        /\ d.inbound.isInputEnd => m = 0
  BY <1>2, <1>4, SameBytes
<1>6. Evolved(d, d, "fin")
  BY StaysEvolved
<1>7. Evolved(d, e, "fin")
  BY <1>2, <1>4, <1>5, <1>6 DEF Evolved
<1> QED
  BY <1>4, <1>7 DEF e

\* The next bytes of the peer's stream.
LEMMA ArrivedEvolved ==
  ASSUME NEW d \in Connections, d.active, NEW k \in Nat, NEW what
  PROVE  LET e == Arrived(d, k)
         IN  e \in Connections /\ e.outbound = d.outbound /\ e.active /\ Evolved(d, e, what)
<1> DEFINE e == Arrived(d, k)
           data == Count(d.inbound.numWritten, k)
           s == Write(d.inbound, data)
           m == ToWrite(d.inbound, data)
<1>1. d.inbound \in Streams(Bytes)
  BY DEF Connections
<1>2. d.inbound.numWritten \in Nat
  BY <1>1, Sizes
<1>3. data \in Seq(Bytes) /\ Len(data) = k /\ \A i \in 1..k : data[i] = d.inbound.numWritten + i
  BY <1>2, CountType
<1>4. e = [d EXCEPT !.inbound = s]
  BY DEF Arrived, NextBytes, Count
<1>5. WrittenTo(d.inbound, data, m, s) /\ m \in 0..Len(data) /\ (d.inbound.isInputEnd => m = 0)
  BY <1>1, <1>3, WriteIs
<1>6. m \in Nat /\ m <= k
  BY <1>3, <1>5, SMTT(30)
<1>7. SubSeq(data, 1, m) = Count(d.inbound.numWritten, m)
  <2> DEFINE x == SubSeq(data, 1, m)
             y == Count(d.inbound.numWritten, m)
  <2>1. y \in Seq(Bytes) /\ Len(y) = m /\ \A i \in 1..m : y[i] = d.inbound.numWritten + i
    BY <1>2, <1>6, CountType
  <2>2. x \in Seq(Bytes) /\ Len(x) = m
    BY <1>3, <1>5, PrefixType
  <2> HIDE DEF data, m
  <2>3. \A i \in 1..m : data[i] \in Bytes
    BY <1>3, <1>6, ElementType, SMTT(30)
  <2>4. \A i \in 1..m : x[i] = data[i]
    BY <1>6, <2>3, SubSeqElements, SMTT(30)
  <2>5. \A i \in 1..m : x[i] = y[i]
    BY <1>3, <1>6, <2>1, <2>4, SMTT(30)
  <2> HIDE DEF x, y
  <2>6. x = y
    BY <2>1, <2>2, <2>5, EqualElements
  <2> QED
    BY <2>6 DEF x, y
<1> HIDE DEF e, s, data, m
<1>8. /\ s \in Streams(Bytes) /\ s.buf = d.inbound.buf \o Count(d.inbound.numWritten, m)
      /\ s.size = d.inbound.size + m /\ s.numWritten = d.inbound.numWritten + m
      /\ s.isInputEnd = d.inbound.isInputEnd /\ s.error = d.inbound.error
  BY <1>5, <1>7 DEF WrittenTo
<1>9. e \in Connections /\ e.outbound = d.outbound /\ e.inbound = s /\ e.active
  BY <1>4, <1>8 DEF Connections
<1>10. Evolved(d, d, what)
  BY StaysEvolved
<1>11. Evolved(d, e, what)
  BY <1>5, <1>6, <1>8, <1>9, <1>10 DEF Evolved
<1> QED
  BY <1>9, <1>11 DEF e

\* A clean end.
LEMMA ClosedEvolved ==
  ASSUME NEW d \in Connections, Complete(d), NEW what
  PROVE  Evolved(d, Closed(d), what)
<1> DEFINE e == Closed(d)
<1>1. e \in Connections /\ e.outbound = d.outbound /\ e.inbound = d.inbound
  BY DEF Closed, Connections
<1> HIDE DEF e
<1>2. Complete(e)
  BY <1>1 DEF Complete
<1>3. Evolved(d, d, what)
  BY StaysEvolved
<1>4. Evolved(d, e, what)
  BY <1>1, <1>2, <1>3 DEF Evolved
<1> QED
  BY <1>4 DEF e

\* A reset sets both errors, and takes no byte away.
LEMMA ResetEvolved ==
  ASSUME NEW d \in Connections, NEW f \in Connections, NEW what, Evolved(d, f, what)
  PROVE  Evolved(d, Reset(f), what)
<1> DEFINE e == Reset(f)
           x == SetError(f.inbound)
           y == SetError(f.outbound)
<1>1. f.inbound \in Streams(Bytes) /\ f.outbound \in Streams(Bytes)
  BY DEF Connections
<1>2. /\ x \in Streams(Bytes) /\ x.error = TRUE /\ x.buf = f.inbound.buf /\ x.size = f.inbound.size
      /\ x.numWritten = f.inbound.numWritten /\ x.isInputEnd = f.inbound.isInputEnd
  BY <1>1, FlagIs
<1>3. /\ y \in Streams(Bytes) /\ y.buf = f.outbound.buf /\ y.size = f.outbound.size
      /\ y.numRead = f.outbound.numRead /\ y.isInputEnd = f.outbound.isInputEnd
  BY <1>1, FlagIs
<1>4. e = [f EXCEPT !.active = FALSE, !.inbound = x, !.outbound = y, !.opening = FALSE]
  BY DEF Reset
<1> HIDE DEF e, x, y
<1>5. e \in Connections /\ e.inbound = x /\ e.outbound = y
  BY <1>2, <1>3, <1>4 DEF Connections
<1>6. Evolved(d, e, what)
  BY <1>2, <1>3, <1>5 DEF Evolved
<1> QED
  BY <1>6 DEF e

\* What a datagram does to the connection.
LEMMA EffectEvolved ==
  ASSUME NEW d \in Connections, NEW what \in {"rst", "other"} \cup Help
  PROVE  Evolved(d, Effect(d, what), what)
<1> DEFINE k == Least(1, RemainingCapacity(d.inbound))
<1>1. d.inbound \in Streams(Bytes)
  BY DEF Connections
<1>2. k \in Nat
  BY <1>1, Sizes DEF Least
<1> HIDE DEF k
<1>3. CASE ~d.active
  BY <1>3, StaysEvolved DEF Effect
<1>4. CASE d.active /\ what = "open"
  <2>1. Evolved(d, Sent(Opened(d), 0, TRUE), what)
    BY <1>4, OpenedEvolved, SentEvolved
  <2> QED
    BY <1>4, <2>1 DEF Effect
<1>5. CASE d.active /\ what = "data"
  <2>1. Evolved(d, Sent(Arrived(d, k), 0, TRUE), what)
    BY <1>2, <1>5, ArrivedEvolved, SentEvolved
  <2>2. Effect(d, what) = Sent(Arrived(d, k), 0, TRUE)
    BY <1>5 DEF Effect, k
  <2> QED
    BY <2>1, <2>2
<1>6. CASE d.active /\ what = "fin"
  <2>1. Evolved(d, Sent(Finished(d), 0, TRUE), what)
    BY <1>6, FinishedEvolved, SentEvolved
  <2> QED
    BY <1>6, <2>1 DEF Effect
<1>7. CASE d.active /\ what = "ack"
  <2>1. Evolved(d, Sent(d, 1, FALSE), what)
    BY <1>7, StaysEvolved, SentEvolved
  <2> QED
    BY <1>7, <2>1 DEF Effect
<1>8. CASE d.active /\ what = "last"
  BY <1>8, StaysEvolved, ClosedEvolved DEF Effect
<1>9. CASE d.active /\ what = "rst"
  BY <1>9, StaysEvolved, ResetEvolved DEF Effect
<1>10. CASE d.active /\ what = "other"
  BY <1>10, StaysEvolved DEF Effect
<1>11. d.active \in BOOLEAN
  BY DEF Connections
<1> QED
  BY <1>3, <1>4, <1>5, <1>6, <1>7, <1>8, <1>9, <1>10, <1>11 DEF Help

\* What tick() does to it.
LEMMA TickedEvolved ==
  ASSUME NEW d \in Connections, NEW e \in Ticked(d)
  PROVE  Evolved(d, e, "none")
<1>1. Evolved(d, d, "none")
  BY StaysEvolved
<1>2. CASE e = d
  BY <1>1, <1>2
<1>3. ASSUME d.active PROVE Evolved(d, Sent(d, 0, TRUE), "none") /\ Evolved(d, Reset(Sent(d, 0, TRUE)), "none")
  <2>1. Evolved(d, Sent(d, 0, TRUE), "none")
    BY <1>1, <1>3, SentEvolved
  <2>2. Sent(d, 0, TRUE) \in Connections
    BY <2>1 DEF Evolved
  <2> QED
    BY <2>1, <2>2, ResetEvolved
<1>4. CASE d.active /\ e \in {Sent(d, 0, TRUE), Reset(Sent(d, 0, TRUE))}
  BY <1>3, <1>4
<1>5. CASE Complete(d) /\ e = Closed(d)
  BY <1>5, ClosedEvolved
<1> QED
  BY <1>2, <1>4, <1>5 DEF Ticked

\* What FromDatagrams, FromApp, ToApp and ToDatagrams leave alone.
Apart(t, u, r) ==
  /\ u \in Sockets /\ u.loop.rules = t.loop.rules /\ u.loop.todo[r] = "none"
  /\ \A q \in Rules : q # r => u.loop.todo[q] = t.loop.todo[q]
  /\ u.phase = t.phase /\ u.main = t.main

\* The callback of rule 1 of the socket, by what it does to each part.
LEMMA FromDatagramsIs ==
  ASSUME NEW t \in Sockets, NEW tcp \in Connections
  PROVE  LET u == FromDatagrams(t, tcp)
         IN  /\ Apart(t, u, 1) /\ u.tcp = tcp /\ u.threadData = t.threadData
             /\ u.outboundShutdown = t.outboundShutdown /\ u.inboundShutdown = t.inboundShutdown
<1> DEFINE u == FromDatagrams(t, tcp)
           l == Served(t.loop, 1)
<1>1. t.loop \in Loops /\ 1 \in Rules
  BY SMTT(30) DEF Sockets, Rules
<1>2. l \in Loops /\ l.rules = t.loop.rules /\ l.todo[1] = "none" /\ \A q \in Rules : q # 1 => l.todo[q] = t.loop.todo[q]
  BY <1>1, ServedIs
<1>3. u = [t EXCEPT !.tcp = tcp, !.loop = l]
  BY DEF FromDatagrams
<1> HIDE DEF u, l
<1>4. /\ u \in Sockets /\ u.loop = l /\ u.phase = t.phase /\ u.main = t.main /\ u.tcp = tcp
      /\ u.threadData = t.threadData /\ u.outboundShutdown = t.outboundShutdown
      /\ u.inboundShutdown = t.inboundShutdown
  BY <1>2, <1>3 DEF Sockets
<1>5. Apart(t, u, 1)
  BY <1>2, <1>4 DEF Apart
<1> QED
  BY <1>4, <1>5 DEF u

\* The callback of rule 4 of the socket.
LEMMA ToDatagramsIs ==
  ASSUME NEW t \in Sockets
  PROVE  LET u == ToDatagrams(t)
         IN  /\ Apart(t, u, 4) /\ u.threadData = t.threadData
             /\ u.tcp.inbound = t.tcp.inbound /\ u.tcp.outbound = t.tcp.outbound /\ u.tcp.active = t.tcp.active
             /\ u.tcp.queued = FALSE
             /\ u.outboundShutdown = t.outboundShutdown /\ u.inboundShutdown = t.inboundShutdown
<1> DEFINE u == ToDatagrams(t)
           l == Served(t.loop, 4)
           d == Drained(t.tcp)
<1>1. t.loop \in Loops /\ t.tcp \in Connections /\ 4 \in Rules
  BY SMTT(30) DEF Sockets, Rules
<1>2. l \in Loops /\ l.rules = t.loop.rules /\ l.todo[4] = "none" /\ \A q \in Rules : q # 4 => l.todo[q] = t.loop.todo[q]
  BY <1>1, ServedIs
<1>3. u = [t EXCEPT !.tcp = d, !.loop = l]
  BY DEF ToDatagrams
<1>4. d \in Connections /\ d.inbound = t.tcp.inbound /\ d.outbound = t.tcp.outbound /\ d.active = t.tcp.active
      /\ d.queued = FALSE
  BY <1>1 DEF Drained, Connections
<1> HIDE DEF u, l, d
<1>5. /\ u \in Sockets /\ u.loop = l /\ u.phase = t.phase /\ u.main = t.main /\ u.tcp = d
      /\ u.threadData = t.threadData /\ u.outboundShutdown = t.outboundShutdown
      /\ u.inboundShutdown = t.inboundShutdown
  BY <1>2, <1>3, <1>4 DEF Sockets
<1>6. Apart(t, u, 4)
  BY <1>2, <1>5 DEF Apart
<1> QED
  BY <1>4, <1>5, <1>6 DEF u

\* The callback of rule 3 of the socket.
LEMMA ToAppIs ==
  ASSUME NEW t \in Sockets, NEW n \in 0..t.tcp.inbound.size
  PROVE  LET u == ToApp(t, n)
         IN  /\ Apart(t, u, 3) /\ u.threadData = t.threadData
             /\ PoppedTo(t.tcp.inbound, n, u.tcp.inbound)
             /\ u.tcp.outbound = t.tcp.outbound /\ u.tcp.active = t.tcp.active
             /\ u.outboundShutdown = t.outboundShutdown
             /\ u.inboundShutdown = (t.inboundShutdown \/ Eof(u.tcp.inbound) \/ u.tcp.inbound.error)
<1> DEFINE u == ToApp(t, n)
           l == Served(t.loop, 3)
           s == PopOutput(t.tcp.inbound, n)
           d == Taken(t.tcp, n)
           e == Eof(s) \/ s.error
<1>1. t.loop \in Loops /\ t.tcp \in Connections /\ t.tcp.inbound \in Streams(Bytes) /\ 3 \in Rules
      /\ t.inboundShutdown \in BOOLEAN
  BY SockParts, SMTT(30) DEF Sockets, Rules
<1>2. l \in Loops /\ l.rules = t.loop.rules /\ l.todo[3] = "none" /\ \A q \in Rules : q # 3 => l.todo[q] = t.loop.todo[q]
  BY <1>1, ServedIs
<1>3. PoppedTo(t.tcp.inbound, n, s) /\ s \in Streams(Bytes)
  BY <1>1, PopIs DEF PoppedTo
<1>4. e \in BOOLEAN
  BY <1>3 DEF Eof, Streams
<1>5. d = [t.tcp EXCEPT !.inbound = s]
  BY DEF Taken
<1> HIDE DEF s
<1>6. d \in Connections /\ d.inbound = s /\ d.outbound = t.tcp.outbound /\ d.active = t.tcp.active
  BY <1>1, <1>3, <1>5 DEF Connections
<1>7. u = [t EXCEPT !.tcp = d, !.loop = l, !.inboundShutdown = t.inboundShutdown \/ e]
  BY <1>6 DEF ToApp
<1>8. (t.inboundShutdown \/ e) \in BOOLEAN
  BY <1>1, <1>4
<1> DEFINE b == t.inboundShutdown \/ e
<1> HIDE DEF u, l, d, e, b
<1>9. /\ u \in Sockets /\ u.loop = l /\ u.phase = t.phase /\ u.main = t.main /\ u.tcp = d
      /\ u.threadData = t.threadData /\ u.outboundShutdown = t.outboundShutdown /\ u.inboundShutdown = b
  <2>1. u = [t EXCEPT !.tcp = d, !.loop = l, !.inboundShutdown = b] /\ b \in BOOLEAN
    BY <1>7, <1>8 DEF b
  <2> QED
    BY <1>2, <1>6, <2>1 DEF Sockets
<1>10. Apart(t, u, 3)
  BY <1>2, <1>9 DEF Apart
<1> QED
  BY <1>3, <1>6, <1>9, <1>10 DEF u, b, e

\* The callback of rule 2 of the socket, when the write is not short.
LEMMA FromAppIs ==
  ASSUME NEW t \in Sockets, NEW got \in Seq(Bytes), NEW n \in Nat, ToWrite(t.tcp.outbound, got) = Len(got)
  PROVE  LET u == FromApp(t, got, n)
             end == t.threadData.eof \/ (RemainingCapacity(t.tcp.outbound) > 0 /\ got = <<>>)
         IN  /\ Apart(t, u, 2) /\ u.threadData.eof = end
             /\ u.tcp.inbound = t.tcp.inbound /\ u.tcp.active = t.tcp.active
             /\ u.tcp.outbound.isInputEnd = (t.tcp.outbound.isInputEnd \/ end)
             /\ \E p \in Seq(Bytes) :
                  /\ t.tcp.outbound.buf \o got = p \o u.tcp.outbound.buf
                  /\ u.tcp.outbound.numRead = t.tcp.outbound.numRead + Len(p)
                  /\ u.tcp.outbound.size = t.tcp.outbound.size + Len(got) - Len(p)
             /\ u.outboundShutdown = (t.outboundShutdown \/ end) /\ u.inboundShutdown = t.inboundShutdown
<1> DEFINE u == FromApp(t, got, n)
           limit == RemainingCapacity(t.tcp.outbound)
           end == t.threadData.eof \/ (limit > 0 /\ got = <<>>)
           fd == FdRead(t.threadData, limit, got)
           l == Served(t.loop, 2)
           w == Write(t.tcp.outbound, got)
           s == IF end THEN EndInput(w) ELSE w
           written == Written(t.tcp, got)
           f == IF end THEN EndedInput(written) ELSE written
           e == Sent(f, n, end)
<1>1. t.loop \in Loops /\ t.tcp \in Connections /\ t.tcp.outbound \in Streams(Bytes) /\ 2 \in Rules
      /\ t.outboundShutdown \in BOOLEAN /\ t.threadData \in Fds
  BY SockParts, SMTT(30) DEF Sockets, Rules
<1>2. l \in Loops /\ l.rules = t.loop.rules /\ l.todo[2] = "none" /\ \A q \in Rules : q # 2 => l.todo[q] = t.loop.todo[q]
  BY <1>1, ServedIs
<1>3. WrittenTo(t.tcp.outbound, got, Len(got), w)
  BY <1>1, WriteIs
<1>4. SubSeq(got, 1, Len(got)) = got
  BY WholeSubSeq
<1>5. /\ w \in Streams(Bytes) /\ w.buf = t.tcp.outbound.buf \o got /\ w.size = t.tcp.outbound.size + Len(got)
      /\ w.numRead = t.tcp.outbound.numRead /\ w.isInputEnd = t.tcp.outbound.isInputEnd
  BY <1>3, <1>4 DEF WrittenTo
<1>6. end \in BOOLEAN
  BY <1>1 DEF Fds
<1>7. fd \in Fds /\ fd.eof = end
  BY <1>1 DEF Fds, FdRead
<1> HIDE DEF w, end
<1>8. /\ s \in Streams(Bytes) /\ s.buf = w.buf /\ s.size = w.size /\ s.numRead = w.numRead
      /\ s.isInputEnd = (w.isInputEnd \/ end)
  <2>1. CASE end
    BY <1>5, <2>1, FlagIs
  <2>2. CASE ~end
    BY <1>5, <2>2 DEF Streams
  <2> QED
    BY <2>1, <2>2
<1>9. f \in Connections /\ f.outbound = s /\ f.inbound = t.tcp.inbound /\ f.active = t.tcp.active
  <2>1. written = [t.tcp EXCEPT !.outbound = w]
    BY DEF Written, w
  <2> HIDE DEF written
  <2>2. written \in Connections /\ written.outbound = w /\ written.inbound = t.tcp.inbound /\ written.active = t.tcp.active
    BY <1>1, <1>5, <2>1 DEF Connections
  <2>3. CASE ~end
    BY <2>2, <2>3
  <2>4. CASE end
    <3>1. s = EndInput(w)
      BY <2>4
    <3>2. f = [written EXCEPT !.outbound = s]
      BY <2>2, <2>4, <3>1 DEF EndedInput
    <3> HIDE DEF f, s
    <3> QED
      BY <1>8, <2>2, <3>2 DEF Connections
  <2> QED
    BY <2>3, <2>4
<1> HIDE DEF f, s
<1>10. /\ e \in Connections /\ e.inbound = f.inbound /\ e.active = f.active
       /\ e.outbound.isInputEnd = f.outbound.isInputEnd
       /\ \E p \in Seq(Bytes) :
            /\ f.outbound.buf = p \o e.outbound.buf /\ e.outbound.numRead = f.outbound.numRead + Len(p)
            /\ e.outbound.size = f.outbound.size - Len(p)
  BY <1>6, <1>9, SentIs
<1>11. u = [t EXCEPT !.threadData = fd, !.outboundShutdown = t.outboundShutdown \/ end, !.loop = l, !.tcp = e]
  BY <1>7 DEF FromApp, f
<1> DEFINE b == t.outboundShutdown \/ end
<1>12. b \in BOOLEAN
  BY <1>1, <1>6
<1> HIDE DEF u, l, e, b, fd
<1>13. /\ u \in Sockets /\ u.loop = l /\ u.phase = t.phase /\ u.main = t.main /\ u.tcp = e
       /\ u.threadData = fd /\ u.outboundShutdown = b /\ u.inboundShutdown = t.inboundShutdown
  <2>1. u = [t EXCEPT !.threadData = fd, !.outboundShutdown = b, !.loop = l, !.tcp = e]
    BY <1>11 DEF b
  <2> QED
    BY <1>2, <1>7, <1>10, <1>12, <2>1 DEF Sockets
<1>14. Apart(t, u, 2)
  BY <1>2, <1>13 DEF Apart
<1>15. u.tcp.inbound = t.tcp.inbound /\ u.tcp.active = t.tcp.active
       /\ u.tcp.outbound.isInputEnd = (t.tcp.outbound.isInputEnd \/ end)
  BY <1>5, <1>8, <1>9, <1>10, <1>13
<1>16. \E p \in Seq(Bytes) :
         /\ t.tcp.outbound.buf \o got = p \o u.tcp.outbound.buf
         /\ u.tcp.outbound.numRead = t.tcp.outbound.numRead + Len(p)
         /\ u.tcp.outbound.size = t.tcp.outbound.size + Len(got) - Len(p)
  <2>1. PICK p \in Seq(Bytes) :
          /\ f.outbound.buf = p \o e.outbound.buf /\ e.outbound.numRead = f.outbound.numRead + Len(p)
          /\ e.outbound.size = f.outbound.size - Len(p)
    BY <1>10
  <2>2. f.outbound.buf = t.tcp.outbound.buf \o got /\ f.outbound.numRead = t.tcp.outbound.numRead
        /\ f.outbound.size = t.tcp.outbound.size + Len(got)
    BY <1>5, <1>8, <1>9
  <2>3. u.tcp.outbound = e.outbound
    BY <1>13
  <2>4. t.tcp.outbound.buf \o got = p \o u.tcp.outbound.buf
    <3>1. u.tcp.outbound.buf = e.outbound.buf
      BY <2>3
    <3>2. f.outbound.buf = p \o e.outbound.buf /\ f.outbound.buf = t.tcp.outbound.buf \o got
      BY <2>1, <2>2
    <3> QED
      BY <3>1, <3>2
  <2>5. u.tcp.outbound.numRead = t.tcp.outbound.numRead + Len(p)
    BY <2>1, <2>2, <2>3
  <2>6. u.tcp.outbound.size = t.tcp.outbound.size + Len(got) - Len(p)
    <3>1. t.tcp.outbound.size \in Nat /\ Len(got) \in Nat /\ Len(p) \in Nat
      BY <1>1, Sizes, SeqIsFunction
    <3>2. u.tcp.outbound.size = e.outbound.size
      BY <2>3
    <3>3. e.outbound.size = f.outbound.size - Len(p) /\ f.outbound.size = t.tcp.outbound.size + Len(got)
      BY <2>1, <2>2
    <3> DEFINE x == u.tcp.outbound.size
               y == f.outbound.size
               z == t.tcp.outbound.size
               i == Len(got)
               j == Len(p)
    <3>4. x = y - j /\ y = z + i /\ z \in Nat /\ i \in Nat /\ j \in Nat
      BY <3>1, <3>2, <3>3
    <3> HIDE DEF x, y, z, i, j
    <3>5. x = z + i - j
      BY <3>4, SMTT(30)
    <3> QED
      BY <3>5 DEF x, z, i, j
  <2> QED
    BY <2>4, <2>5, <2>6
<1> QED
  BY <1>7, <1>13, <1>14, <1>15, <1>16 DEF u, b, end

(* The invariant holds in the beginning *)

(* The TCP thread *)

\* connect() or listen_and_accept() returns, and the TCP thread starts.
LEMMA SockOpenedKeeps == Inv /\ SockOpened => Inv'
<1> SUFFICES ASSUME Inv, SockOpened PROVE Inv'
  OBVIOUS
<1> /\ Types /\ CopyResults /\ RulesLeft /\ CopyOut /\ CopyIn /\ Flags /\ Leaving /\ SockResults
    /\ SockOut /\ SockIn /\ Ending /\ InputEnds /\ Pipes /\ Outcomes
  BY DEF Inv
<1>2. UNCHANGED <<load, pair, abort, arrival, stdin, stdout, outcome>> /\ Running /\ ~sock.main
  BY DEF SockOpened
<1>3. app.pc = "opening" /\ ~Over /\ ~app.threw /\ ~Shut
  BY <1>2 DEF Leaving, Shut
<1>4. /\ app' \in Copies /\ app'.loop = app.loop
      /\ app'.input = app.input /\ app'.socket = app.socket /\ app'.output = app.output
      /\ app'.outbound = app.outbound /\ app'.inbound = app.inbound
      /\ app'.outboundShutdown = app.outboundShutdown /\ app'.pc = "copying" /\ app'.threw = app.threw
  BY DEF Types, Copies, SockOpened
<1>5. /\ sock' \in Sockets /\ sock'.loop = sock.loop /\ sock'.tcp = sock.tcp /\ sock'.threadData = sock.threadData
      /\ sock'.outboundShutdown = sock.outboundShutdown /\ sock'.inboundShutdown = sock.inboundShutdown
      /\ sock'.phase = "wait" /\ sock'.main = TRUE
  BY DEF Types, Sockets, SockOpened
<1>6. ~Over'
  BY <1>5 DEF Over
<1>7. Types'
  BY <1>2, <1>4, <1>5 DEF Types
<1>8. CopyResults' /\ RulesLeft' /\ CopyOut' /\ CopyIn'
  BY <1>2, <1>3, <1>4, <1>5 DEF CopyResults, RulesLeft, CopyOut, CopyIn, InputRead
<1>9. Flags' /\ Leaving'
  BY <1>2, <1>3, <1>4, <1>5, <1>6 DEF Flags, Leaving
<1>10. SockResults' /\ SockOut' /\ SockIn' /\ Ending' /\ InputEnds'
  BY <1>2, <1>4, <1>5 DEF SockResults, SockOut, SockIn, Ending, InputEnds, InputRead
<1>11. Pipes'
  BY <1>2, <1>3, <1>4, <1>5 DEF Pipes
<1>12. Outcomes'
  BY <1>2 DEF Outcomes, DiesForAReason, Running
<1> QED
  BY <1>7, <1>8, <1>9, <1>10, <1>11, <1>12 DEF Inv

\* The TCP thread leaves its loop.
LEMMA SockEndKeeps == Inv /\ SockEnd => Inv'
<1> SUFFICES ASSUME Inv, SockEnd PROVE Inv'
  OBVIOUS
<1> /\ Types /\ CopyResults /\ RulesLeft /\ CopyOut /\ CopyIn /\ Flags /\ Leaving /\ SockResults
    /\ SockOut /\ SockIn /\ Ending /\ InputEnds /\ Pipes /\ Outcomes
  BY DEF Inv
<1>2. UNCHANGED <<load, app, abort, arrival, stdin, stdout, outcome>> /\ Running /\ sock.main /\ sock.phase = "leave"
      /\ pair' = ShutBoth(pair)
  BY DEF SockEnd
<1>3. /\ sock' \in Sockets /\ sock'.loop = sock.loop /\ sock'.tcp = sock.tcp /\ sock'.threadData = sock.threadData
      /\ sock'.outboundShutdown = sock.outboundShutdown /\ sock'.inboundShutdown = sock.inboundShutdown
      /\ sock'.phase = "ended" /\ sock'.main = sock.main
  BY DEF Types, Sockets, SockEnd
<1>4. /\ pair' \in Pairs /\ pair'.queue = pair.queue /\ pair'.noWrite.tcp = TRUE /\ pair'.noRead.app = TRUE
      /\ pair'.noWrite.app = TRUE /\ pair'.noRead.tcp = TRUE
  BY <1>2, Shuts DEF Types
<1>5. Over'
  BY <1>3 DEF Over
<1>6. Types'
  BY <1>2, <1>3, <1>4 DEF Types
<1>7. CopyResults'
  BY <1>2, <1>4, <1>5 DEF CopyResults, InputRead
<1>8. RulesLeft' /\ CopyOut' /\ CopyIn'
  BY <1>2, <1>3, <1>4, <1>5 DEF RulesLeft, CopyOut, CopyIn
<1>9. Flags' /\ Leaving'
  BY <1>2, <1>3, <1>4, <1>5 DEF Flags, Leaving
<1>10. SockResults' /\ SockOut' /\ SockIn' /\ Ending' /\ InputEnds'
  BY <1>2, <1>3, <1>4 DEF SockResults, SockOut, SockIn, Ending, InputEnds, InputRead
<1>11. Pipes'
  BY <1>2, <1>3, <1>4, <1>5 DEF Pipes
<1>12. Outcomes'
  BY <1>2 DEF Outcomes, DiesForAReason, Running
<1> QED
  BY <1>6, <1>7, <1>8, <1>9, <1>10, <1>11, <1>12 DEF Inv

\* The connection takes a step, by itself or with a segment.
LEMMA EvolvesKeeps ==
  ASSUME Inv, Running, sock.phase = "work", sock' \in Sockets, sock'.phase \in {"wait", "work"}, sock'.main = sock.main,
         sock'.threadData = sock.threadData, sock'.outboundShutdown = sock.outboundShutdown,
         sock'.inboundShutdown = sock.inboundShutdown, SockResults', arrival' \in {arrival, "none"},
         UNCHANGED <<load, app, pair, abort, stdin, stdout, outcome>>,
         NEW what, Evolved(sock.tcp, sock'.tcp, what), what = "fin" => arrival = "fin",
         arrival' = "fin" => sock'.tcp.inbound.numWritten = sock.tcp.inbound.numWritten
  PROVE  Inv'
<1> DEFINE d == sock.tcp
           e == sock'.tcp
<1> /\ Types /\ CopyResults /\ RulesLeft /\ CopyOut /\ CopyIn /\ Flags /\ Leaving /\ SockResults
    /\ SockOut /\ SockIn /\ Ending /\ InputEnds /\ Pipes /\ Outcomes
  BY DEF Inv
<1>2. ~Over /\ ~Over'
  BY DEF Over
<1>3. d \in Connections /\ d.inbound \in Streams(Bytes) /\ d.outbound \in Streams(Bytes)
      /\ e \in Connections /\ e.inbound \in Streams(Bytes) /\ e.outbound \in Streams(Bytes)
  BY SockParts DEF Types
<1>4. PICK m \in Nat :
        /\ e.inbound.buf = d.inbound.buf \o Count(d.inbound.numWritten, m)
        /\ e.inbound.numWritten = d.inbound.numWritten + m /\ e.inbound.size = d.inbound.size + m
        /\ d.inbound.isInputEnd => m = 0
  BY DEF Evolved
<1>5. PICK p \in Seq(Bytes) :
        d.outbound.buf = p \o e.outbound.buf /\ e.outbound.numRead = d.outbound.numRead + Len(p)
  BY DEF Evolved
<1>6. /\ d.inbound.isInputEnd => e.inbound.isInputEnd
      /\ e.inbound.isInputEnd /\ ~d.inbound.isInputEnd =>
           arrival = "fin" /\ e.inbound.numWritten = d.inbound.numWritten
      /\ d.inbound.error => e.inbound.error
      /\ e.outbound.isInputEnd = d.outbound.isInputEnd
      /\ ~e.active => e.inbound.error \/ Complete(e) \/ e = d
  BY DEF Evolved
<1>7. d.inbound.isInputEnd => e.inbound.numWritten = d.inbound.numWritten /\ e.inbound.size = d.inbound.size
  BY <1>3, <1>4, Sizes, SMTT(30)
<1>8. /\ d.inbound.numWritten \in Nat /\ d.outbound.numRead \in Nat /\ stdin.fed \in Nat
      /\ d.inbound.buf \in Seq(Bytes) /\ d.outbound.buf \in Seq(Bytes) /\ e.outbound.buf \in Seq(Bytes)
      /\ stdin.ready \in Seq(Bytes) /\ stdout.got \in Seq(Bytes) /\ app.inbound.buf \in Seq(Bytes) /\ app.outbound.buf \in Seq(Bytes)
      /\ pair.queue.app \in Seq(Bytes) /\ pair.queue.tcp \in Seq(Bytes)
  <2>1. app.inbound.buf \in Seq(Bytes) /\ app.outbound.buf \in Seq(Bytes)
    BY CopyParts, Sizes DEF Types
  <2>2. pair.queue.app \in Seq(Bytes) /\ pair.queue.tcp \in Seq(Bytes)
    BY PairParts DEF Types
  <2>3. stdin.fed \in Nat /\ stdin.ready \in Seq(Bytes) /\ stdout.got \in Seq(Bytes)
    BY DEF Types
  <2>4. d.inbound.numWritten \in Nat /\ d.outbound.numRead \in Nat
        /\ d.inbound.buf \in Seq(Bytes) /\ d.outbound.buf \in Seq(Bytes) /\ e.outbound.buf \in Seq(Bytes)
    BY <1>3, Sizes
  <2> QED
    BY <2>1, <2>2, <2>3, <2>4
<1>9. InLine(stdout.got, app.inbound.buf, pair.queue.app, e.inbound.buf, 0, e.inbound.numWritten)
  <2> DEFINE w == d.inbound.numWritten
             a == stdout.got
             b == app.inbound.buf
             c == pair.queue.app
             f == d.inbound.buf
  <2>1. w \in Nat /\ a \in Seq(Bytes) /\ b \in Seq(Bytes) /\ c \in Seq(Bytes) /\ f \in Seq(Bytes) /\ InLine(a, b, c, f, 0, w)
        /\ e.inbound.buf = f \o Count(w, m) /\ e.inbound.numWritten = w + m
    BY <1>4, <1>8 DEF Pipes
  <2> HIDE DEF w, a, b, c, f
  <2>2. InLine(a, b, c, f \o Count(0 + w, m), 0, w + m)
    BY <2>1, LineGrows
  <2>3. 0 + w = w
    BY <2>1, SMTT(30)
  <2> QED
    BY <2>1, <2>2, <2>3 DEF a, b, c
<1>10. e.outbound.numRead <= stdin.fed /\
       InLine(e.outbound.buf, pair.queue.tcp, app.outbound.buf, stdin.ready,
              e.outbound.numRead, stdin.fed - e.outbound.numRead)
  <2> DEFINE k == d.outbound.numRead
             h == stdin.fed
             a == e.outbound.buf
             b == pair.queue.tcp
             c == app.outbound.buf
             f == stdin.ready
  <2>1. k \in Nat /\ h \in Nat /\ k <= h /\ a \in Seq(Bytes) /\ b \in Seq(Bytes) /\ c \in Seq(Bytes) /\ f \in Seq(Bytes)
        /\ InLine(p \o a, b, c, f, k, h - k) /\ e.outbound.numRead = k + Len(p)
    BY <1>2, <1>5, <1>8 DEF Pipes, InputEnds
  <2> HIDE DEF k, h, a, b, c, f
  <2>2. h - k \in Nat
    BY <2>1, SMTT(30)
  <2>3. Len(p) <= h - k /\ InLine(a, b, c, f, k + Len(p), (h - k) - Len(p))
    BY <2>1, <2>2, LineShrinks
  <2>4. Len(p) \in Nat
    BY SeqIsFunction
  <2>5. (h - k) - Len(p) = h - (k + Len(p)) /\ k + Len(p) <= h
    BY <2>1, <2>3, <2>4, SMTT(30)
  <2> QED
    BY <2>1, <2>3, <2>5 DEF h, a, b, c, f
<1> HIDE DEF e, d
<1>11. Types'
  BY DEF Types
<1>12. CopyResults' /\ RulesLeft' /\ CopyOut' /\ CopyIn'
  BY <1>2 DEF CopyResults, RulesLeft, CopyOut, CopyIn, InputRead
<1>13. Flags' /\ Leaving'
  BY <1>2 DEF Flags, Leaving, Shut
<1>14. SockOut' /\ InputEnds'
  BY <1>6, <1>10 DEF SockOut, InputEnds, InputRead, d, e
<1>15. SockIn'
  <2>1. sock.inboundShutdown => Eof(e.inbound) \/ e.inbound.error
    BY <1>6, <1>7 DEF SockIn, Eof, d
  <2>2. e.inbound.isInputEnd \/ arrival' = "fin" => e.inbound.numWritten = load.peer
    BY <1>6, <1>7 DEF SockIn, d, e
  <2> QED
    BY <2>1, <2>2 DEF SockIn, e
<1>16. Ending'
  BY <1>6 DEF Ending, d, e
<1>17. Pipes'
  BY <1>2, <1>9, <1>10 DEF Pipes, e
<1>18. Outcomes'
  BY DEF Outcomes, DiesForAReason, Running
<1> QED
  BY <1>11, <1>12, <1>13, <1>14, <1>15, <1>16, <1>17, <1>18 DEF Inv

\* tick() adds nothing to the inbound stream.
LEMMA TickedSame ==
  ASSUME NEW d \in Connections, NEW e \in Ticked(d)
  PROVE  e.inbound.numWritten = d.inbound.numWritten
<1> DEFINE f == Sent(d, 0, TRUE)
<1>1. f \in Connections /\ f.inbound = d.inbound
  BY SentIs
<1>2. \A c \in Connections : Reset(c).inbound = SetError(c.inbound) /\ Closed(c).inbound = c.inbound
  BY DEF Connections, Reset, Closed
<1>3. \A c \in Connections : SetError(c.inbound).numWritten = c.inbound.numWritten
  <2> SUFFICES ASSUME NEW c \in Connections PROVE SetError(c.inbound).numWritten = c.inbound.numWritten
    OBVIOUS
  <2>1. c.inbound \in Streams(Bytes)
    BY DEF Connections
  <2> QED
    BY <2>1, FlagIs
<1>4. e \in {d, f, Reset(f), Closed(d)}
  BY DEF Ticked
<1> HIDE DEF f
<1> QED
  BY <1>1, <1>2, <1>3, <1>4

\* The tick of the connection, and the test of _abort.
LEMMA SockTickKeeps == Inv /\ SockTick => Inv'
<1> SUFFICES ASSUME Inv, SockTick PROVE Inv'
  OBVIOUS
<1> /\ Types /\ CopyResults /\ RulesLeft /\ CopyOut /\ CopyIn /\ Flags /\ Leaving /\ SockResults
    /\ SockOut /\ SockIn /\ Ending /\ InputEnds /\ Pipes /\ Outcomes
  BY DEF Inv
<1>2. UNCHANGED <<load, app, pair, abort, arrival, stdin, stdout, outcome>> /\ Running /\ sock.phase = "work"
      /\ sock.loop.todo = NothingToDo
  BY DEF SockTick
<1>3. sock \in Sockets /\ sock.tcp \in Connections
  BY SockParts DEF Types
<1>4. CASE abort
  <2>1. /\ sock' \in Sockets /\ sock'.loop = sock.loop /\ sock'.tcp = sock.tcp /\ sock'.threadData = sock.threadData
        /\ sock'.outboundShutdown = sock.outboundShutdown /\ sock'.inboundShutdown = sock.inboundShutdown
        /\ sock'.phase = "leave" /\ sock'.main = sock.main
    BY <1>3, <1>4 DEF Sockets, SockTick
  <2>2. ~Over /\ ~Over'
    BY <1>2, <2>1 DEF Over
  <2>3. Types'
    BY <1>2, <2>1 DEF Types
  <2>4. CopyResults' /\ RulesLeft' /\ CopyOut' /\ CopyIn'
    BY <1>2, <2>1, <2>2 DEF CopyResults, RulesLeft, CopyOut, CopyIn, InputRead
  <2>5. Flags' /\ Leaving'
    BY <1>2, <2>1, <2>2 DEF Flags, Leaving, Shut
  <2>6. SockResults' /\ SockOut' /\ SockIn' /\ Ending' /\ InputEnds'
    BY <1>2, <1>4, <2>1 DEF SockResults, SockOut, SockIn, Ending, InputEnds, InputRead
  <2>7. Pipes'
    BY <1>2, <2>1, <2>2 DEF Pipes
  <2>8. Outcomes'
    BY <1>2 DEF Outcomes, DiesForAReason, Running
  <2> QED
    BY <2>3, <2>4, <2>5, <2>6, <2>7, <2>8 DEF Inv
<1>5. CASE ~abort
  <2>1. PICK tcp \in Ticked(sock.tcp) : sock' = [sock EXCEPT !.phase = "wait", !.tcp = tcp]
    BY <1>5 DEF SockTick
  <2>2. Evolved(sock.tcp, tcp, "none") /\ tcp.inbound.numWritten = sock.tcp.inbound.numWritten
    BY <1>3, TickedEvolved, TickedSame
  <2>3. tcp \in Connections /\ (sock.tcp.inbound.error => tcp.inbound.error)
    BY <2>2 DEF Evolved
  <2>4. /\ sock' \in Sockets /\ sock'.loop = sock.loop /\ sock'.tcp = tcp /\ sock'.threadData = sock.threadData
        /\ sock'.outboundShutdown = sock.outboundShutdown /\ sock'.inboundShutdown = sock.inboundShutdown
        /\ sock'.phase = "wait" /\ sock'.main = sock.main
    BY <1>3, <2>1, <2>3 DEF Sockets
  <2>5. SockResults'
    BY <1>2, <2>3, <2>4 DEF SockResults
  <2> QED
    BY <1>2, <2>2, <2>4, <2>5, EvolvesKeeps, SMTT(30)
<1> QED
  BY <1>4, <1>5

\* A segment of the peer.
LEMMA SockFromDatagramsKeeps == Inv /\ SockFromDatagrams => Inv'
<1> SUFFICES ASSUME Inv, SockFromDatagrams PROVE Inv'
  OBVIOUS
<1>1. Types /\ SockResults
  BY DEF Inv
<1> DEFINE tcp == Effect(sock.tcp, arrival)
<1>2. UNCHANGED <<load, app, pair, abort, stdin, stdout, outcome>> /\ Running /\ sock.phase = "work"
      /\ sock.loop.todo[1] = "ready" /\ arrival' = "none" /\ sock' = FromDatagrams(sock, tcp)
  BY DEF SockFromDatagrams, SockTurn, Turn
<1>3. sock \in Sockets /\ sock.tcp \in Connections
  BY <1>1, SockParts DEF Types
<1>4. arrival \in {"rst", "other"} \cup Help
  BY <1>1, <1>2 DEF SockResults, Types
<1>5. Evolved(sock.tcp, tcp, arrival)
  BY <1>3, <1>4, EffectEvolved
<1> HIDE DEF tcp
<1>6. tcp \in Connections /\ (sock.tcp.inbound.error => tcp.inbound.error)
  BY <1>5 DEF Evolved
<1>7. /\ Apart(sock, sock', 1) /\ sock'.tcp = tcp /\ sock'.threadData = sock.threadData
      /\ sock'.outboundShutdown = sock.outboundShutdown /\ sock'.inboundShutdown = sock.inboundShutdown
  BY <1>2, <1>3, <1>6, FromDatagramsIs
<1>8. /\ sock' \in Sockets /\ sock'.loop.rules = sock.loop.rules /\ sock'.loop.todo[1] = "none"
      /\ \A q \in Rules : q # 1 => sock'.loop.todo[q] = sock.loop.todo[q]
      /\ sock'.phase = sock.phase /\ sock'.main = sock.main
  BY <1>7 DEF Apart
<1>9. SockResults'
  BY <1>1, <1>2, <1>6, <1>7, <1>8, SMTT(30) DEF SockResults, Rules
<1> QED
  BY <1>2, <1>5, <1>7, <1>8, <1>9, EvolvesKeeps

\* The TCP thread drops a rule whose descriptor hung up, or is through.
LEMMA SockCancelsKeeps == Inv /\ SockCancels => Inv'
<1> SUFFICES ASSUME Inv, SockCancels PROVE Inv'
  OBVIOUS
<1>1. Types /\ SockResults
  BY DEF Inv
<1>2. UNCHANGED <<load, app, pair, abort, arrival, stdin, stdout, outcome>>
  BY DEF SockCancels
<1>3. PICK r \in Rules : SockTurn(r, "defunct") /\ sock' = [TcpCancel(sock, r) EXCEPT !.loop = Erased(@, r)]
  BY DEF SockCancels
<1>4. sock.loop.todo[r] = "defunct" /\ Running /\ sock.phase = "work"
  BY <1>3 DEF SockTurn, Turn
<1>5. r \in {3, 4}
  BY <1>1, <1>4, SMTT(30) DEF SockResults, Rules
<1> DEFINE l == Erased(sock.loop, r)
<1>6. sock \in Sockets /\ sock.tcp \in Connections /\ sock.loop \in Loops
  BY <1>1, SockParts DEF Types, Sockets
<1>7. /\ l \in Loops /\ l.rules = sock.loop.rules \ {r} /\ l.todo[r] = "none"
      /\ \A q \in Rules : q # r => l.todo[q] = sock.loop.todo[q]
  <2>1. l \in Loops /\ l.rules = sock.loop.rules \ {r} /\ l.todo = Served(sock.loop, r).todo
    BY <1>6, ServedIs
  <2>2. Served(sock.loop, r).todo[r] = "none" /\ \A q \in Rules : q # r => Served(sock.loop, r).todo[q] = sock.loop.todo[q]
    BY <1>6, ServedIs
  <2> QED
    BY <2>1, <2>2
<1>8. sock' = [sock EXCEPT !.loop = l]
  BY <1>3, <1>5, SMTT(30) DEF TcpCancel
<1> HIDE DEF l
<1>9. /\ sock' \in Sockets /\ sock'.loop = l /\ sock'.tcp = sock.tcp /\ sock'.threadData = sock.threadData
      /\ sock'.outboundShutdown = sock.outboundShutdown /\ sock'.inboundShutdown = sock.inboundShutdown
      /\ sock'.phase = sock.phase /\ sock'.main = sock.main
  BY <1>6, <1>7, <1>8 DEF Sockets
<1>10. SockResults'
  BY <1>1, <1>2, <1>4, <1>5, <1>7, <1>9, SMTT(30) DEF SockResults, Rules
<1>11. Evolved(sock.tcp, sock'.tcp, "none")
  BY <1>6, <1>9, StaysEvolved
<1> QED
  BY <1>2, <1>4, <1>9, <1>10, <1>11, EvolvesKeeps, SMTT(30)

\* The segments of the connection leave, or are dropped on the way out.
LEMMA SockToDatagramsKeeps ==
  ASSUME NEW dropped \in BOOLEAN
  PROVE  Inv /\ SockToDatagrams(dropped) => Inv'
<1> SUFFICES ASSUME Inv, SockToDatagrams(dropped) PROVE Inv'
  OBVIOUS
<1>1. Types /\ SockResults /\ Ending
  BY DEF Inv
<1> DEFINE u == ToDatagrams(sock)
<1>2. sock \in Sockets /\ sock.tcp \in Connections
  BY <1>1, SockParts DEF Types
<1>3. /\ Apart(sock, u, 4) /\ u.threadData = sock.threadData
      /\ u.tcp.inbound = sock.tcp.inbound /\ u.tcp.outbound = sock.tcp.outbound /\ u.tcp.active = sock.tcp.active
      /\ u.tcp.queued = FALSE
      /\ u.outboundShutdown = sock.outboundShutdown /\ u.inboundShutdown = sock.inboundShutdown
  BY <1>2, ToDatagramsIs
<1> HIDE DEF u
<1>4. ~BusyWait(sock, dropped)
  <2>1. TcpInterest(u, 4) = u.tcp.queued
    BY SMTT(30) DEF TcpInterest
  <2> QED
    BY <1>3, <2>1 DEF BusyWait, u
<1>5. UNCHANGED <<load, app, pair, abort, arrival, stdin, stdout, outcome>> /\ Running /\ sock.phase = "work" /\ sock' = u
  BY <1>4 DEF SockToDatagrams, SockTurn, u
<1>6. /\ u \in Sockets /\ u.loop.rules = sock.loop.rules /\ u.loop.todo[4] = "none"
      /\ \A q \in Rules : q # 4 => u.loop.todo[q] = sock.loop.todo[q]
      /\ u.phase = sock.phase /\ u.main = sock.main
  BY <1>3 DEF Apart
<1>7. SockResults'
  BY <1>1, <1>3, <1>5, <1>6, SMTT(30) DEF SockResults, Rules
<1>8. Evolved(sock.tcp, u.tcp, "none")
  <2> DEFINE d == sock.tcp
             e == u.tcp
  <2>1. e \in Connections
    BY <1>6, SockParts
  <2>2. \E m \in Nat :
          /\ e.inbound.buf = d.inbound.buf \o Count(d.inbound.numWritten, m)
          /\ e.inbound.numWritten = d.inbound.numWritten + m /\ e.inbound.size = d.inbound.size + m
          /\ d.inbound.isInputEnd => m = 0
    BY <1>2, <1>3, <2>1, SameBytes
  <2>3. \E p \in Seq(Bytes) :
          d.outbound.buf = p \o e.outbound.buf /\ e.outbound.numRead = d.outbound.numRead + Len(p)
    BY <1>2, <1>3, <2>1, NothingSent
  <2>4. ~e.active => e.inbound.error \/ Complete(e)
    BY <1>1, <1>3 DEF Ending, Complete
  <2> QED
    BY <1>3, <2>1, <2>2, <2>3, <2>4 DEF Evolved
<1> QED
  BY <1>3, <1>5, <1>6, <1>7, <1>8, EvolvesKeeps

\* The interest of two rules of the socket.
LEMMA TcpInterests ==
  ASSUME NEW t
  PROVE  /\ TcpInterest(t, 1) <=> t.tcp.active
         /\ TcpInterest(t, 3) <=>
              t.tcp.inbound.size > 0 \/ ((Eof(t.tcp.inbound) \/ t.tcp.inbound.error) /\ ~t.inboundShutdown)
<1>1. TcpInterest(t, 1) <=> t.tcp.active
  BY SMTT(30) DEF TcpInterest
<1>2. TcpInterest(t, 3) <=>
        t.tcp.inbound.size > 0 \/ ((Eof(t.tcp.inbound) \/ t.tcp.inbound.error) /\ ~t.inboundShutdown)
  BY SMTT(30) DEF TcpInterest
<1> QED
  BY <1>1, <1>2

\* The only rule that the TCP thread cancels for its descriptor is the one that reads the
\* socketpair, and by then the end of input has been passed on.
LEMMA TcpPolls ==
  ASSUME Types, SockOut, SockResults
  PROVE  LET setup == TcpSetUp(sock)
         IN  /\ setup.s = sock /\ setup.rules \in SUBSET Rules
             /\ 1 \in setup.rules
             /\ 3 \in setup.rules \/ sock.tcp.inbound.error
             /\ setup.polled = {r \in setup.rules : TcpInterest(sock, r)}
<1> DEFINE setup == TcpSetUp(sock)
<1>1. sock \in Sockets /\ sock.tcp \in Connections /\ sock.tcp.outbound \in Streams(Bytes)
      /\ sock.loop.rules \in SUBSET Rules
  BY SockParts DEF Types
<1>2. ASSUME NEW r \in Rules, TcpUsedUp(sock, r) PROVE TcpCancel(sock, r) = sock
  <2>1. r = 2 /\ sock.outboundShutdown /\ sock.tcp.outbound.isInputEnd
    BY <1>2 DEF TcpUsedUp, SockOut
  <2>2. EndInput(sock.tcp.outbound) = sock.tcp.outbound
    BY <1>1, <2>1, EndedAlready
  <2>3. EndedInput(sock.tcp) = sock.tcp
    <3>1. EndedInput(sock.tcp) = [sock.tcp EXCEPT !.outbound = sock.tcp.outbound]
      BY <2>2 DEF EndedInput
    <3> QED
      BY <1>1, <3>1 DEF Connections
  <2>4. sock.outboundShutdown = TRUE
    BY <1>1, <2>1 DEF Sockets
  <2>5. TcpCancel(sock, r) = [sock EXCEPT !.tcp = sock.tcp, !.outboundShutdown = TRUE]
    BY <2>1, <2>3 DEF TcpCancel
  <2> QED
    BY <1>1, <2>4, <2>5 DEF Sockets
<1>3. /\ setup.s = sock
      /\ setup.rules = {r \in sock.loop.rules : ~TcpUsedUp(sock, r)}
      /\ setup.polled = {r \in setup.rules : TcpInterest(sock, r)}
  BY <1>1, <1>2, TcpSetUpIs
<1> HIDE DEF setup
<1>4. setup.rules \in SUBSET Rules
  BY <1>1, <1>3
<1>5. ~TcpUsedUp(sock, 1) /\ ~TcpUsedUp(sock, 3)
  BY SMTT(30) DEF TcpUsedUp
<1>6. 1 \in setup.rules /\ (3 \in setup.rules \/ sock.tcp.inbound.error)
  BY <1>3, <1>5 DEF SockResults
<1> QED
  BY <1>3, <1>4, <1>6 DEF setup

\* What poll() says to the TCP thread.
LEMMA TcpPolled ==
  ASSUME Types, SockIn, Flags, CopyIn, Leaving, ~Over, NEW R \in SUBSET Rules, NEW what
  PROVE  LET todo == Results(R, {r \in R : TcpInterest(sock, r)}, TcpDirection, SockRevents(what))
         IN  /\ todo \in [Rules -> Verdicts]
             /\ todo[1] = "ready" => what # "none"
             /\ todo[2] = "ready" => pair.queue.tcp # <<>> \/ pair.noRead.tcp
             /\ todo[1] # "defunct" /\ todo[2] # "defunct"
             /\ todo[3] = "defunct" => sock.tcp.inbound.error
<1> DEFINE polled == {r \in R : TcpInterest(sock, r)}
           todo == Results(R, polled, TcpDirection, SockRevents(what))
           events == PairEvents(pair, "tcp")
           adapter == {"OUT"} \cup (IF what # "none" THEN {"IN"} ELSE {})
<1>1. todo \in [Rules -> Verdicts]
  BY DEF Results, Verdict, Verdicts
<1>2. \A r \in Rules : todo[r] = IF r \in R THEN Verdict(r, polled, TcpDirection, SockRevents(what)) ELSE "none"
  BY DEF Results
<1> HIDE DEF todo, polled
<1>3. /\ "IN" \in events <=> pair.queue.tcp # <<>> \/ pair.noRead.tcp
      /\ "HUP" \in events => pair.noRead.tcp /\ pair.noWrite.tcp
  <2>1. pair \in Pairs
    BY DEF Types
  <2> QED
    BY <2>1, PairParts DEF PairEvents
<1>4. ("IN" \in adapter => what # "none") /\ "HUP" \notin adapter
  OBVIOUS
<1>5. /\ SockRevents(what)[1] = adapter /\ SockRevents(what)[2] = events /\ SockRevents(what)[3] = events
      /\ TcpDirection[1] = "IN" /\ TcpDirection[2] = "IN" /\ TcpDirection[3] = "OUT"
  BY DEF SockRevents, TcpDirection
<1> HIDE DEF events, adapter
<1>6. (todo[1] = "ready" => what # "none") /\ todo[1] # "defunct"
  BY <1>2, <1>4, <1>5, SMTT(30) DEF Verdict, Rules
<1>7. /\ todo[2] = "ready" => pair.queue.tcp # <<>> \/ pair.noRead.tcp
      /\ todo[2] # "defunct"
  BY <1>2, <1>3, <1>5, SMTT(30) DEF Verdict, Rules
<1>8. todo[3] = "defunct" => sock.tcp.inbound.error
  <2> SUFFICES ASSUME todo[3] = "defunct" PROVE sock.tcp.inbound.error
    OBVIOUS
  <2>1. 3 \in polled /\ "HUP" \in events
    BY <1>2, <1>5, SMTT(30) DEF Verdict, Rules
  <2>2. sock.inboundShutdown
    BY <1>3, <2>1 DEF Flags, Shut, Leaving, CopyIn
  <2>3. sock.tcp.inbound.size > 0
    BY <2>1, <2>2, TcpInterests DEF polled
  <2> QED
    BY <2>2, <2>3, SMTT(30) DEF SockIn, Eof
<1> QED
  BY <1>1, <1>6, <1>7, <1>8 DEF todo, polled

\* The TCP thread asks its rules and polls, or leaves its loop.
LEMMA SockWaitKeeps == Inv /\ SockWait => Inv'
<1> SUFFICES ASSUME Inv, SockWait PROVE Inv'
  OBVIOUS
<1> /\ Types /\ CopyResults /\ RulesLeft /\ CopyOut /\ CopyIn /\ Flags /\ Leaving /\ SockResults
    /\ SockOut /\ SockIn /\ Ending /\ InputEnds /\ Pipes /\ Outcomes
  BY DEF Inv
<1> DEFINE setup == TcpSetUp(sock)
<1>2. UNCHANGED <<load, app, pair, abort, stdin, stdout, outcome>> /\ Running /\ sock.phase = "wait"
  BY DEF SockWait
<1>3. PICK what \in Waiting : SockAfterPoll(setup, what)
  BY DEF SockWait
<1> DEFINE todo == Results(setup.rules, setup.polled, TcpDirection, SockRevents(what))
<1>4. /\ setup.s = sock /\ setup.rules \in SUBSET Rules
      /\ 1 \in setup.rules
      /\ 3 \in setup.rules \/ sock.tcp.inbound.error
      /\ setup.polled = {r \in setup.rules : TcpInterest(sock, r)}
  BY TcpPolls
<1> HIDE DEF setup
<1>5. sock \in Sockets /\ ~Over /\ sock.tcp.inbound.size \in Nat
  BY <1>2, SockParts, Sizes DEF Types, Over
<1>6. /\ todo \in [Rules -> Verdicts]
      /\ todo[1] = "ready" => what # "none"
      /\ todo[2] = "ready" => pair.queue.tcp # <<>> \/ pair.noRead.tcp
      /\ todo[1] # "defunct" /\ todo[2] # "defunct"
      /\ todo[3] = "defunct" => sock.tcp.inbound.error
  BY <1>4, <1>5, TcpPolled
<1> HIDE DEF todo
<1>7. /\ sock' \in Sockets /\ sock'.loop.rules = setup.rules
      /\ sock'.tcp = sock.tcp /\ sock'.threadData = sock.threadData
      /\ sock'.outboundShutdown = sock.outboundShutdown /\ sock'.inboundShutdown = sock.inboundShutdown
      /\ sock'.main = sock.main
      /\ \/ sock'.phase = "leave" /\ setup.polled = {} /\ sock'.loop.todo = sock.loop.todo /\ arrival' = arrival
         \/ sock'.phase = "work" /\ sock'.loop.todo = todo /\ arrival' = what
  <2>1. CASE setup.polled = {}
    <3>1. sock' = [sock EXCEPT !.loop.rules = setup.rules, !.phase = "leave"] /\ arrival' = arrival
      BY <1>3, <1>4, <2>1 DEF SockAfterPoll
    <3> QED
      BY <1>4, <1>5, <2>1, <3>1 DEF Sockets, Loops
  <2>2. CASE setup.polled # {}
    <3>1. sock' = [sock EXCEPT !.loop = [rules |-> setup.rules, todo |-> todo], !.phase = "work"] /\ arrival' = what
      BY <1>3, <1>4, <2>2 DEF SockAfterPoll, todo
    <3> QED
      BY <1>4, <1>5, <1>6, <3>1 DEF Sockets, Loops
  <2> QED
    BY <2>1, <2>2
<1>8. ~Over'
  BY <1>7 DEF Over
<1>9. what \in {"none", "rst", "other"} \cup Help
      /\ (what = "fin" => sock.tcp.inbound.numWritten = load.peer)
  <2>1. what \in {"none", "rst", "other"} \cup Help /\ (what \in Help => Useful(what))
    BY DEF Waiting, Help
  <2>2. Useful("fin") => sock.tcp.inbound.numWritten = load.peer
    BY DEF Useful
  <2> QED
    BY <2>1, <2>2 DEF Help
<1>10. Types'
  BY <1>2, <1>7, <1>9 DEF Types
<1>11. CopyResults' /\ RulesLeft' /\ CopyOut' /\ CopyIn'
  BY <1>2, <1>5, <1>7, <1>8 DEF CopyResults, RulesLeft, CopyOut, CopyIn, InputRead
<1>12. Flags' /\ Leaving'
  BY <1>2, <1>5, <1>7, <1>8 DEF Flags, Leaving, Shut
<1>13. SockResults'
  BY <1>2, <1>4, <1>6, <1>7 DEF SockResults
<1>14. SockOut' /\ SockIn' /\ InputEnds'
  BY <1>2, <1>7, <1>9 DEF SockOut, SockIn, InputEnds, InputRead
<1>15. Ending'
  <2>1. ASSUME sock'.phase = "leave"
        PROVE  ~sock.tcp.active /\ (sock.tcp.inbound.error \/ sock.tcp.inbound.size = 0)
    <3>1. \A r \in setup.rules : ~TcpInterest(sock, r)
      BY <1>4, <1>7, <2>1
    <3> QED
      BY <1>4, <1>5, <3>1, TcpInterests, SMTT(30)
  <2> QED
    BY <1>2, <1>7, <2>1 DEF Ending
<1>16. Pipes'
  BY <1>2, <1>5, <1>7, <1>8 DEF Pipes
<1>17. Outcomes'
  BY <1>2 DEF Outcomes, DiesForAReason, Running
<1> QED
  BY <1>10, <1>11, <1>12, <1>13, <1>14, <1>15, <1>16, <1>17 DEF Inv

\* From the socketpair to the outbound stream of the connection.
LEMMA SockFromAppKeeps == Inv /\ SockFromApp => Inv'
<1> SUFFICES ASSUME Inv, SockFromApp PROVE Inv'
  OBVIOUS
<1> /\ Types /\ CopyResults /\ RulesLeft /\ CopyOut /\ CopyIn /\ Flags /\ Leaving /\ SockResults
    /\ SockOut /\ SockIn /\ Ending /\ InputEnds /\ Pipes /\ Outcomes
  BY DEF Inv
<1> DEFINE limit == RemainingCapacity(sock.tcp.outbound)
           got == PairGot(pair, "tcp", limit)
           left == PairRead(pair, "tcp", limit).queue.tcp
           end == sock.threadData.eof \/ (limit > 0 /\ got = <<>>)
<1>2. Running /\ sock.phase = "work" /\ sock.loop.todo[2] = "ready"
  BY DEF SockFromApp, SockTurn, Turn
<1>3. sock \in Sockets /\ sock.tcp \in Connections /\ sock.tcp.outbound \in Streams(Bytes) /\ pair \in Pairs
      /\ limit \in Nat
  BY SockParts, Sizes DEF Types
<1>4. LET q == PairRead(pair, "tcp", limit)
      IN  /\ ReadFrom(pair.queue.tcp, limit, got, left)
          /\ q \in Pairs /\ q.queue.app = pair.queue.app /\ q.noRead = pair.noRead /\ q.noWrite = pair.noWrite
  BY <1>3, TcpReads
<1>5. /\ got \in Seq(Bytes) /\ left \in Seq(Bytes) /\ pair.queue.tcp = got \o left /\ Len(got) <= limit
      /\ Len(left) <= Len(pair.queue.tcp)
      /\ pair.queue.tcp = <<>> => got = <<>> /\ left = <<>>
      /\ limit > 0 /\ got = <<>> => pair.queue.tcp = <<>>
  BY <1>4 DEF ReadFrom
<1>6. sock.tcp.outbound.isInputEnd => got = <<>>
  <2> HIDE DEF got, left, limit
  <2> QED
    BY <1>5 DEF SockOut
<1>7. ToWrite(sock.tcp.outbound, got) = Len(got)
  BY <1>3, <1>5, <1>6, WriteAll
<1>8. ~TookLess(sock, got)
  BY <1>7 DEF TookLess
<1>9. UNCHANGED <<load, app, abort, arrival, stdin, stdout, outcome>> /\ pair' = PairRead(pair, "tcp", limit)
  BY <1>8 DEF SockFromApp
<1>10. PICK n \in 0..1 : sock' = FromApp(sock, got, n)
  BY <1>8 DEF SockFromApp
<1>11. /\ Apart(sock, sock', 2) /\ sock'.threadData.eof = end
       /\ sock'.tcp.inbound = sock.tcp.inbound /\ sock'.tcp.active = sock.tcp.active
       /\ sock'.tcp.outbound.isInputEnd = (sock.tcp.outbound.isInputEnd \/ end)
       /\ \E p \in Seq(Bytes) :
            /\ sock.tcp.outbound.buf \o got = p \o sock'.tcp.outbound.buf
            /\ sock'.tcp.outbound.numRead = sock.tcp.outbound.numRead + Len(p)
            /\ sock'.tcp.outbound.size = sock.tcp.outbound.size + Len(got) - Len(p)
       /\ sock'.outboundShutdown = (sock.outboundShutdown \/ end) /\ sock'.inboundShutdown = sock.inboundShutdown
  <2>1. n \in Nat
    BY SMTT(30)
  <2> QED
    BY <1>3, <1>5, <1>7, <1>10, <2>1, FromAppIs
<1>12. /\ pair' \in Pairs /\ pair'.queue.tcp = left /\ pair'.queue.app = pair.queue.app
       /\ pair'.noRead = pair.noRead /\ pair'.noWrite = pair.noWrite
  BY <1>4, <1>9
<1> HIDE DEF got, left, limit
<1>13. PICK p \in Seq(Bytes) :
         /\ sock.tcp.outbound.buf \o got = p \o sock'.tcp.outbound.buf
         /\ sock'.tcp.outbound.numRead = sock.tcp.outbound.numRead + Len(p)
         /\ sock'.tcp.outbound.size = sock.tcp.outbound.size + Len(got) - Len(p)
  BY <1>11
<1>14. /\ sock' \in Sockets /\ sock'.loop.rules = sock.loop.rules /\ sock'.loop.todo[2] = "none"
       /\ \A r \in Rules : r # 2 => sock'.loop.todo[r] = sock.loop.todo[r]
       /\ sock'.phase = sock.phase /\ sock'.main = sock.main
  BY <1>11 DEF Apart
<1>15. ~Over /\ ~Over'
  BY <1>2, <1>14 DEF Over
<1>16. end => app.outboundShutdown /\ pair'.queue.tcp = <<>> /\ InputRead
  <2>1. CASE sock.threadData.eof
    BY <1>5, <1>12, <2>1 DEF SockOut
  <2>2. CASE limit > 0 /\ got = <<>>
    <3>1. pair.queue.tcp = <<>>
      BY <1>5, <2>2
    <3>2. pair.noRead.tcp
      BY <1>2, <3>1 DEF SockResults
    <3>3. app.outboundShutdown
      BY <1>15, <3>2 DEF Flags, Leaving, Shut
    <3>4. InputRead
      BY <1>15, <3>3 DEF CopyOut, Eof
    <3> QED
      BY <1>5, <1>12, <3>1, <3>3, <3>4
  <2> QED
    BY <2>1, <2>2
<1> HIDE DEF end
<1>17. Types'
  BY <1>9, <1>12, <1>14 DEF Types
<1>18. CopyResults' /\ RulesLeft' /\ CopyOut' /\ CopyIn'
  BY <1>9, <1>11, <1>12, <1>15 DEF CopyResults, RulesLeft, CopyOut, CopyIn, InputRead
<1>19. Flags'
  <2> DEFINE k == Len(pair.queue.tcp)
             m == Len(left)
  <2>1. k \in Nat /\ m \in Nat /\ PairCapacity \in Nat
    BY <1>3, <1>5, PairParts, SeqIsFunction, SocketAssumption
  <2>2. k <= PairCapacity /\ m <= k
    BY <1>5 DEF Flags
  <2> HIDE DEF k, m
  <2>3. m <= PairCapacity
    BY <2>1, <2>2, SMTT(30)
  <2> QED
    BY <1>9, <1>11, <1>12, <1>15, <2>3 DEF Flags, Shut, m
<1>20. Leaving'
  BY <1>9, <1>14, <1>15 DEF Leaving
<1>21. SockResults'
  <2>1. 1 \in Rules /\ 3 \in Rules /\ 1 # 2 /\ 3 # 2
    BY SMTT(30) DEF Rules
  <2>2. sock'.loop.todo[1] = sock.loop.todo[1] /\ sock'.loop.todo[3] = sock.loop.todo[3]
    BY <1>14, <2>1
  <2> QED
    BY <1>9, <1>11, <1>14, <2>2 DEF SockResults
<1>22. SockOut'
  <2>1. sock'.tcp.outbound.isInputEnd => end
    BY <1>11 DEF SockOut, end
  <2> QED
    BY <1>9, <1>11, <1>16, <2>1 DEF SockOut, InputRead
<1>23. SockIn'
  BY <1>9, <1>11 DEF SockIn
<1>24. Ending'
  <2>1. Complete(sock.tcp) => Complete(sock'.tcp)
    <3> SUFFICES ASSUME Complete(sock.tcp) PROVE Complete(sock'.tcp)
      OBVIOUS
    <3>1. sock.tcp.inbound.isInputEnd /\ sock.tcp.outbound.size = 0 /\ sock.tcp.outbound.isInputEnd
      BY DEF Complete, Eof
    <3>2. Len(got) = 0
      BY <1>6, <3>1, SMTT(30)
    <3>3. Len(p) \in Nat /\ sock'.tcp.outbound.size \in Nat
      BY <1>14, SockParts, Sizes, SeqIsFunction
    <3>4. sock'.tcp.outbound.size = 0
      BY <1>13, <3>1, <3>2, <3>3, SMTT(30)
    <3>5. sock'.tcp.outbound.isInputEnd
      BY <1>11, <3>1
    <3> QED
      BY <1>11, <3>1, <3>4, <3>5 DEF Complete, Eof
  <2> QED
    BY <1>2, <1>9, <1>11, <1>14, <2>1 DEF Ending
<1>25. sock'.tcp.outbound.numRead <= stdin.fed /\
       InLine(sock'.tcp.outbound.buf, left, app.outbound.buf, stdin.ready,
              sock'.tcp.outbound.numRead, stdin.fed - sock'.tcp.outbound.numRead)
  <2> DEFINE k == sock.tcp.outbound.numRead
             h == stdin.fed
             o == sock.tcp.outbound.buf
             a == sock'.tcp.outbound.buf
             c == app.outbound.buf
             f == stdin.ready
  <2>1. k \in Nat /\ o \in Seq(Bytes)
    BY <1>3, Sizes
  <2>2. a \in Seq(Bytes)
    BY <1>14, SockParts, Sizes
  <2>3. c \in Seq(Bytes)
    BY CopyParts, Sizes DEF Types
  <2>4. h \in Nat /\ f \in Seq(Bytes)
    BY DEF Types
  <2>5. k <= h /\ InLine(o, got \o left, c, f, k, h - k)
    BY <1>5, <1>15 DEF Pipes, InputEnds
  <2>6. o \o got = p \o a /\ sock'.tcp.outbound.numRead = k + Len(p)
    BY <1>13
  <2> HIDE DEF k, h, o, a, c, f
  <2>7. MovesToA(o, left, c, f, got)
    BY <1>5, <2>1, <2>3, <2>4, LineMoves
  <2>8. InLine(p \o a, left, c, f, k, h - k)
    BY <2>5, <2>6, <2>7 DEF MovesToA, InLine
  <2>9. h - k \in Nat
    BY <2>1, <2>4, <2>5, SMTT(30)
  <2>10. Len(p) <= h - k /\ InLine(a, left, c, f, k + Len(p), (h - k) - Len(p))
    BY <1>5, <2>1, <2>2, <2>3, <2>4, <2>8, <2>9, LineShrinks
  <2>11. Len(p) \in Nat
    BY SeqIsFunction
  <2>12. (h - k) - Len(p) = h - (k + Len(p)) /\ k + Len(p) <= h
    BY <2>1, <2>4, <2>10, <2>11, SMTT(30)
  <2> QED
    BY <2>6, <2>10, <2>12 DEF h, a, c, f
<1>26. InputEnds'
  BY <1>9, <1>25 DEF InputEnds
<1>27. Pipes'
  BY <1>9, <1>11, <1>12, <1>15, <1>25 DEF Pipes
<1>28. Outcomes'
  BY <1>2, <1>9 DEF Outcomes, DiesForAReason, Running
<1> QED
  BY <1>17, <1>18, <1>19, <1>20, <1>21, <1>22, <1>23, <1>24, <1>26, <1>27, <1>28 DEF Inv

\* From the inbound stream of the connection to the socketpair.
LEMMA SockToAppKeeps == Inv /\ SockToApp => Inv'
<1> SUFFICES ASSUME Inv, SockToApp PROVE Inv'
  OBVIOUS
<1> /\ Types /\ CopyResults /\ RulesLeft /\ CopyOut /\ CopyIn /\ Flags /\ Leaving /\ SockResults
    /\ SockOut /\ SockIn /\ Ending /\ InputEnds /\ Pipes /\ Outcomes
  BY DEF Inv
<1> DEFINE data == sock.tcp.inbound.buf
           n == PairTakes(pair, "tcp", data)
           q == PairWrite(pair, "tcp", data)
           front == SubSeq(data, 1, n)
<1>2. Running /\ sock.phase = "work" /\ ~Over
  BY DEF SockToApp, SockTurn, Over
<1>3. sock \in Sockets /\ sock.tcp.inbound \in Streams(Bytes) /\ pair \in Pairs /\ data \in Seq(Bytes)
      /\ sock.tcp.inbound.size = Len(data) /\ (sock.tcp.inbound.size = 0 <=> data = <<>>)
  BY SockParts, Sizes DEF Types
<1>4. pair.noWrite.tcp => sock.inboundShutdown
  BY <1>2 DEF Flags, Shut, Leaving, CopyIn
<1>5. CASE Sigpipe(pair, "tcp", data)
  <2>1. UNCHANGED <<load, app, sock, pair, abort, arrival, stdin, stdout>> /\ outcome' = "killed"
    BY <1>5 DEF SockToApp, Die
  <2>2. data # <<>> /\ sock.inboundShutdown
    BY <1>3, <1>4, <1>5, PairParts DEF Sigpipe
  <2>3. sock.tcp.inbound.error
    BY <1>3, <2>2 DEF SockIn, Eof
  <2>4. Outcomes'
    BY <2>1, <2>3 DEF Outcomes, DiesForAReason
  <2> QED
    BY <2>1, <2>4, EndsWell
<1>6. CASE ~Sigpipe(pair, "tcp", data)
  <2>1. UNCHANGED <<load, app, abort, arrival, stdin, stdout, outcome>> /\ sock' = ToApp(sock, n)
        /\ pair' = IF sock'.inboundShutdown THEN ShutWrite(q, "tcp") ELSE q
    BY <1>6 DEF SockToApp
  <2>2. /\ n \in 0..Len(data) /\ q \in Pairs
        /\ q.queue.app = pair.queue.app \o front /\ q.queue.tcp = pair.queue.tcp
        /\ q.noRead = pair.noRead /\ q.noWrite = pair.noWrite /\ Len(q.queue.app) <= PairCapacity
    <3>1. Len(pair.queue.app) <= PairCapacity
      BY DEF Flags
    <3> QED
      BY <1>3, <3>1, TcpWrites
  <2> HIDE DEF n, q, front
  <2>3. /\ Apart(sock, sock', 3) /\ sock'.threadData = sock.threadData
        /\ PoppedTo(sock.tcp.inbound, n, sock'.tcp.inbound)
        /\ sock'.tcp.outbound = sock.tcp.outbound /\ sock'.tcp.active = sock.tcp.active
        /\ sock'.outboundShutdown = sock.outboundShutdown
        /\ sock'.inboundShutdown = (sock.inboundShutdown \/ Eof(sock'.tcp.inbound) \/ sock'.tcp.inbound.error)
    BY <1>3, <2>1, <2>2, ToAppIs
  <2>4. /\ sock'.tcp.inbound \in Streams(Bytes) /\ data = front \o sock'.tcp.inbound.buf
        /\ sock'.tcp.inbound.size = sock.tcp.inbound.size - n
        /\ sock'.tcp.inbound.numWritten = sock.tcp.inbound.numWritten
        /\ sock'.tcp.inbound.isInputEnd = sock.tcp.inbound.isInputEnd
        /\ sock'.tcp.inbound.error = sock.tcp.inbound.error
    BY <2>3 DEF PoppedTo, front
  <2>5. /\ sock' \in Sockets /\ sock'.loop.rules = sock.loop.rules /\ sock'.loop.todo[3] = "none"
        /\ \A r \in Rules : r # 3 => sock'.loop.todo[r] = sock.loop.todo[r]
        /\ sock'.phase = sock.phase /\ sock'.main = sock.main
    BY <2>3 DEF Apart
  <2>6. /\ pair' \in Pairs /\ pair'.queue = q.queue
        /\ pair'.noRead.tcp = pair.noRead.tcp /\ pair'.noWrite.app = pair.noWrite.app
        /\ pair.noRead.app => pair'.noRead.app
        /\ pair.noWrite.tcp => pair'.noWrite.tcp
        /\ sock'.inboundShutdown => pair'.noWrite.tcp
        /\ pair'.noRead.app \/ pair'.noWrite.tcp =>
             sock'.inboundShutdown \/ pair.noRead.app \/ pair.noWrite.tcp
    <3>1. CASE sock'.inboundShutdown
      <4> DEFINE s == ShutWrite(q, "tcp")
      <4>1. pair' = s
        BY <2>1, <3>1
      <4>2. /\ s \in Pairs /\ s.queue = q.queue /\ s.noWrite.tcp = TRUE /\ s.noRead.app = TRUE
            /\ s.noWrite.app = q.noWrite.app /\ s.noRead.tcp = q.noRead.tcp
        BY <2>2, Shuts
      <4> HIDE DEF s
      <4> QED
        BY <2>2, <3>1, <4>1, <4>2
    <3>2. CASE ~sock'.inboundShutdown
      BY <2>1, <2>2, <3>2
    <3> QED
      BY <3>1, <3>2
  <2>7. front \in Seq(Bytes) /\ (data = <<>> => front = <<>>)
    <3>1. front \in Seq(Bytes) /\ Len(front) = n
      BY <1>3, <2>2, PrefixType DEF front
    <3>2. data = <<>> => n = 0
      BY <2>2, SMTT(30)
    <3> QED
      BY <3>1, <3>2, EmptyIsSeq
  <2>8. ~Over'
    BY <1>2, <2>5 DEF Over
  <2>9. Types'
    BY <2>1, <2>5, <2>6 DEF Types
  <2>10. CopyResults'
    <3>1. q.queue.app = <<>> => pair.queue.app = <<>>
      <4> DEFINE b == pair.queue.app
      <4>1. b \in Seq(Bytes)
        BY <1>3, PairParts
      <4>2. q.queue.app = b \o front
        BY <2>2
      <4> HIDE DEF b
      <4>3. Len(b \o front) = Len(b) + Len(front) /\ Len(b) \in Nat /\ Len(front) \in Nat
        BY <2>7, <4>1, ConcatElements, SeqIsFunction
      <4>4. b \o front = <<>> => Len(b) = 0
        BY <4>3, SMTT(30)
      <4> QED
        BY <4>1, <4>2, <4>4, EmptyIsSeq DEF b
    <3> QED
      BY <1>2, <2>1, <2>6, <3>1 DEF CopyResults, InputRead
  <2>11. RulesLeft' /\ CopyOut'
    BY <1>2, <2>1 DEF RulesLeft, CopyOut, InputRead
  <2>12. CopyIn'
    <3>1. app.socket.eof => pair.queue.app = <<>> /\ sock.inboundShutdown
      BY <1>2 DEF CopyIn
    <3>2. sock.inboundShutdown => data = <<>>
      BY <1>3, <1>6, PairParts DEF Flags, Sigpipe
    <3>3. app.socket.eof => q.queue.app = <<>>
      BY <2>2, <2>7, <3>1, <3>2, SMTT(30)
    <3> QED
      BY <2>1, <2>3, <2>6, <3>1, <3>3 DEF CopyIn
  <2>13. Flags'
    BY <1>2, <2>1, <2>2, <2>3, <2>6 DEF Flags, Shut
  <2>14. Leaving'
    BY <1>2, <2>1, <2>5, <2>8 DEF Leaving
  <2>15. SockResults'
    <3>1. pair'.queue.tcp = pair.queue.tcp /\ pair'.noRead.tcp = pair.noRead.tcp
      BY <2>2, <2>6
    <3>2. /\ sock'.loop.todo[1] = sock.loop.todo[1] /\ sock'.loop.todo[2] = sock.loop.todo[2]
          /\ sock'.loop.todo[3] = "none"
      BY <2>5, SMTT(30) DEF Rules
    <3> QED
      BY <2>1, <2>4, <2>5, <3>1, <3>2 DEF SockResults
  <2>16. SockOut' /\ InputEnds'
    BY <2>1, <2>2, <2>3, <2>6 DEF SockOut, InputEnds, InputRead
  <2>17. SockIn'
    <3>1. Eof(sock.tcp.inbound) => Eof(sock'.tcp.inbound)
      BY <1>3, <2>2, <2>4, SMTT(30) DEF Eof
    <3> QED
      BY <2>1, <2>3, <2>4, <3>1 DEF SockIn
  <2>18. Ending'
    BY <1>2, <2>3, <2>4, <2>5 DEF Ending, Complete
  <2>19. Pipes'
    <3> DEFINE a == stdout.got
               b == app.inbound.buf
               c == pair.queue.app
               d == sock'.tcp.inbound.buf
    <3>1. a \in Seq(Bytes) /\ b \in Seq(Bytes) /\ c \in Seq(Bytes) /\ d \in Seq(Bytes)
      <4>1. b \in Seq(Bytes)
        BY CopyParts, Sizes DEF Types
      <4>2. c \in Seq(Bytes)
        BY <1>3, PairParts
      <4>3. a \in Seq(Bytes)
        BY DEF Types
      <4> QED
        BY <2>4, <4>1, <4>2, <4>3, Sizes
    <3>2. MovesToC(a, b, c, d, front)
      BY <2>7, <3>1, LineMoves
    <3>3. Line(a, b, pair'.queue.app, d) = Line(a, b, c, data)
      BY <2>2, <2>4, <2>6, <3>2 DEF MovesToC
    <3> HIDE DEF a, b, c, d
    <3>4. InLine(a, b, pair'.queue.app, d, 0, sock.tcp.inbound.numWritten)
      BY <3>3 DEF Pipes, InLine, a, b, c
    <3> QED
      BY <1>2, <2>1, <2>2, <2>3, <2>4, <2>6, <3>4 DEF Pipes, a, b, d
  <2>20. Outcomes'
    BY <1>2, <2>1 DEF Outcomes, DiesForAReason, Running
  <2> QED
    BY <2>9, <2>10, <2>11, <2>12, <2>13, <2>14, <2>15, <2>16, <2>17, <2>18, <2>19, <2>20 DEF Inv
<1> QED
  BY <1>5, <1>6

\* Every step keeps Inv.
LEMMA NextInv == Inv /\ [Next]_vars => Inv'
<1> SUFFICES ASSUME Inv, [Next]_vars PROVE Inv'
  OBVIOUS
<1>1. CASE AppThread
  BY <1>1, CopyWaitKeeps, CopyCancelsKeeps, CopyThrowsKeeps, CopyFromInputKeeps, CopyToSocketKeeps,
     CopyFromSocketKeeps, CopyToOutputKeeps, AppCloseKeeps, AppJoinKeeps DEF AppThread
<1>2. CASE TcpThread
  BY <1>2, SockWaitKeeps, SockCancelsKeeps, SockFromDatagramsKeeps, SockFromAppKeeps, SockToAppKeeps,
     SockToDatagramsKeeps, SockTickKeeps, SockOpenedKeeps, SockEndKeeps DEF TcpThread
<1>3. CASE World
  BY <1>3, FeedKeeps, BreakOutputKeeps DEF World
<1>4. CASE Ended \/ UNCHANGED vars
  BY <1>4, StutterKeeps DEF Ended, vars
<1> QED
  BY <1>1, <1>2, <1>3, <1>4 DEF Next

\* Inv holds throughout.
LEMMA SpecInv == Spec => []Inv
BY InitInv, NextInv, PTL DEF Spec

\* For all loads and capacities: every byte of either direction is, in order and once, in one of the
\* places between stdin, stdout and the connection, whatever the two threads do (the callbacks of
\* rules 2 and 3 in tcp_sponge_socket.cc and those of bidirectional_stream_copy.cc).
THEOREM NothingLostHolds == Spec => []NothingLost
<1>1. Inv => NothingLost
  BY DEF Inv, Pipes, InLine, Line, NothingLost, Over
<1> QED
  BY <1>1, SpecInv, PTL

\* For all loads and capacities: the process is killed, fails or succeeds for the reasons it may
\* have, and neither exception of the TCP thread is ever thrown (tcp_sponge_socket.cc:101,
\* eventloop.cc:135), however stale the results of poll() are when they are used.
THEOREM DiesForAReasonHolds == Spec => []DiesForAReason
<1>1. Inv => DiesForAReason
  BY DEF Inv, Outcomes
<1> QED
  BY <1>1, SpecInv, PTL

\* A process that succeeds behind a connection that was not reset has come to the end of both streams.
LEMMA SuccessIsComplete ==
  ASSUME Inv, outcome = "success", ~sock.tcp.inbound.error
  PROVE  /\ stdin.closed /\ sock.tcp.outbound.numRead = load.input
         /\ sock.tcp.inbound.isInputEnd /\ Len(stdout.got) = load.peer
<1> /\ Types /\ CopyOut /\ CopyIn /\ Flags /\ Leaving
    /\ SockOut /\ SockIn /\ Ending /\ InputEnds /\ Pipes /\ Outcomes
  BY DEF Inv
<1>2. Over /\ Shut
  BY DEF Outcomes
<1>3. sock.main /\ ~app.threw /\ ~abort
  BY <1>2 DEF Leaving, Shut
<1>4. ~sock.tcp.active /\ sock.tcp.inbound.size = 0
  BY <1>2, <1>3 DEF Ending, Over
<1>5. sock.tcp.inbound.isInputEnd /\ sock.tcp.outbound.size = 0 /\ sock.tcp.outbound.isInputEnd
  BY <1>4 DEF Ending, Complete, Eof
<1>6. sock.threadData.eof /\ app.outboundShutdown /\ pair.queue.tcp = <<>> /\ InputRead
  BY <1>5 DEF SockOut
<1>7. app.outbound.size = 0
  BY <1>6 DEF CopyOut, Eof
<1>8. app.socket.eof /\ app.inbound.size = 0 /\ pair.queue.app = <<>>
  BY <1>2 DEF Leaving, Shut, CopyIn
<1>9. sock.tcp.outbound.buf = <<>> /\ sock.tcp.inbound.buf = <<>>
      /\ sock.tcp.outbound.numRead \in Nat /\ sock.tcp.inbound.numWritten \in Nat
  BY <1>4, <1>5, SockParts, Sizes DEF Types
<1>10. app.outbound.buf = <<>> /\ app.inbound.buf = <<>>
  BY <1>7, <1>8, CopyParts, Sizes DEF Types
<1>11. stdin.closed /\ stdin.ready = <<>>
  BY <1>6 DEF InputRead
<1>12. sock.tcp.outbound.numRead = load.input
  <2> DEFINE k == sock.tcp.outbound.numRead
             f == stdin.fed
  <2>1. InLine(<<>>, <<>>, <<>>, <<>>, k, f - k)
    BY <1>6, <1>9, <1>10, <1>11 DEF Pipes
  <2>2. k \in Nat /\ f \in Nat /\ k <= f /\ f = load.input
    BY <1>9, <1>11 DEF InputEnds, Types
  <2> HIDE DEF k, f
  <2>3. <<>> \in Seq(Bytes)
    BY SMTT(30)
  <2>4. Count(k, f - k) = <<>>
    BY <2>1, <2>3, LineOfOne DEF InLine
  <2>5. f - k \in Nat
    BY <2>2, SMTT(30)
  <2>6. Len(Count(k, f - k)) = f - k
    BY <2>2, <2>5, CountType
  <2>7. f - k = 0
    BY <2>4, <2>6
  <2> QED
    BY <2>2, <2>7, SMTT(30) DEF k
<1>13. Len(stdout.got) = load.peer
  <2> DEFINE n == sock.tcp.inbound.numWritten
             a == stdout.got
  <2>1. InLine(a, <<>>, <<>>, <<>>, 0, n)
    BY <1>8, <1>9, <1>10 DEF Pipes
  <2>2. n \in Nat /\ a \in Seq(Bytes) /\ n = load.peer
    BY <1>5, <1>9 DEF SockIn, Types
  <2> HIDE DEF n, a
  <2>3. a = Count(0, n)
    BY <2>1, <2>2, LineOfOne DEF InLine
  <2>4. Len(Count(0, n)) = n
    BY <2>2, CountType
  <2> QED
    BY <2>2, <2>3, <2>4 DEF a
<1> QED
  BY <1>5, <1>11, <1>12, <1>13

\* For all loads and capacities: when main() returns EXIT_SUCCESS (tcp_udp.cc:135) behind a connection
\* that was not reset, all of stdin has been taken for segments, and all of the peer's stream is on
\* stdout.
THEOREM CleanExitIsCompleteHolds == Spec => []CleanExitIsComplete
<1>1. Inv => CleanExitIsComplete
  BY SuccessIsComplete DEF CleanExitIsComplete
<1> QED
  BY <1>1, SpecInv, PTL
===============================================================================
