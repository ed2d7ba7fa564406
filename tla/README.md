# Sponge: a TLA+ model of the TCP implementation

The repository implements TCP in user space. `libsponge` holds the protocol as a stack of
classes; `libsponge/tcp_helpers` and `libsponge/util` connect it to the operating system; `apps`
are command-line programs on top. This directory models the protocol classes, the wire formats
and adapters, and the two threads of a program that uses them; checks them with TLC on small
instances; and proves the properties of the byte stream, the sequence numbers, the reassembler,
the receiver, the sender and the two threads with TLAPS for all instances.

## The system

| Part | Code | What it does | Model |
|---|---|---|---|
| ByteStream | `byte_stream.{hh,cc}` | bounded FIFO of bytes with an end and an error flag | `ByteStream` |
| StreamReassembler | `stream_reassembler.{hh,cc}` | puts overlapping, unordered excerpts in order | `StreamReassembler` |
| Wrapping integers | `wrapping_integers.{hh,cc}` | 32-bit sequence numbers to 64-bit indices and back | `WrappingIntegers` |
| TCPReceiver | `tcp_receiver.{hh,cc}` | segments to reassembler; ackno and window | `TCPReceiver` |
| TCPSender | `tcp_sender.{hh,cc}` | stream to segments; retransmission queue and timer | `TCPSender` |
| TCPConnection | `tcp_connection.{hh,cc}` | one endpoint: sender, receiver, opening, closing, reset | `TCPConnection` |
| TCPState | `tcp_helpers/tcp_state.{hh,cc}` | names the RFC 793 state of a connection | `TCPState` |
| TCPSpongeSocket | `tcp_helpers/tcp_sponge_socket.{hh,cc}` | drives a connection from an event loop in a thread | `TCPSpongeSocket` |
| EventLoop | `util/eventloop.{hh,cc}` | poll loop with rules | `EventLoop` |
| FileDescriptor | `util/file_descriptor.{hh,cc}`, `util/socket.{hh,cc}` | read, write, close, shutdown | `FileDescriptor`, partly |
| TCPSegment, TCPHeader | `tcp_helpers/tcp_segment.*`, `tcp_header.*` | wire format | `TCPSegment` |
| IPv4 header and datagram | `tcp_helpers/ipv4_*` | wire format | `IPv4Datagram` |
| NetParser, InternetChecksum | `util/parser.*`, `util/util.*` | network-order integers, checksum | `NetParser`, partly |
| FD adapters | `tcp_helpers/fd_adapter.*`, `tcp_over_ip.*`, `tuntap_adapter.*` | segments in UDP or IPv4 datagrams | `FdAdapter` |
| LossyFdAdapter | `tcp_helpers/lossy_fd_adapter.hh` | drops segments at random | `FdAdapter`, and the faults of the other specifications |
| Stream copy, tcp_udp | `apps/bidirectional_stream_copy.cc`, `apps/tcp_udp.cc` | stdin and stdout to a socket | `StreamCopy`, `SocketSpec` |
| Buffers | `util/buffer.*` | shared byte strings | sequences |
| Address, TunFD | `util/address.*`, `util/tun.*` | wrappers of system calls | no |
| Other applications | `apps/*` | webget, tcp_ipv4, ... | no |

A datagram goes through the adapter, which filters it and parses a segment out of it, to
`TCPConnection::segment_received`. That gives the segment to the receiver (which unwraps its
number and pushes its payload into the reassembler, whose output is the inbound ByteStream) and
its acknowledgment to the sender. The sender takes bytes from the outbound ByteStream and queues
segments; the connection adds its ackno and window and queues them for the socket, which hands
them to the adapter. A tick every 10 ms drives timeouts. All of that happens on the TCP thread of
`TCPSpongeSocket`; the application is on another thread, at the other end of a socketpair.

## Modules

The modules named after a class have no variables: an object is the record of the class's
members (`_baseSqn` is the field `baseSqn`), a method is an operator from the object and the
arguments to the object after the call, and statements that follow each other are composed.
That way a connection contains a sender, and a sender a byte stream, as in the code, and the
same definitions are checked at every level. The modules named `...Spec` put one object, or
several, into an environment: variables, one action per call, and the properties. `MC...`
modules give TLC values that a configuration cannot write down. Operators whose comment says
"Mutant of" are faulty versions of the definition that follows; no specification uses them. Each
property of a passing run is violated when the definition is replaced by one of them.

Protocol:

* `MachineTypes`: addition and subtraction of `size_t` modulo `SizeMod`.
* `ByteStream`, `ByteStreamSpec`. A writer and a reader call every method in any order; `accepted`
  and `delivered` record what went in and came out.
* `WrappingIntegers`. `SeqMod` is 2^32 in the code. `RoundTrip` and `UnwrapIsClosest` are checked in
  `TCPReceiverSpec`, next to the checkpoint the receiver passes.
* `StreamReassembler`, `StreamReassemblerSpec`. `push_substring` is `PushSubstring`: note the end
  (`NoteEof`), cut the excerpt (`CutFront`, `CutBack`), store it (`TryInsert`), write what is
  contiguous (`TryPush`). The loop of the code is a set expression: the chain of strings without a
  gap from `_exIdx`, the part of it that fits, and the one string that fits in part. The code builds
  the remainder of that last string from a map node it has just erased; the model overwrites the
  first `junk` bytes of it with `Garbage` for each `junk` in `Junk`, 0 included. The peer is polite
  (it stays in the window and sends each index with one content) or not.
* `OrderedDelivery`: what a reassembler promises, as sets of indices; `KeepsPromise` is the
  refinement.
* `TCPReceiver`, `TCPReceiverSpec`: segments of one stream, lost, duplicated and reordered, old ones
  up to `MaxDelay` bytes behind, and keep-alives.
* `TCPSender`, `TCPSenderSpec`: `UnAckQueue`, `Timer` and the sender. The queue's payload sizes are
  kept as the sequence numbers where the segments end. The peer acknowledges the end of any segment
  sent, with any window that does not take back what it promised; up to `MaxLate` of its
  acknowledgments arrive again later.
* `TCPConnection`: one operator per branch of `segment_received`, in the code's order, then write,
  tick, end of input, connect, and the destructor. `TCPState`: the summaries and the table of
  official states.
* `TCPConnectionSpec`: a client, a server and a network. The actions are the rules of the event loop
  of `TCPSpongeSocket` (`Deliver` is rule 1, `AppWrite` and `AppEndInput` rule 2, `AppRead` rule 3,
  `Transmit` rule 4), `AppConnect`, `Tick`, and `AppDestroy`; the network's are `Lose` and
  `Duplicate`. Each direction is a queue; a duplicate goes behind what is on its way. `Plans` are
  the conversations considered: the bytes each side writes, how many faults there may be and of
  which kinds (a loss, a copy, a delay past a timeout), and whether a connection may be destroyed.

Wire formats and adapters:

* `NetParser`: integers in network order, the sticky error of a parser, the Internet checksum.
* `TCPSegment`, `IPv4Datagram`: parsing and serialising byte for byte, with the checksums and the
  pseudo-header. As in the code, both `parse()` drop the verdict of the header's own parser.
* `FdAdapter`, `FdAdapterSpec`: the filters on addresses and ports, a listening adapter that learns
  its peer, reads and writes over UDP and over IPv4, and the lossy adapter in front of them. Two
  clients and a server, a network that damages a byte, and datagrams that are no segments.

Threads:

* `DuplexConnection`, `DuplexConnectionSpec`: what the socket relies on of a connection, as two byte
  streams, "segments are queued", and the two ways to become inactive. `KeepsContract` of
  `TCPConnectionSpec` shows that each of the two detailed connections implements it.
* `EventLoop`: `wait_next_event` in two halves, the interest and cancellation of the rules up to
  `poll()`, and the work on its results, one callback at a time, with error, hang-up and the
  busy-wait check.
* `FileDescriptor`: a descriptor's eof and closed flags, and a socketpair with two queues,
  shutdowns and SIGPIPE (the socketpair is the kernel's, modelled from how the code uses it).
* `StreamCopy`: the four rules of `bidirectional_stream_copy`. `TCPSpongeSocket`: the four rules of
  the socket, over a `DuplexConnection`.
* `SocketSpec`: the program `tcp_udp` from the opening of the connection to the exit code. The main
  thread and the TCP thread interleave between callbacks and between `poll()` and each callback, so
  results are stale when they are served. stdin may be a pipe or a terminal, stdout may break, and
  the peer may send whatever is due, a reset, or a datagram that is no segment.

Proofs: `CommonLemmas` (sequences, byte streams, wrapped numbers), `ByteStreamProofs`,
`WrappingIntegersProofs`, `StreamReassemblerLemmas`, `StreamReassemblerProofs`, `TCPReceiverProofs`,
`TCPSenderProofs`, `SocketProofs`.

## Runs

Passing:

| Run | Instance | Shows |
|---|---|---|
| ByteStream | capacity 3, 6 bytes of 2 values | `CountersAgree`, `FirstInFirstOut`, `EofIsFinal` |
| Reassembler | capacity 4, stream of 6, polite and impolite peers, two contents per index, 0 or 2 bytes of garbage | for every peer `MapWellFormed`, `EndsExactlyAtEof`, `NewestWins` and the count of stored bytes; for a polite one `InOrderInsideWindow`, the capacity (`CountedWithinCapacity`), refinement `KeepsPromise`, liveness `StreamCompletes` |
| TCPReceiver | modulus 8, stream of 18, every initial number | `RoundTrip` and `UnwrapIsClosest` at every stream index; `DeliveredInOrder`, `AcknowledgesOutput`, `WindowNeverShrinks` through two turns |
| TCPSender | 4 bytes, windows 0 to 4, 2 retransmissions in a row, 1 late ack | `SequenceSpaceAccounted`, `SegmentsCarryTheStream`, `TimerRunsWhileOutstanding`, `StaysInNewestWindow`, `RetransmitsOldest`, `LateAckMovesNothing` |
| Connection | client sends 2 bytes with 1 fault of any kind; 1 byte with 2 losses; nothing with 4 losses; 1 byte each way where either end may be destroyed at any time | `StreamsIntact`, `AckedMeansDelivered`, `ClosesBehindBothStreams`, `FollowsDiagram`, refinement `KeepsContract`, liveness `ComesToRest` |
| Adapter | UDP and IPv4, three hosts, 4 segments, 5 kinds of damage to any one byte, 4 strays | `ArrivesAsSent`, `IntactIsHeard`, `OnePeer` |
| Socket | buffers of 1 byte (2 for the connection's, either way); 1 byte on stdin, a pipe, and 5 from the peer; 2 bytes on stdin, a terminal, and none from the peer; client and server | `NothingLost`, `CleanExitIsComplete`, `DiesForAReason`, liveness `ProcessEnds`, no deadlock |

The runs of the protocol classes also check a `TypeOK`. Five runs end in a violation: the
code does not do what a comment or document of the repository says.

* `ReassemblerContent`: `push_substring` uses references into an erased map node
  (`stream_reassembler.cc:148-150`). The run shows an excerpt that exceeds the free room whose
  remainder is delivered with other bytes. It takes a peer that overruns the window:
  `InOrderInsideWindow` holds, and is proved, for the others.
* `SenderLateAck`: `ack_received` takes the window of an overtaken acknowledgment, and the unsigned
  `remainSpace()` wraps (`tcp_sender.cc:52`, `tcp_sender.hh:319`). Segments go out past the window.
  `StaysInNewestWindow` is what still holds.
* `ConnectionReset`: the out-of-order case of `segment_received` comes before the test for RST
  (`tcp_connection.cc:33-52`). A RST inside the window, but not at the ackno, is only answered. The
  sender produces such a RST itself: `sendRSTSeg` uses the number of the first segment still queued.
* `ConnectionClosing`: a connection in `_time_wait` ends after ten timeouts whether its own FIN was
  acknowledged or not (`tcp_connection.cc:177`). `ClosesBehindBothStreams` is what still holds.
* `ConnectionDestroyed`: the destructor's RST stays in a queue of the object that is destroyed
  (`tcp_connection.cc:200`; `_tcp_main` resets `_tcp` behind its event loop), although
  `tcp_connection.hh:167` and `tcp_sponge_socket.hh:73` and `:119-120` say that it is sent. The run
  shows, over a network that loses nothing, a peer left in FIN_WAIT_2 behind the last segment, with
  no timer that would end it. What still holds is in `ComesToRest`: only FIN_WAIT_2 and LISTEN last.
  In every other state the peer has, or will have once its application ends its stream, something
  that is never acknowledged, and gives up.

What the Socket run tells about the program without contradicting a document: after a reset with
more inbound bytes than the socketpair has room for, rule 3 shuts the socketpair down behind a
part of them, and the rest ends the process by SIGPIPE; so does a write of the copy when the TCP
thread ended by a reset; bytes typed after the TCP thread ended are read and thrown away; and the
exit code is that of success even behind a reset. `DiesForAReason` and `CleanExitIsComplete` are
stated accordingly.

### Bounds

Capacities of 2 to 4 with excerpts up to the capacity give every kind of overlap: in front, behind,
inside, around, adjacent, and several strings at once; streams are longer than the capacity so that
the window moves. `SeqMod` is small enough that numbers wrap inside a run (a receiver's stream of 18
from each of 8 initial numbers, and the others from 30 of 32), and the assumptions of the modules
keep windows below half of it, as 2^32 does. `MAX_PAYLOAD_SIZE` is 2 so that a window holds several
segments. `RetxTimeout` is one tick and `LingerFactor` 4 instead of 10: long enough for every
retransmission of a peer (`MAX_RETX_ATTEMPTS` 2, with timeouts 1 and 2) to arrive within it.
`MaxIdle` cuts off ticks that change nothing but a counter.

The plans of `Connection` tell apart what one fault can do and what several can. One fault of any
kind is always made good: both connections end. With two losses an end may reach `MAX_RETX_ATTEMPTS`
and give up. Its RST can be lost, or ignored as in `ConnectionReset`; the survivor then gives up too
if it has anything outstanding, and stays for ever if it is in LISTEN or FIN_WAIT_2, where nothing
runs out. `ComesToRest` says just that: from some point on each connection has ended, or its peer is
gone, after a destruction or more than one fault, and it is in one of those two states. Four losses
with no bytes reach the other ways to give up, that of a client whose SYN is never answered among
them. `MaxIdle` is large enough for the latest give-up of any plan. `FollowsDiagram` has one
exception, in the same plans: a connection that waits in CLOSING for the acknowledgment of its FIN
is ended by the time-out of `ConnectionClosing`, in a state the official table does not have.

A tick while segments are under way is a fault (a delay): segments normally arrive within a timeout,
and without this every run would be dominated by spurious retransmission. There is one case where
they never stop being under way. Two ends that each miss a segment answer each other's empty
answers as out of order (`tcp_connection.cc:41`) without pause; time passes during this exchange
(`OnlyAnswers`), as it does in the code, and a retransmission ends it.

In `Adapter` the bytes are real: addresses, ports, sequence numbers and windows sit at the edges of
their fields, a payload has an odd length so that the checksum is padded, and damage adds 1, 16, 64,
128 or 254 to any byte, which hits every flag, both halves of a checksum word and the carry. One
datagram is on its way at a time: the adapters keep no state from one datagram to the next but the
peer they learned. In `Socket` the peer sends more than all buffers on the way to stdout hold
together (two bytes in the connection, one each in the pair and the copy), so every one of them can
be full while the next one is; on the way out, where the connection has room for two, one load has
one byte and the other two.

### Fairness

`StreamCompletes` assumes that the reader keeps reading and that the peer keeps sending the oldest
missing byte, which is what `TCPSender::tick` does. `FairSpec` of `TCPConnectionSpec` assumes weak
fairness of the event-loop rules (`EventLoop::wait_next_event` serves every ready descriptor in each
round), of the tick once nothing is under way or only such empty answers are (`_tcp_loop` wakes at
least every 10 ms, and ticks after each event too), and that applications read, write
their bytes and end their streams, as `bidirectional_stream_copy` does. Nothing is assumed of
`Lose`, `Duplicate` and `AppDestroy`. `Fair` of `SocketSpec` assumes, while the process lives, that
stdin ends, that the TCP thread keeps turning (`poll()` has a timeout there) until it ends, that the
main thread moves when `poll()` or `join()` lets it, and that the peer, which retransmits, gets
through with some of what is due. Without the last a peer that is silent for ever keeps the
connection, and so the process, alive: there is no keep-alive. The conditions are written as
"infinitely often disabled, or infinitely often taken", with the enabling condition spelled out,
because TLC evaluates `ENABLED` of these nested definitions too slowly.

Deadlock is not checked where the system may stop: in `Reassembler` (a stream that has ended) and in
the connection runs (connections that have closed). `Socket` stutters only after the process ended,
so its deadlock check says that some thread can always move before.

## Proofs

`ByteStreamProofs`, for every capacity, set of bytes and bound (`CapacityAssumption`,
`BoundsAssumption`): `TypeCorrect`, `CountersCorrect`, `StreamIsFifo`, `EofStays`. The inductive
invariant is `TypeOK /\ CountersAgree /\ FirstInFirstOut`. None of the three is inductive alone:
`_size` is a counter kept by hand, and only where it equals the length of `_buf` does `write` append
behind the last byte and `read` take what it peeked. `TypeCorrect` says that neither the deque nor
`_size` passes the capacity. The lemmas `WriteAppends` and `PopSplits` say
what the two methods do to any such stream; the reassembler's and the sender's proofs use them too.

`WrappingIntegersProofs`, for every even modulus (`SeqModAssumption`), initial number and
checkpoint: `RoundTripCorrect` and `ClosestCorrect`. `TCPReceiverProofs` applies them to the states
of the receiver (`ReceiverRoundTrip`, `ReceiverUnwrapsClosest`). The argument is modular arithmetic:
a remainder is unique (`ModUnique`), so the signed difference of two wrapped numbers is the distance
modulo the space (`MinusOfWrapped`), so `unwrap` shifts the checkpoint by at most half the space to
a number that wraps alike (`UnwrapShifts`, `UnwrapInverts`), and two numbers that wrap alike are at
least a whole space apart (`MultiplesApart`, `UnwrapNearest`).

`StreamReassemblerProofs`, for every capacity, stream, length of a push, set of contents and amount
of garbage, as long as `size_t` is wide enough for the indices (`WidthAssumption`) and garbage is
told from the peer's bytes (`GarbageAssumption`): `ReassemblerMap`, `ReassemblerEnds`,
`ReassemblerDelivers` (a reader whose peer stays in the window gets that peer's stream),
`ReassemblerNewest` (`NewestWins`), and the refinement `ReassemblerKeepsPromise`. The lemmas are
about any map whose strings do not overlap, lie between `lo` and `hi`, and hold at each index i a
byte of a set `G[i]` (`Fits`), and say which indices a map holds (`Holds`). `CutFrontKeeps`,
`CutBackKeeps` and `CutDataKeeps`: cutting keeps such a map, loses no index, and leaves free the
place where the rest of the data goes. `FrontReaches`, `LeftFits`, `LoopBytesPlaced` and
`TryPushIs`: the push loop takes a gapless prefix, in order, and a remainder is left only at the end
of the output's room. The inductive invariant (`Consistent`) chooses `G` and `hi` by the peer's
manners. For a polite peer `G[i]` is the one byte of index i and `hi` is the right edge of the
window, so no string reaches past the room of the output, no remainder is built, and the erased node
is never read; this is also why the refinement needs politeness. For any other peer `G[i]` is any
byte or garbage. The end needs the conjunct that a noted `_eofIdx` is the length of the stream.

`NewestWins` is about one more push from any reachable state, in a run where nothing reuses the
freed buffer of that push, and follows from the same invariant. A map has the new bytes when each
string holds, wherever it meets the pushed one, the pushed byte (`Newest`). `FrontNewest`: the
strings in front of what is left of the data are overwritten or do not meet it. `BackNewest`: so are
the strings behind, and those inside are gone. `InsertNewest` and `LoopNewest`: storing the rest and
pushing to the output move bytes and change none. A push may reach past the end of the stream here,
so these lemmas are used with a `hi` behind every push and a `G` that allows every byte
(`AllBytes`).

`TCPSenderProofs`, for every capacity, initial number, payload size, window and number of late
acknowledgments (`SpecAssumption`: windows and streams below half the sequence space):
`SenderTypes`, `SenderAccounts`, `SenderTimer`, `SenderLateAcks`, `SenderStaysInWindow`.
`SenderTypes` is about all members of the queue, the timer and the stream: the window is never taken
to be 0, and nothing is erased past the end of a deque. `SequenceSpaceAccounted` is not inductive.
`QueueInv` adds that the recorded ends ascend, that the flags are set in the order of the handshake,
and that nothing but the SYN is out before it is acknowledged; `SenderInv` adds the timer and the
count of what was read off the stream; and `Inv` adds the peer: its newest acknowledgment is where
the queue begins, and each late one is no newer. The first lemmas of the module show what `push`,
`erase` and `updateBase` keep of any queue, for every payload size; that wrapped acknowledgments
mean the numbers the peer meant is `UnwrapInverts` again.

The second half of the module, from the same assumptions: `SenderCarries` (`SegmentsCarryTheStream`)
and `SenderRetransmits` (`RetransmitsOldest`). What a segment carries depends on bytes that were
copied three times, from the stream into the queue, from the queue into a first segment, and, after
a timeout, from the front of the queue into a second one. `Inv2` therefore adds to `Inv` that the
queue holds the run of bytes that begins at its base, that the stream holds the run that begins
behind what was read off it, that a FIN was sent only at the end of the stream, and that the
segments waiting in `_segments_out` carry that stream (`Content`). Each of the sender's methods
keeps this by a lemma of its own.

`TCPReceiverProofs`, for every capacity, stream length, payload size, initial number and delay below
half the sequence space (`ReceiverAssumption`): `ReceiverTypes`, `ReceiverDelivers`
(`DeliveredInOrder`), `ReceiverAcknowledges` (`AcknowledgesOutput`) and `ReceiverWindow`
(`WindowNeverShrinks`). A segment is unwrapped against what was written so far, so a segment that is
at most half the space away is pushed at the index its bytes have in the stream (`UnwrapInverts`),
and the window keeps what the reassembler stores inside the room of the output. The rest is the
reassembler's invariant (`Good`, with the peer's one byte for each index), and that `_ackno`, which
is kept by hand, is the wrapped number behind the output. `ReceiverTypes` is about all members but
the count of stored bytes, which `CountedWithinCapacity` is about; that nothing held or delivered is
a byte of a keep-alive follows from `Good`.

`SocketProofs`, for all capacities of the buffers and the socketpair, all lengths of the two streams
and both kinds of stdin (`SocketAssumption`): `NothingLostHolds`, `CleanExitIsCompleteHolds` and
`DiesForAReasonHolds`. A byte on its way from stdin to the connection, or from the connection to
stdout, lies in one of four places, and either thread moves it on from its own side at any moment.
An end of stream travels the same way as a flag, a shut socketpair or a rule that is no longer
there. The inductive invariant `Inv` has one conjunct for each of these:

* `Pipes`: the four places, one behind the other, hold a run of the stream without a gap.
* `CopyOut`, `CopyIn`, `SockOut`, `SockIn`: an end is only passed on where the places before it are
  empty. `SockOut` is why a clean end of the connection means that all of stdin was sent.
* `CopyResults`, `SockResults`: what a result of `poll()` that was not served yet still means.
  Between `poll()` and a callback the other thread and the earlier callbacks of the same thread run.
  A readable descriptor stays readable, for only its owner reads from it, and a rule whose
  descriptor hung up may be dropped. Without this a callback that reads nothing could be taken for
  the end of a stream.
* `RulesLeft`: a rule that is gone from the loop of the copy is no longer needed, so that the copy
  returns only when both directions are through (`CopyOver`).
* `Flags`, `Leaving`, `Ending`: who may shut the socketpair or set `_abort`, and when the two
  threads leave.
* `InputEnds`, `Outcomes`: how much of stdin is on its way, and the ways to end that
  `DiesForAReason` allows.

There is one lemma per action. They rest on lemmas about the parts: what `read`, `write` and
`pop_output` do to a run of bytes (`LineMoves`, `LineGrows`, `LineShrinks`), what each callback does
to each member, and that a connection only ever goes on (`Evolved`: it appends to the inbound
stream, takes from the front of the outbound one, and ends by a reset or behind both streams). The
loop over the rules at the head of `wait_next_event` is shown to be what one would expect of it: the
rules that are used up go, the others are asked, and the cancel callbacks that run there have
nothing left to do (`CopySetUpIs`, `TcpSetUpIs`). That the TCP thread never throws for a short write
or a busy wait is part of `DiesForAReason`. It holds because rule 2 reads no more than the outbound
stream has room for, and rule 4 leaves nothing queued even when the adapter dropped the segments.

`CommonLemmas` states a few facts about sequences that `SequenceTheorems` also has. What is in scope
costs time at every obligation, and the socket's proofs have some four thousand of them.

Only model-checked: the two connections and their network, and the adapters; of the reassembler
`TypeOK` and `CountedWithinCapacity` (a sum over a set, which takes induction over the set). The
bytes of a header are folds over sequences, which again take induction. Liveness (`StreamCompletes`,
`ComesToRest`, `ProcessEnds`) and induction over data are out of the prover's reach.

## Not modelled

* Callbacks of the event loops are atomic. The threads share only the socketpair and `_abort`, so
  another thread cannot see the middle of one, except for the counters of a `FileDescriptor` that
  both ends of `shutdown()` touch (`file_descriptor.hh:48-49`), which nothing reads across threads.
* Signals that interrupt `poll()`, other failures of system calls, and UDP datagrams longer than the
  read buffer. A hang-up on a rule without interest makes `poll()` return at once; the model counts
  no time, so this busy loop is not visible.
* `TCPSpongeSocket::connect` or `listen_and_accept` called twice, and the sanity exceptions of
  `IPv4Datagram::serialize` and `TCPHeader::serialize`: no caller under `src/` reaches them.
* URG and PSH, which the code ignores; simultaneous open (the socket offers connect against listen
  only); an acknowledgment inside a segment or of something never sent; wrap-around of 64-bit
  indices.
* What only formats or prints (`to_string`, `summary`, `name`, hexdump), command lines, name
  resolution, the opening of devices, the socket options, and the reference counts of `Buffer`.
* `webget`, `tcp_ipv4`, `tcp_native`, `tcp_benchmark` and the tun and udp dump programs: one
  request, printing, or the copy that `SocketSpec` has already.

`PROJECT.json` lists the hazards these leave uncovered, each with its reason.
