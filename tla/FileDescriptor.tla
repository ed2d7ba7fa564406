----------------------------- MODULE FileDescriptor ----------------------------
(***************************************************************************)
(* Class FileDescriptor (libsponge/util/file_descriptor.{hh,cc}) and       *)
(* Socket::shutdown(), over a model of the kernel's pair of connected      *)
(* AF_UNIX stream sockets: socketpair(2), read(2), writev(2), shutdown(2)  *)
(* and poll(2).  A handle is the record of the flags _eof and _closed.     *)
(***************************************************************************)
EXTENDS ByteStream

CONSTANT PairCapacity  \* the bytes the kernel queues in one direction

NewFd == [eof |-> FALSE, closed |-> FALSE]

\* Mutant of FdRead: a short read is taken for the end.
FdReadShortIsEnd(fd, limit, got) == [fd EXCEPT !.eof = @ \/ Len(got) < limit]

\* read(): the handle after a read(2) with a limit that got these bytes.
FdRead(fd, limit, got) == [fd EXCEPT !.eof = @ \/ (limit > 0 /\ got = <<>>)]

FdClose(fd) == [eof |-> TRUE, closed |-> TRUE]

(* The kernel.  An end is "app" (the application's) or "tcp" (the TCP thread's): queue holds *)
(* what it can read, noRead and noWrite are the directions that were shut down.              *)

OtherEnd(end) == IF end = "app" THEN "tcp" ELSE "app"

NewPair ==
  [queue |-> [app |-> <<>>, tcp |-> <<>>],
   noRead |-> [app |-> FALSE, tcp |-> FALSE], noWrite |-> [app |-> FALSE, tcp |-> FALSE]]

PairRoom(pair, end) == PairCapacity - Len(pair.queue[OtherEnd(end)])

\* A hang-up is both directions shut down, and makes the end readable.
PairEvents(pair, end) ==
  (IF pair.queue[end] # <<>> \/ pair.noRead[end] THEN {"IN"} ELSE {})
    \cup (IF PairRoom(pair, end) > 0 THEN {"OUT"} ELSE {})
    \cup (IF pair.noRead[end] /\ pair.noWrite[end] THEN {"HUP"} ELSE {})

\* What read(2) returns and leaves.
PairGot(pair, end, limit) == SubSeq(pair.queue[end], 1, Least(limit, Len(pair.queue[end])))
PairRead(pair, end, limit) ==
  [pair EXCEPT !.queue[end] = SubSeq(@, Least(limit, Len(@)) + 1, Len(@))]

\* writev(2) takes what there is room for; with a direction shut down it takes nothing and
\* SIGPIPE ends the process, unless there was nothing to write.
PairTakes(pair, end, data) == Least(Len(data), PairRoom(pair, end))
PairWrite(pair, end, data) ==
  [pair EXCEPT !.queue[OtherEnd(end)] = @ \o SubSeq(data, 1, PairTakes(pair, end, data))]
Sigpipe(pair, end, data) == pair.noWrite[end] /\ data # <<>>

ShutWrite(pair, end) == [pair EXCEPT !.noWrite[end] = TRUE, !.noRead[OtherEnd(end)] = TRUE]

ShutBoth(pair) ==
  [pair EXCEPT !.noRead = [end \in {"app", "tcp"} |-> TRUE], !.noWrite = [end \in {"app", "tcp"} |-> TRUE]]
===============================================================================
