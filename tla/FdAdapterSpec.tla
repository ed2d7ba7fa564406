------------------------------ MODULE FdAdapterSpec ----------------------------
(***************************************************************************)
(* Two clients and a listening server, each behind an adapter, over UDP or *)
(* over IPv4.  A datagram on its way may be damaged in a byte, and may be  *)
(* dropped by the LossyFdAdapter of either end; a host may also be shown a *)
(* datagram that is not a segment at all.  A datagram keeps along with its *)
(* bytes the segment it was made of, for the properties only.              *)
(***************************************************************************)
EXTENDS FdAdapter

CONSTANTS Kinds,     \* the adapters to consider: "udp", "tun"
          Address,   \* the address of each host
          Segments,  \* bound: the segments the connections write
          Flips,     \* bound: what damage adds to a byte
          Strays     \* other traffic

VARIABLES kind,      \* which of the adapters
          adapter,   \* the adapter of each host
          wire,      \* the datagram on its way
          heard      \* what became of the last datagram that was read

vars == <<kind, adapter, wire, heard>>

Hosts == DOMAIN Address
Clients == Hosts \ {"server"}
Nobody == [none |-> TRUE]

\* A server that binds to address 0 uses the address it is contacted at.
Init ==
  /\ kind \in Kinds
  /\ adapter = [h \in Hosts |->
       IF h = "server"
       THEN NewAdapter(<<IF kind = "tun" THEN <<0, 0>> ELSE Ip(Address[h]), Port(Address[h])>>, <<<<0, 0>>, 0>>, TRUE)
       ELSE NewAdapter(Address[h], Address["server"], FALSE)]
  /\ wire = Nobody
  /\ heard = Nobody

HostAt(address) == CHOOSE h \in Hosts : Address[h] = address

Bytes(a, seg) == IF kind = "udp" THEN UdpWrite(a, seg) ELSE TunWrite(a, seg)

\* A connection writes only when it knows its peer: before the SYN has come it has nothing to say.
Write(h, seg, drop) ==
  /\ wire = Nobody /\ ~adapter[h].listening
  /\ wire' = IF drop THEN Nobody
             ELSE [from |-> Address[h], to |-> HostAt(adapter[h].destination), intact |-> TRUE,
                   seg |-> SetPorts(adapter[h], seg), bytes |-> Bytes(adapter[h], seg)]
  /\ heard' = Nobody
  /\ UNCHANGED <<kind, adapter>>

\* The network damages a byte.
Damage(flip) ==
  /\ wire # Nobody /\ wire.intact
  /\ \E i \in DOMAIN wire.bytes :
       wire' = [wire EXCEPT !.bytes[i] = (@ + flip) % 256, !.intact = FALSE]
  /\ UNCHANGED <<kind, adapter, heard>>

\* Something else arrives.
Stray(h, from, bytes) ==
  /\ wire = Nobody
  /\ wire' = [from |-> Address[from], to |-> h, intact |-> FALSE, seg |-> NoSegment, bytes |-> bytes]
  /\ heard' = Nobody
  /\ UNCHANGED <<kind, adapter>>

AdapterRead(a, d) == IF kind = "udp" THEN UdpRead(a, d.from, d.bytes) ELSE TunRead(a, d.bytes)

Take(h, read, drop) ==
  /\ adapter' = [adapter EXCEPT ![h] = read.a]
  /\ heard' = [by |-> h, before |-> adapter[h], seg |-> read.seg, dropped |-> drop,
               from |-> wire.from, sent |-> wire.seg, intact |-> wire.intact]

Read(drop) ==
  /\ wire # Nobody
  /\ Take(wire.to, LossyRead(AdapterRead(adapter[wire.to], wire), drop), drop)
  /\ wire' = Nobody
  /\ UNCHANGED kind

Next ==
  \/ \E h \in Hosts, seg \in Segments, drop \in BOOLEAN : Write(h, seg, drop)
  \/ \E flip \in Flips : Damage(flip)
  \/ \E h \in Hosts, from \in Clients, bytes \in Strays : Stray(h, from, bytes)
  \/ \E drop \in BOOLEAN : Read(drop)

Spec == Init /\ [][Next]_vars

(* Properties *)

\* What read() hands to the connection is, field by field, a segment its peer wrote to it:
\* no damaged byte gets through, although IPv4Datagram::parse() and TCPSegment::parse() both
\* drop the verdict of the header's own parser.
ArrivesAsSent ==
  heard # Nobody /\ heard.seg # NoSegment =>
    /\ [heard.seg EXCEPT !.cksum = 0] = heard.sent
    /\ heard.from = adapter[heard.by].destination

\* An undamaged segment from the peer gets through the filters, unless the lossy adapter drops
\* it; so does the SYN of a client that retransmits it because the first one was dropped after
\* the adapter had learned from it.
IntactIsHeard ==
  heard # Nobody /\ heard.intact /\ ~heard.dropped /\ heard.seg = NoSegment =>
    IF heard.before.listening THEN ~Opens(heard.sent) ELSE heard.before.destination # heard.from

\* A listening server takes as its peer a client that opened a connection to it, at that
\* client's own address and in the name the client called it by, and keeps it.
OnePeer ==
  [][\A h \in Hosts :
       /\ adapter'[h] # adapter[h] =>
            /\ adapter[h].listening /\ ~adapter'[h].listening
            /\ wire.seg # NoSegment /\ Opens(wire.seg)
            /\ adapter'[h].destination = wire.from /\ adapter'[h].source = Address[h]]_vars
===============================================================================
