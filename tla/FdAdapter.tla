-------------------------------- MODULE FdAdapter ------------------------------
(***************************************************************************)
(* FdAdapterBase, TCPOverUDPSocketAdapter, TCPOverIPv4Adapter with its TUN *)
(* variant, and LossyFdAdapter (libsponge/tcp_helpers): what turns the     *)
(* segments of a TCPConnection into datagrams and back, and learns from    *)
(* the first SYN who the peer of a listening socket is.  An adapter is the *)
(* record of its configuration and the _listen flag; an address is a pair  *)
(* of an IPv4 address (two 16-bit halves) and a port.                      *)
(***************************************************************************)
EXTENDS IPv4Datagram, TCPSegment

NewAdapter(source, destination, listening) ==
  [source |-> source, destination |-> destination, listening |-> listening]

Ip(address) == address[1]
Port(address) == address[2]

\* An empty std::optional<TCPSegment>.
NoSegment == [none |-> TRUE]
Nothing(a) == [a |-> a, seg |-> NoSegment]
Yields(a, seg) == [a |-> a, seg |-> seg]

\* Does a segment open a connection to a listening adapter?
Opens(seg) == seg.syn /\ ~seg.rst

(* Segments in UDP payloads.  The kernel tells where a datagram came from. *)

UdpAccept(a, from, parsed) ==
  IF parsed.result # NoError THEN Nothing(a)
  ELSE IF ~a.listening THEN Yields(a, parsed.seg)
  ELSE IF Opens(parsed.seg)
       THEN Yields([a EXCEPT !.destination = from, !.listening = FALSE], parsed.seg)
       ELSE Nothing(a)

UdpRead(a, from, bytes) ==
  IF ~a.listening /\ from # a.destination
  THEN Nothing(a)
  ELSE UdpAccept(a, from, TCPSegmentParse(bytes, 0))

SetPorts(a, seg) == [seg EXCEPT !.sport = Port(a.source), !.dport = Port(a.destination)]

UdpWrite(a, seg) == TCPSegmentSerialize(SetPorts(a, seg), 0)

(* Segments in IPv4 datagrams. *)

\* Mutant of Learned: the server goes on by the address it was bound to.
LearnedKeepsSource(a, h, seg) ==
  [source |-> a.source, destination |-> <<h.src, seg.sport>>, listening |-> FALSE]

\* The sender of a SYN becomes the peer, and the address it used ours.
Learned(a, h, seg) ==
  [source |-> <<h.dst, Port(a.source)>>, destination |-> <<h.src, seg.sport>>, listening |-> FALSE]

\* Lines 43-70: the segment is parsed, the adapter may learn, and the ports have the last word.
IpAccept(a, h, parsed) ==
  LET seg == parsed.seg
  IN  IF parsed.result # NoError \/ seg.dport # Port(a.source) THEN Nothing(a)
      ELSE IF a.listening
           THEN IF Opens(seg) THEN Yields(Learned(a, h, seg), seg) ELSE Nothing(a)
           ELSE IF seg.sport # Port(a.destination) THEN Nothing(a) ELSE Yields(a, seg)

UnwrapTcpInIp(a, d) ==
  LET h == d.header
  IN  IF \/ ~a.listening /\ (h.dst # Ip(a.source) \/ h.src # Ip(a.destination))
         \/ h.proto # PROTO_TCP
      THEN Nothing(a)
      ELSE IpAccept(a, h, TCPSegmentParse(d.payload, PseudoCksum(h)))

TunRead(a, bytes) ==
  LET Datagram(d) == IF d.result # NoError THEN Nothing(a) ELSE UnwrapTcpInIp(a, d)
  IN  Datagram(IPv4DatagramParse(bytes))

WrapTcpInIp(a, seg) ==
  LET header == [NewIPv4Header EXCEPT !.src = Ip(a.source), !.dst = Ip(a.destination),
                                      !.len = 4 * NewIPv4Header.hlen + 4 * seg.doff + Len(seg.payload)]
  IN  [header |-> header, payload |-> TCPSegmentSerialize(SetPorts(a, seg), PseudoCksum(header))]

TunWrite(a, seg) ==
  LET d == WrapTcpInIp(a, seg)
  IN  IPv4DatagramSerialize(d.header, d.payload)

(* LossyFdAdapter: the datagram is read first and the result dropped afterwards. *)

LossyRead(read, drop) == IF drop THEN [read EXCEPT !.seg = NoSegment] ELSE read
===============================================================================
