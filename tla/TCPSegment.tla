------------------------------- MODULE TCPSegment ------------------------------
(***************************************************************************)
(* Structs TCPHeader and TCPSegment (libsponge/tcp_helpers): the format of *)
(* a segment, byte for byte.  A segment is a record of the header's fields *)
(* and the payload.                                                        *)
(***************************************************************************)
EXTENDS NetParser

\* A default header.
NewTCPSegment ==
  [sport |-> 0, dport |-> 0, seqno |-> <<0, 0>>, ackno |-> <<0, 0>>, doff |-> 5,
   urg |-> FALSE, ack |-> FALSE, psh |-> FALSE, rst |-> FALSE, syn |-> FALSE, fin |-> FALSE,
   win |-> 0, cksum |-> 0, uptr |-> 0, payload |-> <<>>]

\* sport, dport, seqno, ackno, doff, flags, win, cksum, uptr
TCPWidths == <<2, 2, 4, 4, 1, 1, 2, 2, 2>>
FlagWeights == <<32, 16, 8, 4, 2, 1>>

TCPFields(v) ==
  [sport |-> v[1], dport |-> v[2], seqno |-> v[3], ackno |-> v[4], doff |-> v[5] \div 16,
   urg |-> Bit(v[6], 32), ack |-> Bit(v[6], 16), psh |-> Bit(v[6], 8),
   rst |-> Bit(v[6], 4), syn |-> Bit(v[6], 2), fin |-> Bit(v[6], 1),
   win |-> v[7], cksum |-> v[8], uptr |-> v[9], payload |-> <<>>]

\* TCPHeader::parse(): a doff below the minimum is reported, and skips nothing.
TCPHeaderParse(p) ==
  LET Rest(header, q) ==
        IF header.doff < 5
        THEN [header |-> header, p |-> q, result |-> "HeaderTooShort"]
        ELSE [header |-> header, p |-> RemovePrefix(q, 4 * header.doff - 20),
              result |-> RemovePrefix(q, 4 * header.doff - 20).error]
      Fields(f) == Rest(TCPFields(f.vals), f.p)
  IN  Fields(ParseAll(p, TCPWidths))

TCPHeaderSerialize(h) ==
  UnparseAll(<<h.sport, h.dport, h.seqno, h.ackno, 16 * h.doff,
               FromBits(<<h.urg, h.ack, h.psh, h.rst, h.syn, h.fin>>, FlagWeights),
               h.win, h.cksum, h.uptr>>, TCPWidths)
    \o [i \in 1..4 * h.doff - 20 |-> 0]

\* Mutant of TCPSegmentParse: the checksum is not looked at.
TCPSegmentParseUnchecked(buffer, datagramLayerChecksum) ==
  LET Segment(f) == [seg |-> [f.header EXCEPT !.payload = f.p.buffer], result |-> f.p.error]
  IN  Segment(TCPHeaderParse(NewParser(buffer)))

\* TCPSegment::parse(): the checksum comes first, and the header's own verdict is dropped.
TCPSegmentParse(buffer, datagramLayerChecksum) ==
  LET Segment(f) == [seg |-> [f.header EXCEPT !.payload = f.p.buffer], result |-> f.p.error]
  IN  IF ChecksumValue(ChecksumAdd(NewChecksum(datagramLayerChecksum), buffer)) # 0
      THEN [seg |-> NewTCPSegment, result |-> "BadChecksum"]
      ELSE Segment(TCPHeaderParse(NewParser(buffer)))

TCPSegmentSerialize(seg, datagramLayerChecksum) ==
  LET zero == [seg EXCEPT !.cksum = 0]
      check == ChecksumAdd(ChecksumAdd(NewChecksum(datagramLayerChecksum), TCPHeaderSerialize(zero)), seg.payload)
  IN  TCPHeaderSerialize([zero EXCEPT !.cksum = ChecksumValue(check)]) \o seg.payload
===============================================================================
