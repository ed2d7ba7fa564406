------------------------------ MODULE IPv4Datagram -----------------------------
(***************************************************************************)
(* Classes IPv4Header and IPv4Datagram (libsponge/tcp_helpers): the IPv4   *)
(* format, byte for byte.  A header is a record of its fields, a datagram  *)
(* one of a header and a payload.                                          *)
(***************************************************************************)
EXTENDS NetParser

NewIPv4Header ==
  [ver |-> 4, hlen |-> 5, tos |-> 0, len |-> 0, id |-> 0, df |-> TRUE, mf |-> FALSE, offset |-> 0,
   ttl |-> 128, proto |-> 6, cksum |-> 0, src |-> <<0, 0>>, dst |-> <<0, 0>>]

PROTO_TCP == 6

\* ver and hlen, tos, len, id, flags and offset, ttl, proto, cksum, src, dst
IPv4Widths == <<1, 1, 2, 2, 2, 1, 1, 2, 4, 4>>

IPv4Fields(v) ==
  [ver |-> v[1] \div 16, hlen |-> v[1] % 16, tos |-> v[2], len |-> v[3], id |-> v[4],
   df |-> Bit(v[5], 16384), mf |-> Bit(v[5], 8192), offset |-> v[5] % 8192,
   ttl |-> v[6], proto |-> v[7], cksum |-> v[8], src |-> v[9], dst |-> v[10]]

\* The checks behind the fields.  The options are skipped once the lengths are known to agree;
\* the checksum is over the header as it came.
IPv4Verdict(h, original, p) ==
  LET size == Len(original)
      skipped == RemovePrefix(p, 4 * h.hlen - 20)
      Stop(result) == [header |-> h, p |-> p, result |-> result]
      check == ChecksumAdd(NewChecksum(0), SubSeq(original, 1, 4 * h.hlen))
  IN  IF size < 4 * h.hlen THEN Stop("PacketTooShort")
      ELSE IF h.ver # 4 THEN Stop("WrongIPVersion")
      ELSE IF h.hlen < 5 THEN Stop("HeaderTooShort")
      ELSE IF size # h.len THEN Stop("TruncatedPacket")
      ELSE [header |-> h, p |-> skipped,
            result |-> IF skipped.error # NoError THEN skipped.error
                       ELSE IF ChecksumValue(check) # 0 THEN "BadChecksum" ELSE NoError]

IPv4HeaderParse(p) ==
  LET Rest(f) == IPv4Verdict(IPv4Fields(f.vals), p.buffer, f.p)
  IN  IF Len(p.buffer) < 20
      THEN [header |-> NewIPv4Header, p |-> p, result |-> "PacketTooShort"]
      ELSE Rest(ParseAll(p, IPv4Widths))

IPv4HeaderSerialize(h) ==
  UnparseAll(<<16 * h.ver + h.hlen, h.tos, h.len, h.id,
               FromBits(<<h.df, h.mf>>, <<16384, 8192>>) + (h.offset % 8192),
               h.ttl, h.proto, h.cksum, h.src, h.dst>>, IPv4Widths)
    \o [i \in 1..4 * h.hlen - 20 |-> 0]

\* A uint16_t: the difference wraps.
PayloadLength(h) == (h.len - 4 * h.hlen) % 65536

\* Mutant of PseudoCksum: the addresses are not covered.
PseudoCksumNoAddresses(h) == h.proto + PayloadLength(h)

PseudoCksum(h) == h.src[1] + h.src[2] + h.dst[1] + h.dst[2] + h.proto + PayloadLength(h)

\* IPv4Datagram::parse(): the verdict on the header is dropped; what is left is the length of
\* the payload and the parser's own error.
IPv4DatagramParse(buffer) ==
  LET Datagram(f) ==
        [header |-> f.header, payload |-> f.p.buffer,
         result |-> IF Len(f.p.buffer) # PayloadLength(f.header) THEN "PacketTooShort" ELSE f.p.error]
  IN  Datagram(IPv4HeaderParse(NewParser(buffer)))

IPv4DatagramSerialize(header, payload) ==
  LET zero == [header EXCEPT !.cksum = 0]
      check == ChecksumAdd(NewChecksum(0), IPv4HeaderSerialize(zero))
  IN  IPv4HeaderSerialize([zero EXCEPT !.cksum = ChecksumValue(check)]) \o payload
===============================================================================
