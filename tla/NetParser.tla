-------------------------------- MODULE NetParser ------------------------------
(***************************************************************************)
(* Classes NetParser and NetUnparser (libsponge/util/parser.{hh,cc}) and   *)
(* InternetChecksum (libsponge/util/util.cc): integers in network byte     *)
(* order, and the checksum of RFC 1071.  A byte is a number 0..255.  A     *)
(* uint32_t is the pair of its 16-bit halves, so that it fits TLC's        *)
(* integers; nothing in the wire formats adds to one.                      *)
(***************************************************************************)
EXTENDS Integers, Sequences, SequencesExt

NoError == "NoError"

NewParser(buffer) == [buffer |-> buffer, error |-> NoError]

CheckSize(p, size) ==
  IF size > Len(p.buffer) THEN [p EXCEPT !.error = "PacketTooShort"] ELSE p

RemovePrefix(p, n) ==
  LET checked == CheckSize(p, n)
  IN  IF checked.error # NoError THEN checked ELSE [checked EXCEPT !.buffer = SubSeq(@, n + 1, Len(@))]

BigEndian(bytes) == FoldLeft(LAMBDA ret, byte : ret * 256 + byte, 0, bytes)

\* The integer of len bytes at the front of the buffer; 0 once there has been an error.
ParseInt(p, len) ==
  LET zero == IF len = 4 THEN <<0, 0>> ELSE 0
  IN  IF CheckSize(p, len).error # NoError THEN zero
      ELSE IF len = 4
           THEN <<BigEndian(SubSeq(p.buffer, 1, 2)), BigEndian(SubSeq(p.buffer, 3, 4))>>
           ELSE BigEndian(SubSeq(p.buffer, 1, len))

\* A run of u8(), u16() and u32() calls, given by the widths of the integers in bytes.
ParseAll(p, widths) ==
  FoldLeft(LAMBDA acc, len : [p |-> RemovePrefix(acc.p, len), vals |-> Append(acc.vals, ParseInt(acc.p, len))],
           [p |-> p, vals |-> <<>>], widths)

UnparseInt(val, len) ==
  IF len = 4
  THEN <<val[1] \div 256, val[1] % 256, val[2] \div 256, val[2] % 256>>
  ELSE [i \in 1..len |-> (val \div 256^(len - i)) % 256]

UnparseAll(vals, widths) ==
  FoldLeft(LAMBDA ret, i : ret \o UnparseInt(vals[i], widths[i]), <<>>, [i \in DOMAIN vals |-> i])

\* A bit of a flags field.
Bit(n, weight) == (n \div weight) % 2 = 1
FromBits(flags, weights) ==
  FoldLeft(LAMBDA n, i : n + (IF flags[i] THEN weights[i] ELSE 0), 0, [i \in DOMAIN flags |-> i])

(* InternetChecksum: the sum of the 16-bit words, the first byte of each the high one; a     *)
(* datagram has fewer than 2^15 of them, so that the 32-bit sum does not wrap.               *)

NewChecksum(initial) == [sum |-> initial, parity |-> FALSE]

ChecksumAdd(c, data) ==
  FoldLeft(LAMBDA acc, byte : [sum |-> acc.sum + (IF acc.parity THEN byte ELSE 256 * byte), parity |-> ~acc.parity],
           c, data)

\* The loop of value(): carries are added back until none is left.
EndAroundCarry[n \in Nat] == IF n > 65535 THEN EndAroundCarry[(n \div 65536) + (n % 65536)] ELSE n

ChecksumValue(c) == 65535 - EndAroundCarry[c.sum]
===============================================================================
