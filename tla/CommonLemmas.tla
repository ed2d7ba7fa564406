----------------------------- MODULE CommonLemmas -----------------------------
(***************************************************************************)
(* Lemmas that the proofs about several components rest on.                *)
(*                                                                         *)
(* wrap() and unwrap(), for every even modulus, 2^32 included, every       *)
(* initial sequence number and every checkpoint: the int32_t difference    *)
(* that unwrap() takes is the true difference of the checkpoint and the    *)
(* number that was wrapped, up to a multiple of the modulus.               *)
(*                                                                         *)
(* The methods of a ByteStream, for any stream whose _size is the length   *)
(* of its _buf: write() appends a prefix of the data, and peek_output()    *)
(* and pop_output() split off a prefix of the buffer.                      *)
(***************************************************************************)
EXTENDS WrappingIntegers, ByteStream, TLAPS

(* Sequence numbers *)

\* The modulus is twice its half.
LEMMA HalfOfSeqMod == Half \in Nat /\ Half > 0 /\ SeqMod = 2 * Half
BY SeqModAssumption DEF Half

\* A remainder is below the modulus.
LEMMA ModRange == ASSUME NEW x \in Int PROVE x % SeqMod \in 0..SeqMod - 1
BY SeqModAssumption

\* A number is its remainder and a multiple of the modulus.
LEMMA ModSplit == ASSUME NEW x \in Int PROVE \E k \in Int : x = k * SeqMod + (x % SeqMod)
BY SeqModAssumption

\* And only its remainder makes it up so.
LEMMA ModUnique ==
  ASSUME NEW x \in Int, NEW k \in Int, NEW r \in 0..SeqMod - 1, x = k * SeqMod + r
  PROVE  x % SeqMod = r
BY SeqModAssumption

\* operator- on two wrapped numbers gives their true difference, up to a multiple of the
\* modulus, and is the one such number that an int32_t can hold.
LEMMA MinusOfWrapped ==
  ASSUME NEW i \in Int, NEW a \in Int, NEW b \in Int
  PROVE  /\ Minus(Wrap(a, i), Wrap(b, i)) \in -Half..Half - 1
         /\ \E k \in Int : a - b = k * SeqMod + Minus(Wrap(a, i), Wrap(b, i))
<1> DEFINE x == Wrap(a, i)
           y == Wrap(b, i)
           d == (x - y) % SeqMod
           m == Minus(x, y)
<1>1. x \in Int /\ y \in Int
  BY ModRange, SeqModAssumption DEF Wrap
<1>2. PICK p \in Int : i + a = p * SeqMod + x
  BY ModSplit DEF Wrap
<1>3. PICK q \in Int : i + b = q * SeqMod + y
  BY ModSplit DEF Wrap
<1> HIDE DEF x, y
<1>4. PICK k \in Int : x - y = k * SeqMod + d
  BY <1>1, ModSplit
<1>5. d \in 0..SeqMod - 1 /\ d \in Int
  BY <1>1, ModRange, SeqModAssumption
<1>6. m = IF d < Half THEN d ELSE d - SeqMod
  BY DEF Minus
<1> HIDE DEF d, m
<1>7. a - b = (p - q + k) * SeqMod + d
  BY <1>1, <1>2, <1>3, <1>4, <1>5, SeqModAssumption
<1>8. m \in -Half..Half - 1
  BY <1>5, <1>6, HalfOfSeqMod
<1>9. \E l \in Int : a - b = l * SeqMod + m
  <2>1. CASE d < Half
    BY <1>6, <1>7, <2>1
  <2>2. CASE ~(d < Half)
    <3>1. m = d - SeqMod
      BY <1>6, <2>2
    <3>2. a - b = (p - q + k + 1) * SeqMod + m
      BY <1>5, <1>7, <3>1, SeqModAssumption
    <3> QED
      BY <3>2
  <2> QED
    BY <2>1, <2>2
<1> QED
  BY <1>8, <1>9 DEF x, y, m

\* Two different multiples of the modulus are at least the modulus apart.
LEMMA MultiplesApart ==
  ASSUME NEW k \in Int
  PROVE  /\ k * SeqMod \in Int
         /\ k >= 1 => k * SeqMod >= SeqMod
         /\ k <= -1 => k * SeqMod <= -SeqMod
BY SeqModAssumption

\* Numbers a multiple of the modulus apart wrap to the same value.
LEMMA WrapPeriodic ==
  ASSUME NEW i \in Int, NEW a \in Int, NEW k \in Int
  PROVE  a + k * SeqMod \in Int /\ Wrap(a + k * SeqMod, i) = Wrap(a, i)
<1>1. PICK p \in Int : i + a = p * SeqMod + ((i + a) % SeqMod)
  BY ModSplit
<1> DEFINE r == (i + a) % SeqMod
<1>2. r \in 0..SeqMod - 1
  BY ModRange
<1> HIDE DEF r
<1>3. i + (a + k * SeqMod) \in Int /\ i + (a + k * SeqMod) = (p + k) * SeqMod + r /\ p + k \in Int
  BY <1>1, <1>2, SeqModAssumption DEF r
<1>4. (i + (a + k * SeqMod)) % SeqMod = r
  BY <1>2, <1>3, ModUnique
<1> QED
  BY <1>4, SeqModAssumption DEF Wrap, r

\* What unwrap() computes: the wrapped number moved by the multiple of the modulus that
\* brings it next to the checkpoint, and once more when that would be below zero.
LEMMA UnwrapShifts ==
  ASSUME NEW i \in Int, NEW a \in Nat, NEW c \in Nat
  PROVE  \E m \in -Half..Half - 1, k \in Int :
           /\ c - a = k * SeqMod + m
           /\ Unwrap(Wrap(a, i), i, c) = IF c - m < 0 THEN c - m + SeqMod ELSE c - m
<1> DEFINE m == Minus(Wrap(c, i), Wrap(a, i))
<1>0. a \in Int /\ c \in Int
  OBVIOUS
<1>1. m \in -Half..Half - 1 /\ \E k \in Int : c - a = k * SeqMod + m
  BY <1>0, MinusOfWrapped, Zenon
<1>2. PICK k \in Int : c - a = k * SeqMod + m
  BY <1>1
<1>3. Unwrap(Wrap(a, i), i, c) = IF c - m < 0 THEN c - m + SeqMod ELSE c - m
  BY DEF Unwrap
<1> HIDE DEF m
<1> QED
  BY <1>1, <1>2, <1>3

\* The result of unwrap() is a uint64_t that wraps to what it was given.
LEMMA UnwrapInverts ==
  ASSUME NEW i \in Int, NEW a \in Nat, NEW c \in Nat
  PROVE  /\ Unwrap(Wrap(a, i), i, c) \in Nat
         /\ Wrap(Unwrap(Wrap(a, i), i, c), i) = Wrap(a, i)
<1> DEFINE u == Unwrap(Wrap(a, i), i, c)
<1>1. PICK m \in -Half..Half - 1, k \in Int :
        /\ c - a = k * SeqMod + m
        /\ u = IF c - m < 0 THEN c - m + SeqMod ELSE c - m
  BY UnwrapShifts
<1> HIDE DEF u
<1>2. m \in Int /\ k * SeqMod \in Int
  BY HalfOfSeqMod, MultiplesApart
<1>3. u \in Nat
  BY <1>1, <1>2, HalfOfSeqMod
<1>4. Wrap(u, i) = Wrap(a, i)
  <2>1. CASE c - m < 0
    <3>1. u = a + (k + 1) * SeqMod
      BY <1>1, <1>2, <2>1, SeqModAssumption
    <3> QED
      BY <3>1, WrapPeriodic
  <2>2. CASE ~(c - m < 0)
    <3>1. u = a + k * SeqMod
      BY <1>1, <1>2, <2>2
    <3> QED
      BY <3>1, WrapPeriodic
  <2> QED
    BY <2>1, <2>2
<1> QED
  BY <1>3, <1>4 DEF u

\* A number near the checkpoint comes back as it was.
LEMMA UnwrapNear ==
  ASSUME NEW i \in Int, NEW a \in Nat, NEW c \in Nat, c - a < Half, a - c <= Half
  PROVE  Unwrap(Wrap(a, i), i, c) = a
<1>1. PICK m \in -Half..Half - 1, k \in Int :
        /\ c - a = k * SeqMod + m
        /\ Unwrap(Wrap(a, i), i, c) = IF c - m < 0 THEN c - m + SeqMod ELSE c - m
  BY UnwrapShifts
<1> DEFINE shift == k * SeqMod
<1>2. /\ m \in Int /\ shift \in Int /\ c - a = shift + m
      /\ k >= 1 => shift >= SeqMod
      /\ k <= -1 => shift <= -SeqMod
      /\ k = 0 => shift = 0
  BY <1>1, HalfOfSeqMod, MultiplesApart
<1> HIDE DEF shift
<1>3. k = 0
  BY <1>2, HalfOfSeqMod
<1>4. c - m = a
  BY <1>2, <1>3
<1> QED
  BY <1>1, <1>4

(* Sequences.  SequenceTheorems has these facts too, among many others; stated here they   *)
(* keep that library out of the scope of every proof that needs no more of it.             *)

\* An element of a sequence.
LEMMA ElementType ==
  ASSUME NEW S, NEW s \in Seq(S), NEW i \in 1..Len(s)
  PROVE  s[i] \in S
OBVIOUS

\* A sequence is a function on the first naturals.
LEMMA SeqIsFunction ==
  ASSUME NEW S, NEW s \in Seq(S)
  PROVE  Len(s) \in Nat /\ s \in [1..Len(s) -> S] /\ DOMAIN s = 1..Len(s)
OBVIOUS

\* And such a function is a sequence.
LEMMA FunctionIsSeq ==
  ASSUME NEW S, NEW n \in Nat, NEW f \in [1..n -> S]
  PROVE  f \in Seq(S) /\ Len(f) = n
OBVIOUS

\* The empty sequence, and only it, has no element.
LEMMA EmptyIsSeq ==
  ASSUME NEW S
  PROVE  /\ <<>> \in Seq(S) /\ Len(<<>>) = 0
         /\ \A s \in Seq(S) : s # <<>> => Len(s) \in Nat \ {0}
OBVIOUS

\* Two sequences with the same elements are the same.
LEMMA EqualElements ==
  ASSUME NEW S, NEW s \in Seq(S), NEW t \in Seq(S), Len(s) = Len(t), \A i \in 1..Len(s) : s[i] = t[i]
  PROVE  s = t
OBVIOUS

\* The elements of a concatenation.
LEMMA ConcatElements ==
  ASSUME NEW S, NEW s \in Seq(S), NEW t \in Seq(S)
  PROVE  /\ s \o t \in Seq(S) /\ Len(s \o t) = Len(s) + Len(t)
         /\ \A i \in 1..Len(s) + Len(t) : (s \o t)[i] = IF i <= Len(s) THEN s[i] ELSE t[i - Len(s)]
OBVIOUS

\* Concatenation with nothing.
LEMMA ConcatEmpty ==
  ASSUME NEW S, NEW s \in Seq(S)
  PROVE  s \o <<>> = s /\ <<>> \o s = s
OBVIOUS

\* Concatenation is associative.
LEMMA ConcatRegroups ==
  ASSUME NEW S, NEW s \in Seq(S), NEW t \in Seq(S), NEW u \in Seq(S)
  PROVE  (s \o t) \o u = s \o (t \o u)
<1> DEFINE l == (s \o t) \o u
           r == s \o (t \o u)
<1>1. l \in Seq(S) /\ r \in Seq(S) /\ Len(l) = Len(r)
  BY ConcatElements
<1>2. \A i \in 1..Len(l) : l[i] = r[i]
  BY ConcatElements
<1> QED
  BY <1>1, <1>2, EqualElements

\* One more element.
LEMMA AppendElements ==
  ASSUME NEW S, NEW s \in Seq(S), NEW x \in S
  PROVE  /\ Append(s, x) \in Seq(S) /\ Append(s, x) # <<>> /\ Len(Append(s, x)) = Len(s) + 1
         /\ \A i \in 1..Len(s) : Append(s, x)[i] = s[i]
         /\ Append(s, x)[Len(s) + 1] = x
<1>1. Append(s, x) \in Seq(S) /\ Len(Append(s, x)) = Len(s) + 1
  OBVIOUS
<1>2. (\A i \in 1..Len(s) : Append(s, x)[i] = s[i]) /\ Append(s, x)[Len(s) + 1] = x
  OBVIOUS
<1> QED
  BY <1>1, <1>2, EmptyIsSeq, SeqIsFunction

\* The elements of a part.
LEMMA SubSeqElements ==
  ASSUME NEW S, NEW s, NEW m \in Int, NEW n \in Int, \A i \in m..n : s[i] \in S
  PROVE  /\ SubSeq(s, m, n) \in Seq(S) /\ Len(SubSeq(s, m, n)) = IF m <= n THEN n - m + 1 ELSE 0
         /\ \A i \in 1..n - m + 1 : SubSeq(s, m, n)[i] = s[m + i - 1]
OBVIOUS

\* A part without elements.
LEMMA EmptySubSeq ==
  ASSUME NEW s, NEW m \in Int, NEW n \in Int, n < m
  PROVE  SubSeq(s, m, n) = <<>>
OBVIOUS

\* The whole of a sequence.
LEMMA WholeSubSeq ==
  ASSUME NEW S, NEW s \in Seq(S)
  PROVE  SubSeq(s, 1, Len(s)) = s
OBVIOUS

(* Byte streams *)

\* A prefix of a sequence is a sequence of its own, of the expected length.
LEMMA PrefixType ==
  ASSUME NEW S, NEW q \in Seq(S), NEW n \in 0..Len(q)
  PROVE  SubSeq(q, 1, n) \in Seq(S) /\ Len(SubSeq(q, 1, n)) = n
<1>1. Len(q) \in Nat /\ \A i \in 1..n : q[i] \in S
  BY SeqIsFunction, ElementType
<1> QED
  BY <1>1, SubSeqElements

\* So is the rest of it.
LEMMA SuffixType ==
  ASSUME NEW S, NEW q \in Seq(S), NEW n \in 0..Len(q)
  PROVE  SubSeq(q, n + 1, Len(q)) \in Seq(S) /\ Len(SubSeq(q, n + 1, Len(q))) = Len(q) - n
<1>1. Len(q) \in Nat /\ \A i \in n + 1..Len(q) : q[i] \in S
  BY SeqIsFunction, ElementType
<1> QED
  BY <1>1, SubSeqElements

\* And the two make up the whole.
LEMMA SplitAt ==
  ASSUME NEW S, NEW q \in Seq(S), NEW n \in 0..Len(q)
  PROVE  SubSeq(q, 1, n) \o SubSeq(q, n + 1, Len(q)) = q
<1> DEFINE a == SubSeq(q, 1, n)
           b == SubSeq(q, n + 1, Len(q))
<1>1. Len(q) \in Nat /\ n \in Nat /\ n <= Len(q)
  BY SeqIsFunction
<1>2. a \in Seq(S) /\ Len(a) = n /\ b \in Seq(S) /\ Len(b) = Len(q) - n
  BY PrefixType, SuffixType
<1>3. /\ \A k \in 1..n : a[k] = q[k]
      /\ \A k \in 1..Len(q) - n : b[k] = q[n + k]
  BY <1>1, SubSeqElements, ElementType
<1> HIDE DEF a, b
<1>4. a \o b \in Seq(S) /\ Len(a \o b) = Len(q)
  <2>1. a \o b \in Seq(S) /\ Len(a \o b) = Len(a) + Len(b)
    BY <1>2, ConcatElements
  <2> QED
    BY <1>1, <1>2, <2>1
<1>5. ASSUME NEW i \in 1..Len(q) PROVE (a \o b)[i] = q[i]
  <2>1. (a \o b)[i] = IF i <= n THEN a[i] ELSE b[i - n]
    BY <1>1, <1>2, ConcatElements
  <2> QED
    BY <1>1, <1>3, <2>1
<1>6. a \o b = q
  BY <1>4, <1>5, EqualElements
<1> QED
  BY <1>6 DEF a, b

\* write() accepts a prefix of the data that fits into the space left, and nothing once
\* the input has ended.
LEMMA ToWriteFits ==
  ASSUME NEW B, NEW s \in Streams(B), NEW data \in Seq(B)
  PROVE  /\ ToWrite(s, data) \in 0..Len(data)
         /\ s.size + ToWrite(s, data) <= s.capacity
         /\ s.isInputEnd => ToWrite(s, data) = 0
BY SeqIsFunction DEF ToWrite, Least, Streams

\* write() appends what it accepts: the insertion point _size is the end of _buf.
LEMMA WriteAppends ==
  ASSUME NEW B, NEW s \in Streams(B), NEW data \in Seq(B)
  PROVE  /\ Write(s, data) \in Streams(B)
         /\ Write(s, data) = [s EXCEPT !.buf = s.buf \o SubSeq(data, 1, ToWrite(s, data)),
                                       !.size = s.size + ToWrite(s, data),
                                       !.numWritten = s.numWritten + ToWrite(s, data)]
<1> DEFINE n == ToWrite(s, data)
           new == SubSeq(data, 1, n)
<1>1. s.buf \in Seq(B) /\ s.size = Len(s.buf) /\ s.size \in Nat
  BY DEF Streams
<1>2. n \in 0..Len(data) /\ s.size + n <= s.capacity
  BY ToWriteFits
<1>3. new \in Seq(B) /\ Len(new) = n
  BY <1>2, PrefixType
<1>4. SubSeq(s.buf, 1, s.size) = s.buf
  BY <1>1, WholeSubSeq
<1>5. SubSeq(s.buf, s.size + 1, Len(s.buf)) = <<>>
  BY <1>1, EmptySubSeq
<1>6. s.buf \o new \in Seq(B) /\ Len(s.buf \o new) = s.size + n
  BY <1>1, <1>3, ConcatElements
<1>7. (s.buf \o new) \o <<>> = s.buf \o new
  BY <1>6, ConcatEmpty
<1>8. Write(s, data) = [s EXCEPT !.buf = s.buf \o new, !.size = s.size + n,
                                 !.numWritten = s.numWritten + n]
  BY <1>4, <1>5, <1>7 DEF Write
<1>9. n \in Nat
  BY <1>2, SeqIsFunction
<1>10. Write(s, data) \in Streams(B)
  <2> DEFINE w == [s EXCEPT !.buf = s.buf \o new, !.size = s.size + n,
                            !.numWritten = s.numWritten + n]
  <2>1. s.numWritten + n \in Nat /\ s.size + n \in Nat
    BY <1>9 DEF Streams
  <2> HIDE DEF n, new
  <2>2. w \in [buf : Seq(B), capacity : Nat, size : Nat, isInputEnd : BOOLEAN,
               numWritten : Nat, numRead : Nat, error : BOOLEAN]
    BY <1>6, <2>1, ZenonT(30) DEF Streams
  <2>3. w.buf = s.buf \o new /\ w.size = s.size + n /\ w.capacity = s.capacity
    BY DEF Streams
  <2> HIDE DEF w
  <2>4. w \in Streams(B)
    BY <1>2, <1>6, <2>2, <2>3 DEF Streams
  <2> QED
    BY <1>8, <2>4 DEF w
<1> QED
  BY <1>8, <1>10

\* In numbers: what write() accepts is counted as written and held, and nothing else changes.
LEMMA WriteCounts ==
  ASSUME NEW B, NEW s \in Streams(B), NEW data \in Seq(B)
  PROVE  /\ Write(s, data).size = s.size + ToWrite(s, data)
         /\ Write(s, data).numWritten = s.numWritten + ToWrite(s, data)
         /\ Write(s, data).numRead = s.numRead
         /\ Write(s, data).capacity = s.capacity
         /\ Write(s, data).isInputEnd = s.isInputEnd
         /\ Write(s, data).error = s.error
<1> DEFINE n == ToWrite(s, data)
           buf == s.buf \o SubSeq(data, 1, n)
           w == Write(s, data)
<1>1. w = [s EXCEPT !.buf = buf, !.size = s.size + n, !.numWritten = s.numWritten + n]
  BY WriteAppends
<1> HIDE DEF n, buf, w
<1> QED
  BY <1>1 DEF Streams, n, w

\* peek_output() and pop_output() split _buf: what is returned, followed by what is left, is
\* what was there.
LEMMA PopSplits ==
  ASSUME NEW B, NEW s \in Streams(B), NEW len \in Nat
  PROVE  /\ PopOutput(s, len) \in Streams(B)
         /\ PeekOutput(s, len) \in Seq(B)
         /\ s.buf = PeekOutput(s, len) \o PopOutput(s, len).buf
         /\ PopOutput(s, len).size = s.size - Len(PeekOutput(s, len))
         /\ PopOutput(s, len).numRead = s.numRead + Len(PeekOutput(s, len))
         /\ PopOutput(s, len).numWritten = s.numWritten
         /\ PopOutput(s, len).isInputEnd = s.isInputEnd
         /\ PopOutput(s, len).capacity = s.capacity
<1> DEFINE n == Least(len, s.size)
           rest == SubSeq(s.buf, n + 1, Len(s.buf))
           p == [s EXCEPT !.buf = rest, !.size = s.size - n, !.numRead = s.numRead + n]
<1>1. s.buf \in Seq(B) /\ s.size = Len(s.buf) /\ s.size \in Nat /\ s.numRead \in Nat
  BY DEF Streams
<1>2. n \in 0..Len(s.buf)
  BY <1>1 DEF Least
<1>3. rest \in Seq(B) /\ Len(rest) = s.size - n
  BY <1>1, <1>2, SuffixType
<1>4. SubSeq(s.buf, 1, n) \in Seq(B) /\ Len(SubSeq(s.buf, 1, n)) = n
  BY <1>1, <1>2, PrefixType
<1>5. PeekOutput(s, len) = SubSeq(s.buf, 1, n) /\ PopOutput(s, len) = p
  BY DEF PeekOutput, PopOutput
<1>6. s.buf = SubSeq(s.buf, 1, n) \o rest
  BY <1>1, <1>2, SplitAt
<1> HIDE DEF n, rest
<1>7. s.size - n \in Nat /\ s.numRead + n \in Nat /\ s.size - n <= s.size
  BY <1>1, <1>2
<1>8. p \in [buf : Seq(B), capacity : Nat, size : Nat, isInputEnd : BOOLEAN,
             numWritten : Nat, numRead : Nat, error : BOOLEAN]
  BY <1>3, <1>7 DEF Streams
<1>9. /\ p.buf = rest /\ p.size = s.size - n /\ p.numRead = s.numRead + n
      /\ p.numWritten = s.numWritten /\ p.isInputEnd = s.isInputEnd /\ p.capacity = s.capacity
  BY DEF Streams
<1> HIDE DEF p
<1>10. s.size <= s.capacity /\ s.capacity \in Nat
  BY DEF Streams
<1>11. p.size <= p.capacity /\ p.size = Len(p.buf)
  BY <1>1, <1>2, <1>3, <1>7, <1>9, <1>10
<1>12. p \in Streams(B)
  BY <1>8, <1>11 DEF Streams
<1> QED
  BY <1>4, <1>5, <1>6, <1>9, <1>12
===============================================================================
