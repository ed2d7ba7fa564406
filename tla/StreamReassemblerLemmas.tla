------------------------ MODULE StreamReassemblerLemmas ------------------------
(***************************************************************************)
(* What cutData() and the push loop of a StreamReassembler do to any map   *)
(* of strings that do not overlap.  The contents are followed through a    *)
(* function G: G[i] is the set of bytes that may stand at index i.         *)
(***************************************************************************)
EXTENDS StreamReassembler, CommonLemmas, WellFoundedInduction

\* Zenon proves the leaves, unless they ask for arithmetic.
USE ZenonT(30)

\* A set of naturals that is not empty has a least element.
LEMMA LeastNatural ==
  ASSUME NEW T, T \subseteq Nat, T # {}
  PROVE  \E i \in T : \A j \in T : i <= j
<1>1. PICK i \in T : \A j \in T : ~(<<j, i>> \in OpToRel(<, Nat))
  BY NatLessThanWellFounded, WFMin
<1>2. \A j \in T : ~(j < i)
  BY <1>1 DEF OpToRel
<1> QED
  BY <1>2, SMTT(30)

(* Strings that hold the bytes that belong where they start *)

AnyByte(G) == UNION {G[i] : i \in Nat}

\* String s, with its first byte at index `at`, holds at each index a byte that may stand there.
Placed(s, at, G) ==
  /\ s \in Seq(AnyByte(G))
  /\ \A i \in 1..Len(s) : s[i] \in G[at + i - 1]

IsString(s, n) == s = [i \in 1..n |-> s[i]]
MayStand(s, n, at, G) == \A i \in 1..n : s[i] \in G[at + i - 1]

\* A string of length n whose bytes may all stand where they are.
LEMMA PlacedBytes ==
  ASSUME NEW G, NEW at \in Nat, NEW n \in Nat, NEW s, IsString(s, n), MayStand(s, n, at, G)
  PROVE  Placed(s, at, G) /\ Len(s) = n
<1>1. \A i \in 1..n : s[i] \in AnyByte(G)
  <2> TAKE i \in 1..n
  <2>1. at + i - 1 \in Nat /\ s[i] \in G[at + i - 1]
    BY SMTT(30) DEF MayStand
  <2> QED
    BY <2>1 DEF AnyByte
<1>2. s \in Seq(AnyByte(G)) /\ Len(s) = n
  BY <1>1, FunctionIsSeq DEF IsString
<1> QED
  BY <1>2 DEF Placed, MayStand

\* The part of a string from byte n + 1 on.
LEMMA PlacedSuffix ==
  ASSUME NEW G, NEW at \in Nat, NEW s, Placed(s, at, G), NEW n \in 0..Len(s)
  PROVE  /\ Placed(SubSeq(s, n + 1, Len(s)), at + n, G)
         /\ Len(SubSeq(s, n + 1, Len(s))) = Len(s) - n
<1> DEFINE t == SubSeq(s, n + 1, Len(s))
<1>1. s \in Seq(AnyByte(G)) /\ Len(s) \in Nat
  BY SeqIsFunction DEF Placed
<1>2. t \in Seq(AnyByte(G)) /\ Len(t) = Len(s) - n
  BY <1>1, SuffixType
<1>3. \A i \in 1..Len(t) : t[i] = s[n + i]
  BY <1>1, <1>2, SMTT(30)
<1>4. \A i \in 1..Len(t) : n + i \in 1..Len(s)
  BY <1>1, <1>2, SMTT(30)
<1> HIDE DEF t
<1>5. \A i \in 1..Len(t) : t[i] \in G[(at + n) + i - 1]
  <2> TAKE i \in 1..Len(t)
  <2>1. s[n + i] \in G[at + (n + i) - 1]
    BY <1>4 DEF Placed
  <2>2. at + (n + i) - 1 = (at + n) + i - 1
    BY <1>1, <1>2, SMTT(30)
  <2> QED
    BY <1>3, <2>1, <2>2
<1> QED
  BY <1>2, <1>5, SMTT(30) DEF Placed, t

\* The first n bytes of a string.
LEMMA PlacedPrefix ==
  ASSUME NEW G, NEW at \in Nat, NEW s, Placed(s, at, G), NEW n \in 0..Len(s)
  PROVE  Placed(SubSeq(s, 1, n), at, G) /\ Len(SubSeq(s, 1, n)) = n
<1>1. s \in Seq(AnyByte(G)) /\ Len(s) \in Nat
  BY SeqIsFunction DEF Placed
<1>2. SubSeq(s, 1, n) \in Seq(AnyByte(G)) /\ Len(SubSeq(s, 1, n)) = n
  BY <1>1, PrefixType
<1>3. \A i \in 1..n : SubSeq(s, 1, n)[i] = s[i] /\ i \in 1..Len(s)
  BY <1>1, <1>2, SMTT(30)
<1> QED
  BY <1>2, <1>3 DEF Placed

\* A string behind another one.
LEMMA PlacedConcat ==
  ASSUME NEW G, NEW at \in Nat, NEW s, Placed(s, at, G), NEW t, Placed(t, at + Len(s), G)
  PROVE  Placed(s \o t, at, G) /\ Len(s \o t) = Len(s) + Len(t)
<1>1. s \in Seq(AnyByte(G)) /\ t \in Seq(AnyByte(G)) /\ Len(s) \in Nat /\ Len(t) \in Nat
  BY SeqIsFunction DEF Placed
<1>2. s \o t \in Seq(AnyByte(G)) /\ Len(s \o t) = Len(s) + Len(t)
  BY <1>1, ConcatElements
<1>3. \A i \in 1..Len(s) + Len(t) : (s \o t)[i] \in G[at + i - 1]
  <2> TAKE i \in 1..Len(s) + Len(t)
  <2>1. CASE i <= Len(s)
    BY <1>1, <2>1, ConcatElements, SMTT(30) DEF Placed
  <2>2. CASE i > Len(s)
    <3>1. (s \o t)[i] = t[i - Len(s)] /\ i - Len(s) \in 1..Len(t)
      BY <1>1, <2>2, ConcatElements, SMTT(30)
    <3>2. t[i - Len(s)] \in G[(at + Len(s)) + (i - Len(s)) - 1]
      BY <3>1 DEF Placed
    <3>3. (at + Len(s)) + (i - Len(s)) - 1 = at + i - 1
      BY <1>1, SMTT(30)
    <3> QED
      BY <3>1, <3>2, <3>3
  <2> QED
    BY <1>1, <2>1, <2>2, SMTT(30)
<1> QED
  BY <1>2, <1>3 DEF Placed

\* std::string::replace keeps the length; the bytes it brings in may stand where they go.
LEMMA PlacedOverwrite ==
  ASSUME NEW G, NEW at \in Nat, NEW s, Placed(s, at, G),
         NEW from \in Nat, NEW data, Placed(data, at + from, G)
  PROVE  Placed(Overwrite(s, from, data), at, G) /\ Len(Overwrite(s, from, data)) = Len(s)
<1> DEFINE t == Overwrite(s, from, data)
<1>1. Len(s) \in Nat /\ Len(data) \in Nat
  BY SeqIsFunction DEF Placed
<1>2. IsString(t, Len(s))
  BY DEF Overwrite, IsString
<1>3. MayStand(t, Len(s), at, G)
  <2> SUFFICES \A i \in 1..Len(s) : t[i] \in G[at + i - 1]
    BY DEF MayStand
  <2> TAKE i \in 1..Len(s)
  <2>1. CASE i \in from + 1..from + Len(data)
    <3>1. t[i] = data[i - from] /\ i - from \in 1..Len(data)
      BY <1>1, <2>1, SMTT(30) DEF Overwrite
    <3>2. data[i - from] \in G[(at + from) + (i - from) - 1]
      BY <3>1 DEF Placed
    <3>3. (at + from) + (i - from) - 1 = at + i - 1
      BY <1>1, SMTT(30)
    <3> QED
      BY <3>1, <3>2, <3>3
  <2>2. CASE i \notin from + 1..from + Len(data)
    BY <2>2 DEF Overwrite, Placed
  <2> QED
    BY <2>1, <2>2
<1> HIDE DEF t
<1>4. Placed(t, at, G) /\ Len(t) = Len(s)
  BY <1>1, <1>2, <1>3, PlacedBytes
<1> QED
  BY <1>4 DEF t

(* Maps of strings *)

\* The strings of map m are not empty, do not overlap, lie between lo and hi and hold the
\* bytes that belong where they are.
Fits(m, lo, hi, G) ==
  /\ m = [k \in DOMAIN m |-> m[k]] /\ DOMAIN m \subseteq Nat
  /\ \A k \in DOMAIN m :
       /\ Placed(m[k], k, G) /\ Len(m[k]) \in Nat \ {0}
       /\ k >= lo /\ TailIdx(m, k) <= hi
  /\ \A j, k \in DOMAIN m : j < k => TailIdx(m, j) <= k

\* Index i lies in a string of m.
Holds(m, i) == \E k \in DOMAIN m : k <= i /\ i < TailIdx(m, k)

\* n has some of the keys of m, and under each a string of the same length.
Trimmed(m, n) ==
  /\ n = [k \in DOMAIN n |-> n[k]] /\ DOMAIN n \subseteq DOMAIN m
  /\ \A k \in DOMAIN n : Len(n[k]) = Len(m[k]) /\ TailIdx(n, k) = TailIdx(m, k)

\* The same, and the bytes may stand where they are.
Refilled(m, n, G) ==
  /\ n = [k \in DOMAIN n |-> n[k]] /\ DOMAIN n \subseteq DOMAIN m
  /\ \A k \in DOMAIN n : Placed(n[k], k, G) /\ Len(n[k]) = Len(m[k])

\* Erasing strings and replacing bytes keeps what the map was.
LEMMA TrimmedFits ==
  ASSUME NEW m, NEW lo \in Nat, NEW hi \in Nat, NEW G, Fits(m, lo, hi, G),
         NEW n, Refilled(m, n, G)
  PROVE  Fits(n, lo, hi, G) /\ Trimmed(m, n)
<1> USE DEF Refilled
<1>1. \A k \in DOMAIN n : TailIdx(n, k) = TailIdx(m, k)
  BY DEF TailIdx
<1>2. Trimmed(m, n)
  BY <1>1 DEF Trimmed
<1>3. \A k \in DOMAIN n :
        /\ Placed(n[k], k, G) /\ Len(n[k]) \in Nat \ {0}
        /\ k >= lo /\ TailIdx(n, k) <= hi
  BY <1>1 DEF Fits
<1>4. \A j, k \in DOMAIN n : j < k => TailIdx(n, j) <= k
  BY <1>1 DEF Fits
<1>5. DOMAIN n \subseteq Nat
  BY DEF Fits
<1> QED
  BY <1>2, <1>3, <1>4, <1>5 DEF Fits

\* No wrap-around below SizeMod.
LEMMA PlusIsSum ==
  ASSUME NEW a \in Nat, NEW b \in Nat, a + b < SizeMod, SizeMod \in Nat
  PROVE  Plus(a, b) = a + b
BY SMTT(30) DEF Plus

\* The bounds of each string as numbers.
LEMMA FitsBounds ==
  ASSUME NEW m, NEW lo \in Nat, NEW hi \in Nat, NEW G, Fits(m, lo, hi, G), NEW k \in DOMAIN m
  PROVE  /\ k \in Nat /\ TailIdx(m, k) \in Nat /\ lo <= k /\ k < TailIdx(m, k) /\ TailIdx(m, k) <= hi
         /\ TailIdx(m, k) = k + Len(m[k]) /\ Len(m[k]) \in Nat /\ Placed(m[k], k, G)
         /\ \A j \in DOMAIN m : j < k => TailIdx(m, j) <= k
BY SMTT(30) DEF Fits, TailIdx

(* cutData() *)

\* A string waits at idx for the second half of cutData(): nothing before idx reaches into it.
\* (getBackItr() overlooks an entry with key 0 when idx is 0: there is none then.)
Waits(m, lo, idx, data, G) ==
  /\ idx \in Nat /\ idx >= lo
  /\ Placed(data, idx, G) /\ Len(data) \in Nat \ {0}
  /\ \A k \in DOMAIN m : k < idx => TailIdx(m, k) <= idx
  /\ idx = 0 => idx \notin DOMAIN m

\* What the first half of cutData() leaves of the map and of the data at idx.
FrontCut(m, lo, hi, idx, data, c, G) ==
  /\ Fits(c.strs, lo, hi, G) /\ Trimmed(m, c.strs) /\ DOMAIN c.strs = DOMAIN m
  /\ c.drop => \A i \in idx..idx + Len(data) - 1 : i < lo \/ Holds(m, i)
  /\ ~c.drop =>
       /\ Waits(c.strs, lo, c.idx, c.data, G)
       /\ c.idx + Len(c.data) = idx + Len(data) /\ idx <= c.idx
       /\ \A i \in idx..c.idx - 1 : i < lo \/ Holds(m, i)

\* cutData(), first half: the data is cut at _exIdx or at the end of the string in front,
\* whose bytes it replaces.
LEMMA CutFrontKeeps ==
  ASSUME NEW r, NEW hi \in Nat, NEW G, r.exIdx \in Nat, Fits(r.strs, r.exIdx, hi, G),
         NEW idx \in Nat, NEW data, Placed(data, idx, G), Len(data) \in Nat \ {0},
         idx + Len(data) <= hi, hi < SizeMod, SizeMod \in Nat
  PROVE  FrontCut(r.strs, r.exIdx, hi, idx, data, CutFront(r, idx, data), G)
<1> DEFINE c == CutFront(r, idx, data)
           tail == idx + Len(data)
           overlapped == {f \in GetFrontItr(r.strs, idx) : TailIdx(r.strs, f) > idx}
           f == CHOOSE k \in overlapped : TRUE
           fTail == TailIdx(r.strs, f)
           From(i) == SubSeq(data, i - idx + 1, Len(data))
<1>1. Plus(idx, Len(data)) = tail
  <2>1. Len(data) \in Nat /\ idx + Len(data) < SizeMod
    BY SMTT(30)
  <2> QED
    BY <2>1, PlusIsSum
<1>2. r.strs = [k \in DOMAIN r.strs |-> r.strs[k]]
  BY DEF Fits
<1>3. Trimmed(r.strs, r.strs)
  BY <1>2 DEF Trimmed
<1>4. ASSUME NEW i \in Nat, idx <= i, i < tail
      PROVE  Placed(From(i), i, G) /\ Len(From(i)) = tail - i
  <2> DEFINE n == i - idx
  <2>1. n \in 0..Len(data) /\ i = idx + n /\ n + 1 = i - idx + 1
    BY <1>4, SMTT(30)
  <2> HIDE DEF n
  <2>2. Placed(SubSeq(data, n + 1, Len(data)), idx + n, G) /\ Len(SubSeq(data, n + 1, Len(data))) = Len(data) - n
    BY <2>1, PlacedSuffix, SMTT(30)
  <2>3. From(i) = SubSeq(data, n + 1, Len(data)) /\ Len(data) - n = tail - i
    BY <2>1, SMTT(30)
  <2> QED
    BY <2>1, <2>2, <2>3
<1>5. CASE idx < r.exIdx
  <2> DEFINE drop == tail <= r.exIdx
             rest == From(r.exIdx)
  <2>1. c = [drop |-> drop, idx |-> r.exIdx, data |-> rest, strs |-> r.strs]
    BY <1>1, <1>5, SMTT(30) DEF CutFront
  <2>2. drop \in BOOLEAN
    BY SMTT(30)
  <2> HIDE DEF c, drop, rest
  <2>3. c.strs = r.strs /\ c.idx = r.exIdx /\ c.data = rest
    BY <2>1
  <2>4. c.drop = drop
    BY <2>1
  <2>5. c.drop => \A i \in idx..idx + Len(data) - 1 : i < r.exIdx
    <3> SUFFICES ASSUME drop PROVE \A i \in idx..idx + Len(data) - 1 : i < r.exIdx
      BY <2>4
    <3> QED
      BY SMTT(30) DEF drop
  <2>6. ASSUME ~c.drop
        PROVE  /\ Waits(c.strs, r.exIdx, c.idx, c.data, G)
               /\ c.idx + Len(c.data) = idx + Len(data) /\ idx <= c.idx
    <3>1. ~drop
      BY <2>4, <2>6
    <3>2. tail > r.exIdx
      BY <3>1, SMTT(30) DEF drop
    <3>3. Placed(rest, r.exIdx, G) /\ Len(rest) = tail - r.exIdx
      <4> HIDE DEF From, tail
      <4> QED
        BY <1>4, <1>5, <3>2, SMTT(30) DEF rest
    <3>4. \A k \in DOMAIN r.strs : ~(k < r.exIdx)
      BY FitsBounds, SMTT(30)
    <3>5. Waits(r.strs, r.exIdx, r.exIdx, rest, G)
      BY <1>5, <3>2, <3>3, <3>4, SMTT(30) DEF Waits
    <3>6. r.exIdx + Len(rest) = idx + Len(data)
      BY <3>3, SMTT(30)
    <3> QED
      BY <1>5, <2>3, <3>5, <3>6, SMTT(30)
  <2>7. \A i \in idx..c.idx - 1 : i < r.exIdx
    BY <2>3, SMTT(30)
  <2> QED
    BY <1>3, <2>3, <2>5, <2>6, <2>7 DEF FrontCut, c
<1>6. CASE idx >= r.exIdx /\ overlapped = {}
  <2>1. c = [drop |-> FALSE, idx |-> idx, data |-> data, strs |-> r.strs]
    BY <1>6, SMTT(30) DEF CutFront
  <2> HIDE DEF c
  <2>2. c.strs = r.strs /\ c.idx = idx /\ c.data = data /\ ~c.drop
    BY <2>1
  <2>3. ASSUME NEW k \in DOMAIN r.strs, k <= idx
        PROVE  TailIdx(r.strs, k) <= idx
    <3> SUFFICES ASSUME TailIdx(r.strs, k) > idx PROVE FALSE
      BY <2>3, FitsBounds, SMTT(30)
    <3>1. \A j \in DOMAIN r.strs : j <= idx => j <= k
      <4> SUFFICES ASSUME NEW j \in DOMAIN r.strs, j <= idx, j > k PROVE FALSE
        BY FitsBounds, SMTT(30)
      <4>1. TailIdx(r.strs, k) <= j /\ j \in Nat /\ TailIdx(r.strs, k) \in Nat
        BY FitsBounds
      <4> QED
        BY <4>1, SMTT(30)
    <3>2. k \in GetFrontItr(r.strs, idx)
      BY <2>3, <3>1 DEF GetFrontItr
    <3> QED
      BY <1>6, <3>2
  <2>4. idx = 0 => idx \notin DOMAIN r.strs
    BY <2>3, FitsBounds, SMTT(30)
  <2>7. \A k \in DOMAIN r.strs : k < idx => TailIdx(r.strs, k) <= idx
    BY <2>3, FitsBounds, SMTT(30)
  <2>5. Waits(r.strs, r.exIdx, idx, data, G)
    BY <1>6, <2>4, <2>7 DEF Waits
  <2>6. \A i \in idx..idx - 1 : FALSE
    BY SMTT(30)
  <2> QED
    BY <1>3, <2>2, <2>5, <2>6, SMTT(30) DEF FrontCut, c
<1>7. CASE idx >= r.exIdx /\ overlapped # {}
  <2> DEFINE drop == tail <= fTail
             rest == From(fTail)
             n == Least(Len(data), fTail - idx)
             new == Overwrite(r.strs[f], idx - f, SubSeq(data, 1, n))
             strs == [r.strs EXCEPT ![f] = new]
  <2>1. c = [drop |-> drop, idx |-> fTail, data |-> rest, strs |-> strs]
    BY <1>1, <1>7, SMTT(30) DEF CutFront
  <2>2. drop \in BOOLEAN
    BY SMTT(30)
  <2>3. f \in DOMAIN r.strs /\ f <= idx /\ fTail > idx
    <3>1. f \in overlapped
      BY <1>7
    <3> QED
      BY <3>1 DEF GetFrontItr
  <2> HIDE DEF f
  <2>4. /\ f \in Nat /\ fTail \in Nat /\ fTail <= hi /\ fTail = f + Len(r.strs[f])
        /\ Placed(r.strs[f], f, G)
    BY <2>3, FitsBounds
  <2> HIDE DEF fTail
  <2>5. Placed(new, f, G) /\ Len(new) = Len(r.strs[f])
    <3> DEFINE from == idx - f
               head == SubSeq(data, 1, n)
               old == r.strs[f]
    <3>1. n \in 0..Len(data)
      BY <2>3, <2>4, SMTT(30) DEF Least
    <3>2. Placed(head, idx, G)
      BY <3>1, PlacedPrefix
    <3>3. from \in Nat /\ f + from = idx
      BY <2>3, <2>4, SMTT(30)
    <3>6. Placed(old, f, G)
      BY <2>4
    <3> HIDE DEF n, head, from, old
    <3>4. Placed(head, f + from, G)
      BY <3>2, <3>3
    <3>5. Placed(Overwrite(old, from, head), f, G) /\ Len(Overwrite(old, from, head)) = Len(old)
      BY <2>4, <3>3, <3>4, <3>6, PlacedOverwrite, SMTT(30)
    <3> QED
      BY <3>5 DEF from, head, old
  <2> HIDE DEF new, c, drop, rest
  <2>6. c.strs = strs /\ c.idx = fTail /\ c.data = rest
    BY <2>1
  <2>7. c.drop = drop
    BY <2>1
  <2>8. /\ DOMAIN strs = DOMAIN r.strs /\ strs = [k \in DOMAIN strs |-> strs[k]]
        /\ \A k \in DOMAIN strs : strs[k] = IF k = f THEN new ELSE r.strs[k]
    BY <1>2
  <2> HIDE DEF strs
  <2>9. \A k \in DOMAIN strs : Placed(strs[k], k, G) /\ Len(strs[k]) = Len(r.strs[k])
    BY <2>5, <2>8, FitsBounds, SMTT(30)
  <2>10. Fits(strs, r.exIdx, hi, G) /\ Trimmed(r.strs, strs)
    BY <2>8, <2>9, TrimmedFits DEF Refilled
  <2>11. ASSUME NEW i \in Nat, idx <= i, i < fTail
         PROVE  Holds(r.strs, i)
    BY <2>3, <2>4, <2>11, SMTT(30) DEF Holds, fTail
  <2>12. c.drop => \A i \in idx..idx + Len(data) - 1 : Holds(r.strs, i)
    <3> SUFFICES ASSUME drop, NEW i \in idx..idx + Len(data) - 1 PROVE Holds(r.strs, i)
      BY <2>7
    <3> QED
      BY <2>4, <2>11, SMTT(30) DEF drop
  <2>13. \A i \in idx..c.idx - 1 : Holds(r.strs, i)
    BY <2>4, <2>6, <2>11, SMTT(30)
  <2>14. ASSUME ~c.drop
         PROVE  /\ Waits(c.strs, r.exIdx, c.idx, c.data, G)
                /\ c.idx + Len(c.data) = idx + Len(data) /\ idx <= c.idx
    <3>6. ~drop
      BY <2>7, <2>14
    <3>1. tail > fTail
      BY <2>4, <3>6, SMTT(30) DEF drop
    <3>2. Placed(rest, fTail, G) /\ Len(rest) = tail - fTail
      <4> HIDE DEF From, tail
      <4> QED
        BY <1>4, <2>3, <2>4, <3>1, SMTT(30) DEF rest
    <3>3. ASSUME NEW k \in DOMAIN strs, k < fTail
          PROVE  TailIdx(strs, k) <= fTail
      <4>1. TailIdx(strs, k) = TailIdx(r.strs, k) /\ k \in DOMAIN r.strs
        BY <2>8, <2>10 DEF Trimmed
      <4>2. k \in Nat /\ TailIdx(r.strs, k) \in Nat
        BY <4>1, FitsBounds
      <4>3. CASE k < f
        BY <2>3, <2>4, <4>1, <4>2, <4>3, FitsBounds, SMTT(30)
      <4>4. CASE k = f
        BY <2>4, <4>1, <4>4, SMTT(30) DEF fTail
      <4>5. CASE k > f
        <5>1. fTail <= k
          BY <2>3, <4>1, <4>5, FitsBounds DEF fTail
        <5> QED
          BY <2>4, <3>3, <4>2, <5>1, SMTT(30)
      <4> QED
        BY <2>4, <4>2, <4>3, <4>4, <4>5, SMTT(30)
    <3>4. Waits(strs, r.exIdx, fTail, rest, G)
      BY <1>7, <2>3, <2>4, <3>1, <3>2, <3>3, SMTT(30) DEF Waits
    <3>5. fTail + Len(rest) = idx + Len(data) /\ idx <= fTail
      BY <2>3, <2>4, <3>2, SMTT(30)
    <3> QED
      BY <2>6, <3>4, <3>5
  <2> QED
    BY <2>6, <2>8, <2>10, <2>12, <2>13, <2>14 DEF FrontCut, c
<1> QED
  BY <1>5, <1>6, <1>7, SMTT(30)

\* No string of m overlaps the len bytes from idx on.
Free(m, idx, len) == \A k \in DOMAIN m : TailIdx(m, k) <= idx \/ k >= idx + len

\* What the second half of cutData() leaves of the map and of the data that waits at idx:
\* with the data put in its place the map holds what it held and all of the data.
BackCut(m, lo, hi, idx, tail, c, G) ==
  /\ Fits(c.strs, lo, hi, G) /\ Trimmed(m, c.strs)
  /\ \A i \in Nat : Holds(m, i) => Holds(c.strs, i) \/ i \in idx..tail - 1
  /\ c.drop => \A i \in idx..tail - 1 : Holds(c.strs, i)
  /\ ~c.drop =>
       /\ c.idx = idx /\ Placed(c.data, idx, G)
       /\ Len(c.data) \in Nat \ {0} /\ idx + Len(c.data) <= tail
       /\ Free(c.strs, idx, Len(c.data))
       /\ \A i \in idx + Len(c.data)..tail - 1 : Holds(c.strs, i)

\* cutData(), second half: the loop over the strings behind idx.
LEMMA CutBackKeeps ==
  ASSUME NEW m, NEW lo \in Nat, NEW hi \in Nat, NEW G, Fits(m, lo, hi, G),
         NEW idx, NEW data, Waits(m, lo, idx, data, G),
         idx + Len(data) <= hi, hi < SizeMod, SizeMod \in Nat
  PROVE  BackCut(m, lo, hi, idx, idx + Len(data), CutBack(m, idx, data), G)
<1> DEFINE tail == idx + Len(data)
           overlapped == {k \in GetBackItr(m, idx) : k < tail}
           inside == {k \in overlapped : TailIdx(m, k) < tail}
           last == overlapped \ inside
           drop == idx \in last
           b == CHOOSE k \in last : TRUE
           rest == IF last = {} THEN data ELSE SubSeq(data, 1, b - idx)
           strs == [k \in DOMAIN m \ inside |->
                      IF k \in last
                      THEN Overwrite(m[k], 0, SubSeq(data, k - idx + 1, Len(data)))
                      ELSE m[k]]
           c == CutBack(m, idx, data)
<1>1. /\ idx \in Nat /\ idx >= lo /\ Placed(data, idx, G) /\ Len(data) \in Nat \ {0}
      /\ \A k \in DOMAIN m : k < idx => TailIdx(m, k) <= idx
      /\ idx = 0 => idx \notin DOMAIN m
  BY DEF Waits
<1>2. Plus(idx, Len(data)) = tail
  <2>1. Len(data) \in Nat /\ idx + Len(data) < SizeMod
    BY <1>1, SMTT(30)
  <2> QED
    BY <1>1, <2>1, PlusIsSum
<1>3. c = [drop |-> drop, idx |-> idx, data |-> rest, strs |-> strs]
  BY <1>2 DEF CutBack
<1>4. drop \in BOOLEAN
  BY SMTT(30)
<1>5. tail \in Nat /\ tail > idx
  BY <1>1, SMTT(30)
<1>6. \A k : k \in overlapped <=> k \in DOMAIN m /\ idx <= k /\ k < tail
  <2>1. \A k \in DOMAIN m : k \in Nat
    BY FitsBounds
  <2>2. \A k \in DOMAIN m : k \in GetBackItr(m, idx) <=> idx <= k
    BY <1>1, <2>1, SMTT(30) DEF GetBackItr
  <2>3. \A k : k \in GetBackItr(m, idx) => k \in DOMAIN m
    BY DEF GetBackItr
  <2> HIDE DEF tail
  <2> QED
    BY <2>2, <2>3
<1>7. \A k : k \in inside <=> k \in DOMAIN m /\ idx <= k /\ k < tail /\ TailIdx(m, k) < tail
  <2> HIDE DEF overlapped, tail
  <2> QED
    BY <1>6
<1>8. \A k : k \in last <=> k \in DOMAIN m /\ idx <= k /\ k < tail /\ TailIdx(m, k) >= tail
  <2>1. \A k \in DOMAIN m : TailIdx(m, k) >= tail <=> ~(TailIdx(m, k) < tail)
    BY <1>5, FitsBounds, SMTT(30)
  <2> HIDE DEF overlapped, tail, inside
  <2> QED
    BY <1>6, <1>7, <2>1
<1>9. \A j, k \in last : j = k
  <2> SUFFICES ASSUME NEW j \in last, NEW k \in last, j < k PROVE FALSE
    BY <1>8, FitsBounds, SMTT(30)
  <2>1. TailIdx(m, j) <= k /\ TailIdx(m, j) \in Nat /\ k \in Nat
    BY <1>8, FitsBounds
  <2> QED
    BY <1>5, <1>8, <2>1, SMTT(30)
<1>10. last # {} => b \in last
  OBVIOUS
<1> HIDE DEF overlapped, inside, last, drop, b, rest, c
<1>11. c.strs = strs /\ c.idx = idx /\ c.data = rest
  BY <1>3
<1>12. c.drop = drop
  BY <1>3, <1>4
<1>13. /\ DOMAIN strs = DOMAIN m \ inside /\ strs = [k \in DOMAIN strs |-> strs[k]]
       /\ DOMAIN strs \subseteq DOMAIN m
  OBVIOUS
<1>14. ASSUME NEW k \in DOMAIN strs
       PROVE  Placed(strs[k], k, G) /\ Len(strs[k]) = Len(m[k])
  <2>1. k \in DOMAIN m /\ k \in Nat /\ Placed(m[k], k, G)
    BY <1>13, FitsBounds
  <2>2. CASE k \notin last
    BY <2>1, <2>2
  <2>3. CASE k \in last
    <3> DEFINE n == k - idx
               new == SubSeq(data, n + 1, Len(data))
               old == m[k]
    <3>1. n \in 0..Len(data) /\ idx + n = k + 0 /\ k - idx + 1 = n + 1
      BY <1>1, <1>8, <2>1, <2>3, SMTT(30)
    <3>2. strs[k] = Overwrite(old, 0, new)
      BY <2>3, <3>1
    <3> HIDE DEF n
    <3>3. Placed(new, idx + n, G)
      BY <1>1, <3>1, PlacedSuffix
    <3> HIDE DEF new, old, strs
    <3>4. Placed(new, k + 0, G)
      BY <3>1, <3>3
    <3>5. Placed(old, k, G)
      BY <2>1 DEF old
    <3>6. Placed(Overwrite(old, 0, new), k, G) /\ Len(Overwrite(old, 0, new)) = Len(old)
      BY <2>1, <3>4, <3>5, PlacedOverwrite, SMTT(30)
    <3> QED
      BY <3>2, <3>6 DEF old
  <2> QED
    BY <2>2, <2>3
<1> HIDE DEF strs
<1>15. Fits(strs, lo, hi, G) /\ Trimmed(m, strs)
  BY <1>13, <1>14, TrimmedFits, SMTT(30) DEF Refilled
<1>16. \A k \in DOMAIN strs : TailIdx(strs, k) = TailIdx(m, k)
  BY <1>15 DEF Trimmed
<1>17. ASSUME NEW i \in Nat, Holds(m, i)
       PROVE  Holds(strs, i) \/ i \in idx..tail - 1
  <2>1. PICK k \in DOMAIN m : k <= i /\ i < TailIdx(m, k)
    BY <1>17 DEF Holds
  <2>2. CASE k \in inside
    <3>1. k \in Nat /\ TailIdx(m, k) \in Nat /\ idx <= k /\ TailIdx(m, k) < tail
      BY <1>7, <2>2, FitsBounds
    <3> QED
      BY <1>1, <1>5, <2>1, <3>1, SMTT(30)
  <2>3. CASE k \notin inside
    BY <1>13, <1>16, <2>1, <2>3 DEF Holds
  <2> QED
    BY <2>2, <2>3
<1>18. last # {} => \A i \in b..tail - 1 : Holds(strs, i)
  <2> SUFFICES ASSUME last # {}, NEW i \in b..tail - 1 PROVE Holds(strs, i)
    OBVIOUS
  <2>1. b \in DOMAIN m /\ b \in Nat /\ TailIdx(m, b) >= tail /\ TailIdx(m, b) \in Nat
    BY <1>8, <1>10, FitsBounds
  <2>2. b \in DOMAIN strs
    BY <1>5, <1>7, <1>13, <2>1, SMTT(30)
  <2>3. b <= i /\ i < TailIdx(strs, b)
    BY <1>5, <1>16, <2>1, <2>2, SMTT(30)
  <2> QED
    BY <2>2, <2>3 DEF Holds
<1>19. c.drop => \A i \in idx..tail - 1 : Holds(strs, i)
  <2> SUFFICES ASSUME drop PROVE \A i \in idx..tail - 1 : Holds(strs, i)
    BY <1>12
  <2>1. last # {} /\ b = idx
    BY <1>9, <1>10 DEF drop
  <2> QED
    BY <1>18, <2>1
<1>20. ASSUME ~c.drop
       PROVE  /\ Placed(rest, idx, G) /\ Len(rest) \in 1..Len(data)
              /\ idx + Len(rest) <= tail /\ Free(strs, idx, Len(rest))
              /\ \A i \in idx + Len(rest)..tail - 1 : Holds(strs, i)
  <2>1. idx \notin last
    BY <1>12, <1>20 DEF drop
  <2>2. \A k \in DOMAIN strs :
          \/ TailIdx(strs, k) <= idx
          \/ k >= tail
          \/ k \in last
    <3> TAKE k \in DOMAIN strs
    <3>1. k \in DOMAIN m /\ k \notin inside /\ k \in Nat /\ TailIdx(m, k) \in Nat
      BY <1>13, FitsBounds
    <3> QED
      BY <1>1, <1>5, <1>7, <1>8, <1>16, <3>1, SMTT(30)
  <2>3. CASE last = {}
    <3>1. rest = data
      BY <2>3 DEF rest
    <3>2. Free(strs, idx, Len(data))
      BY <2>2, <2>3 DEF Free
    <3>3. \A i \in idx + Len(data)..tail - 1 : FALSE
      BY <1>1, SMTT(30)
    <3> QED
      BY <1>1, <3>1, <3>2, <3>3, SMTT(30)
  <2>4. CASE last # {}
    <3> DEFINE n == b - idx
    <3>1. b \in last /\ b \in Nat /\ idx < b /\ b < tail
      BY <1>1, <1>8, <1>10, <2>1, <2>4, FitsBounds, SMTT(30)
    <3>2. n \in 0..Len(data) /\ n \in 1..Len(data) /\ idx + n = b
      BY <1>1, <3>1, SMTT(30)
    <3>3. rest = SubSeq(data, 1, n)
      BY <2>4 DEF rest
    <3> HIDE DEF n
    <3>4. Placed(rest, idx, G) /\ Len(rest) = n
      BY <1>1, <3>2, <3>3, PlacedPrefix
    <3>5. \A k \in DOMAIN strs : TailIdx(strs, k) <= idx \/ k >= b
      <4> TAKE k \in DOMAIN strs
      <4>1. k \in Nat
        BY <1>13, FitsBounds
      <4>2. k \in last => k = b
        BY <1>9, <3>1
      <4> QED
        BY <1>5, <2>2, <3>1, <4>1, <4>2, SMTT(30)
    <3>6. Free(strs, idx, n)
      BY <3>2, <3>5 DEF Free
    <3>7. idx + n <= tail /\ n \in 1..Len(data)
      BY <1>5, <3>1, <3>2, SMTT(30)
    <3>8. \A i \in idx + n..tail - 1 : Holds(strs, i)
      BY <1>18, <2>4, <3>2
    <3> HIDE DEF tail
    <3> QED
      BY <3>4, <3>6, <3>7, <3>8
  <2> QED
    BY <2>3, <2>4
<1> HIDE DEF tail
<1>21. /\ Fits(c.strs, lo, hi, G) /\ Trimmed(m, c.strs)
       /\ \A i \in Nat : Holds(m, i) => Holds(c.strs, i) \/ i \in idx..tail - 1
       /\ c.drop => \A i \in idx..tail - 1 : Holds(c.strs, i)
  BY <1>11, <1>15, <1>17, <1>19
<1>22. ~c.drop =>
         /\ c.idx = idx /\ Placed(c.data, idx, G)
         /\ Len(c.data) \in Nat \ {0} /\ idx + Len(c.data) <= tail
         /\ Free(c.strs, idx, Len(c.data))
         /\ \A i \in idx + Len(c.data)..tail - 1 : Holds(c.strs, i)
  BY <1>11, <1>20, SMTT(30)
<1>23. BackCut(m, lo, hi, idx, tail, c, G)
  BY <1>21, <1>22 DEF BackCut
<1> QED
  BY <1>23 DEF c, tail

\* Index i is in m, or among the indices from idx up to tail that are not written yet.
Wanted(m, lo, idx, tail, i) == Holds(m, i) \/ (i >= lo /\ i \in idx..tail - 1)

\* A map without new strings holds nothing new.
LEMMA TrimmedHolds ==
  ASSUME NEW m, NEW n, Trimmed(m, n), NEW i, Holds(n, i)
  PROVE  Holds(m, i)
BY DEF Trimmed, Holds

\* What cutData() leaves: nothing new in the map, and what is wanted there or in the data.
DataCut(m, lo, hi, idx, tail, c, G) ==
  /\ Fits(c.strs, lo, hi, G) /\ \A i \in Nat : Holds(c.strs, i) => Holds(m, i)
  /\ c.drop => \A i \in Nat : Wanted(m, lo, idx, tail, i) => Holds(c.strs, i)
  /\ ~c.drop =>
       /\ c.idx \in Nat /\ c.idx >= lo /\ c.idx >= idx /\ Placed(c.data, c.idx, G)
       /\ Len(c.data) \in Nat \ {0} /\ c.idx + Len(c.data) <= tail
       /\ Free(c.strs, c.idx, Len(c.data))
       /\ \A i \in Nat : Wanted(m, lo, idx, tail, i) =>
                          Holds(c.strs, i) \/ i \in c.idx..c.idx + Len(c.data) - 1

\* cutData(), both halves.
LEMMA CutDataKeeps ==
  ASSUME NEW r, NEW hi \in Nat, NEW G, r.exIdx \in Nat, Fits(r.strs, r.exIdx, hi, G),
         NEW idx \in Nat, NEW data, Placed(data, idx, G), Len(data) \in Nat \ {0},
         idx + Len(data) <= hi, hi < SizeMod, SizeMod \in Nat
  PROVE  DataCut(r.strs, r.exIdx, hi, idx, idx + Len(data), CutData(r, idx, data), G)
<1> DEFINE m == r.strs
           lo == r.exIdx
           tail == idx + Len(data)
           f == CutFront(r, idx, data)
           c == CutData(r, idx, data)
<1>1. FrontCut(m, lo, hi, idx, data, f, G)
  BY CutFrontKeeps
<1>2. c = IF f.drop THEN f ELSE CutBack(f.strs, f.idx, f.data)
  BY DEF CutData
<1>3. tail \in Nat
  BY SMTT(30)
<1> HIDE DEF f, c
<1>4. /\ Fits(f.strs, lo, hi, G) /\ Trimmed(m, f.strs) /\ DOMAIN f.strs = DOMAIN m
      /\ f.drop => \A i \in idx..tail - 1 : i < lo \/ Holds(m, i)
      /\ ~f.drop =>
           /\ Waits(f.strs, lo, f.idx, f.data, G)
           /\ f.idx + Len(f.data) = tail /\ idx <= f.idx
           /\ \A i \in idx..f.idx - 1 : i < lo \/ Holds(m, i)
  BY <1>1, SMTT(30) DEF FrontCut
<1> HIDE DEF m, lo, tail
<1>5. lo \in Nat
  BY DEF lo
<1>6. \A i \in Nat : Holds(m, i) <=> Holds(f.strs, i)
  <2>1. \A k \in DOMAIN m : TailIdx(m, k) = TailIdx(f.strs, k)
    BY <1>4 DEF Trimmed
  <2> QED
    BY <1>4, <2>1 DEF Holds
<1>7. CASE f.drop
  <2>1. c = f
    BY <1>2, <1>7
  <2>2. \A i \in Nat : Wanted(m, lo, idx, tail, i) => Holds(f.strs, i)
    BY <1>3, <1>4, <1>5, <1>6, <1>7, SMTT(30) DEF Wanted
  <2>3. DataCut(m, lo, hi, idx, tail, c, G)
    BY <1>4, <1>6, <1>7, <2>1, <2>2 DEF DataCut
  <2> QED
    BY <2>3 DEF m, lo, tail, c
<1>8. CASE ~f.drop
  <2>1. c = CutBack(f.strs, f.idx, f.data)
    BY <1>2, <1>8
  <2>2. /\ Waits(f.strs, lo, f.idx, f.data, G) /\ f.idx + Len(f.data) = tail /\ idx <= f.idx
        /\ \A i \in idx..f.idx - 1 : i < lo \/ Holds(m, i)
        /\ f.idx \in Nat /\ f.idx >= lo
    BY <1>4, <1>8 DEF Waits
  <2>3. f.idx + Len(f.data) <= hi
    BY <2>2 DEF tail
  <2>4. BackCut(f.strs, lo, hi, f.idx, tail, c, G)
    BY <1>4, <1>5, <2>1, <2>2, <2>3, CutBackKeeps
  <2>5. /\ Fits(c.strs, lo, hi, G) /\ Trimmed(f.strs, c.strs)
        /\ \A i \in Nat : Holds(f.strs, i) => Holds(c.strs, i) \/ i \in f.idx..tail - 1
        /\ c.drop => \A i \in f.idx..tail - 1 : Holds(c.strs, i)
        /\ ~c.drop =>
             /\ c.idx = f.idx /\ Placed(c.data, f.idx, G)
             /\ Len(c.data) \in Nat \ {0} /\ f.idx + Len(c.data) <= tail
             /\ Free(c.strs, f.idx, Len(c.data))
             /\ \A i \in f.idx + Len(c.data)..tail - 1 : Holds(c.strs, i)
    BY <2>4 DEF BackCut
  <2>6. \A i \in Nat : Holds(c.strs, i) => Holds(m, i)
    BY <1>6, <2>5, TrimmedHolds
  <2>7. \A i \in Nat : Wanted(m, lo, idx, tail, i) => Holds(c.strs, i) \/ i \in f.idx..tail - 1
    <3> SUFFICES ASSUME NEW i \in Nat, Wanted(m, lo, idx, tail, i), i \notin f.idx..tail - 1
                 PROVE  Holds(c.strs, i)
      OBVIOUS
    <3>1. Holds(m, i)
      BY <1>3, <1>5, <2>2, SMTT(30) DEF Wanted
    <3> QED
      BY <1>6, <2>5, <3>1
  <2>8. c.drop => \A i \in Nat : Wanted(m, lo, idx, tail, i) => Holds(c.strs, i)
    BY <2>5, <2>7
  <2>9. ASSUME ~c.drop
        PROVE  /\ c.idx \in Nat /\ c.idx >= lo /\ c.idx >= idx /\ Placed(c.data, c.idx, G)
               /\ Len(c.data) \in Nat \ {0} /\ c.idx + Len(c.data) <= tail
               /\ Free(c.strs, c.idx, Len(c.data))
               /\ \A i \in Nat : Wanted(m, lo, idx, tail, i) =>
                                  Holds(c.strs, i) \/ i \in c.idx..c.idx + Len(c.data) - 1
    <3> DEFINE len == Len(c.data)
    <3>1. /\ c.idx = f.idx /\ Placed(c.data, f.idx, G)
          /\ len \in Nat \ {0} /\ f.idx + len <= tail
          /\ Free(c.strs, f.idx, len)
          /\ \A i \in f.idx + len..tail - 1 : Holds(c.strs, i)
      BY <2>5, <2>9
    <3> HIDE DEF len
    <3>2. \A i \in Nat : Wanted(m, lo, idx, tail, i) => Holds(c.strs, i) \/ i \in f.idx..f.idx + len - 1
      <4> SUFFICES ASSUME NEW i \in Nat, Wanted(m, lo, idx, tail, i), i \notin f.idx..f.idx + len - 1
                   PROVE  Holds(c.strs, i)
        OBVIOUS
      <4>1. i \in f.idx..tail - 1 => i \in f.idx + len..tail - 1
        BY <1>3, <2>2, <3>1, SMTT(30)
      <4> QED
        BY <2>7, <3>1, <4>1
    <3> QED
      BY <2>2, <3>1, <3>2 DEF len
  <2>10. DataCut(m, lo, hi, idx, tail, c, G)
    BY <2>5, <2>6, <2>8, <2>9 DEF DataCut
  <2> QED
    BY <2>10 DEF m, lo, tail, c
<1> QED
  BY <1>7, <1>8

\* Step 2 of push_substring(): the data goes to its place in the map.
Inserted(m, at, s) == [k \in DOMAIN m \cup {at} |-> IF k = at THEN s ELSE m[k]]

\* A string where nothing is fits, and is held from then on.
LEMMA InsertFits ==
  ASSUME NEW m, NEW lo \in Nat, NEW hi \in Nat, NEW G, Fits(m, lo, hi, G),
         NEW at \in Nat, at >= lo, NEW s, Placed(s, at, G), NEW len \in Nat \ {0}, Len(s) = len,
         at + len <= hi, Free(m, at, len)
  PROVE  /\ Fits(Inserted(m, at, s), lo, hi, G)
         /\ \A i \in Nat : Holds(Inserted(m, at, s), i) <=> Holds(m, i) \/ i \in at..at + len - 1
<1> DEFINE n == Inserted(m, at, s)
<1>1. /\ DOMAIN n = DOMAIN m \cup {at} /\ n = [k \in DOMAIN n |-> n[k]] /\ n[at] = s
      /\ \A k \in DOMAIN m : k # at => n[k] = m[k]
  BY DEF Inserted
<1>2. at \notin DOMAIN m
  BY FitsBounds, SMTT(30) DEF Free
<1> HIDE DEF n
<1>3. TailIdx(n, at) = at + len /\ \A k \in DOMAIN m : TailIdx(n, k) = TailIdx(m, k) /\ n[k] = m[k]
  BY <1>1, <1>2 DEF TailIdx
<1>4. \A k \in DOMAIN n :
        /\ Placed(n[k], k, G) /\ Len(n[k]) \in Nat \ {0}
        /\ k >= lo /\ TailIdx(n, k) <= hi
  <2> TAKE k \in DOMAIN n
  <2>1. CASE k = at
    BY <1>1, <1>3, <2>1
  <2>2. CASE k \in DOMAIN m
    BY <1>3, <2>2 DEF Fits
  <2> QED
    BY <1>1, <2>1, <2>2
<1>5. ASSUME NEW j \in DOMAIN n, NEW k \in DOMAIN n, j < k
      PROVE  TailIdx(n, j) <= k
  <2>1. CASE j \in DOMAIN m /\ k \in DOMAIN m
    BY <1>3, <1>5, <2>1 DEF Fits
  <2>2. CASE j = at /\ k \in DOMAIN m
    <3>1. k \in Nat /\ k < TailIdx(m, k) /\ TailIdx(m, k) \in Nat
      BY <2>2, FitsBounds
    <3> QED
      BY <1>3, <1>5, <2>2, <3>1, SMTT(30) DEF Free
  <2>3. CASE j \in DOMAIN m /\ k = at
    <3>1. j \in Nat
      BY <2>3, FitsBounds
    <3> QED
      BY <1>3, <1>5, <2>3, <3>1, SMTT(30) DEF Free
  <2>4. CASE j = at /\ k = at
    BY <1>5, <2>4, SMTT(30)
  <2> QED
    BY <1>1, <2>1, <2>2, <2>3, <2>4
<1>6. DOMAIN n \subseteq Nat
  BY <1>1 DEF Fits
<1>7. Fits(n, lo, hi, G)
  BY <1>1, <1>4, <1>5, <1>6 DEF Fits
<1>8. \A i \in Nat : Holds(n, i) <=> Holds(m, i) \/ i \in at..at + len - 1
  <2> TAKE i \in Nat
  <2>1. i \in at..at + len - 1 <=> at <= i /\ i < TailIdx(n, at)
    BY <1>3, SMTT(30)
  <2> QED
    BY <1>1, <1>3, <2>1 DEF Holds
<1> QED
  BY <1>7, <1>8 DEF n

(* The push loop *)

\* A bounded set of natural numbers has a greatest one.
LEMMA GreatestOf ==
  ASSUME NEW S, NEW hi \in Nat, S \subseteq 0..hi, S # {}
  PROVE  Max(S) \in S /\ \A y \in S : y <= Max(S)
<1> DEFINE T == {hi - x : x \in S}
<1>1. T \subseteq Nat /\ T # {}
  <2>1. \A x \in S : hi - x \in Nat
    BY SMTT(30)
  <2> QED
    BY <2>1
<1> HIDE DEF T
<1>2. PICK t \in T : \A u \in T : t <= u
  BY <1>1, LeastNatural
<1>3. PICK x \in S : t = hi - x
  BY DEF T
<1>4. \A y \in S : x >= y
  <2> TAKE y \in S
  <2>1. hi - y \in T
    BY DEF T
  <2>2. hi - x <= hi - y /\ x \in 0..hi /\ y \in 0..hi
    BY <1>2, <1>3, <2>1
  <2> QED
    BY <2>2, SMTT(30)
<1>5. Max(S) \in S /\ \A y \in S : Max(S) >= y
  BY <1>4 DEF Max
<1> QED
  BY <1>5

\* The strings the loop gets to if the output takes them all, those that an output with room
\* for so many bytes takes whole, and the one at which it is busy.
Chain(m, lo) == {k \in DOMAIN m : \A i \in lo..k : Holds(m, i)}
Eaten(m, lo, room) == {k \in Chain(m, lo) : TailIdx(m, k) <= lo + room}
Busy(m, lo, room) ==
  {k \in Chain(m, lo) \ Eaten(m, lo, room) : \A j \in Chain(m, lo) \ Eaten(m, lo, room) : k <= j}

\* Where _exIdx stands after the loop.
Front(m, lo, room) ==
  CASE Chain(m, lo) = {} -> lo
    [] Chain(m, lo) # {} /\ Busy(m, lo, room) = {} -> Max({TailIdx(m, k) : k \in Eaten(m, lo, room)})
    [] Busy(m, lo, room) # {} -> lo + room

\* The loop comes to x: everything before x is in a string it got to, which is taken whole;
\* what is left starts behind x, but for a string at which the output is busy.
Reaches(m, lo, room, x) ==
  /\ x \in Nat /\ lo <= x /\ x <= lo + room
  /\ Chain(m, lo) = {} => x = lo
  /\ \A i \in lo..x - 1 : \E k \in Chain(m, lo) : k <= i /\ i < TailIdx(m, k)
  /\ \A k \in Eaten(m, lo, room) : TailIdx(m, k) <= x
  /\ Busy(m, lo, room) = {} => \A k \in DOMAIN m \ Eaten(m, lo, room) : k > x
  /\ \A b \in Busy(m, lo, room) :
       /\ b \in DOMAIN m /\ b <= x /\ x < TailIdx(m, b) /\ x = lo + room
       /\ \A k \in DOMAIN m \ (Eaten(m, lo, room) \cup Busy(m, lo, room)) : k >= TailIdx(m, b)
       /\ \A k \in Busy(m, lo, room) : k = b

\* The push loop on any map of strings that do not overlap.
LEMMA FrontReaches ==
  ASSUME NEW m, NEW lo \in Nat, NEW hi \in Nat, NEW G, Fits(m, lo, hi, G), NEW room \in Nat
  PROVE  Reaches(m, lo, room, Front(m, lo, room))
<1> DEFINE chain == Chain(m, lo)
           eaten == Eaten(m, lo, room)
           busy == Busy(m, lo, room)
           x == Front(m, lo, room)
<1>1. \A k \in DOMAIN m : k \in chain <=> \A i \in lo..k : Holds(m, i)
  BY DEF Chain
<1>2. chain \subseteq DOMAIN m /\ DOMAIN m \subseteq Nat
  BY FitsBounds DEF Chain
<1>3. \A k \in chain : k \in eaten <=> TailIdx(m, k) <= lo + room
  BY DEF Eaten
<1>4. eaten \subseteq chain
  BY DEF Eaten
<1>5. \A k : k \in busy <=> k \in chain \ eaten /\ \A j \in chain \ eaten : k <= j
  BY DEF Busy
<1>6. x = CASE chain = {} -> lo
            [] chain # {} /\ busy = {} -> Max({TailIdx(m, k) : k \in eaten})
            [] busy # {} -> lo + room
  BY DEF Front
<1> HIDE DEF chain, eaten, busy, x
<1>7. ASSUME NEW k \in chain, NEW i \in lo..TailIdx(m, k) - 1
      PROVE  Holds(m, i)
  <2>1. k \in DOMAIN m /\ k \in Nat /\ TailIdx(m, k) \in Nat
    BY <1>2, FitsBounds
  <2>2. CASE i <= k
    BY <1>1, <2>1, <2>2, SMTT(30)
  <2>3. CASE i > k
    BY <2>1, <2>3, SMTT(30) DEF Holds
  <2> QED
    BY <2>1, <2>2, <2>3, SMTT(30)
<1>8. ASSUME NEW i \in Nat, i >= lo, \A j \in lo..i : Holds(m, j)
      PROVE  \E k \in chain : k <= i /\ i < TailIdx(m, k)
  <2>1. PICK k \in DOMAIN m : k <= i /\ i < TailIdx(m, k)
    BY <1>8, SMTT(30) DEF Holds
  <2>2. k \in Nat /\ lo..k \subseteq lo..i
    BY <2>1, FitsBounds, SMTT(30)
  <2> QED
    BY <1>1, <1>8, <2>1, <2>2
<1>9. ASSUME NEW k \in DOMAIN m, \A j \in lo..k - 1 : Holds(m, j)
      PROVE  k \in chain
  <2>1. k \in Nat /\ k < TailIdx(m, k)
    BY FitsBounds
  <2>2. Holds(m, k)
    BY <2>1, SMTT(30) DEF Holds
  <2>3. \A i \in lo..k : i = k \/ i \in lo..k - 1
    BY <2>1, SMTT(30)
  <2> QED
    BY <1>1, <1>9, <2>2, <2>3
<1>10. ASSUME NEW k \in chain, NEW y \in Nat, y <= TailIdx(m, k), NEW i \in lo..y - 1
       PROVE  \E j \in chain : j <= i /\ i < TailIdx(m, j)
  <2>1. TailIdx(m, k) \in Nat
    BY <1>2, FitsBounds
  <2>2. i \in Nat /\ i >= lo /\ \A j \in lo..i : j \in lo..TailIdx(m, k) - 1
    BY <1>10, <2>1, SMTT(30)
  <2> QED
    BY <1>7, <1>8, <2>2
<1>11. CASE chain = {}
  <2>1. eaten = {} /\ busy = {}
    BY <1>4, <1>5, <1>11
  <2>2. x = lo
    BY <1>6, <1>11, <2>1
  <2>3. \A i \in lo..x - 1 : FALSE
    BY <2>2, SMTT(30)
  <2>4. \A k \in DOMAIN m : k > lo
    <3> TAKE k \in DOMAIN m
    <3>1. k \in Nat /\ k >= lo
      BY FitsBounds
    <3>2. k = lo => \A j \in lo..k - 1 : FALSE
      BY SMTT(30)
    <3> QED
      BY <1>9, <1>11, <3>1, <3>2, SMTT(30)
  <2> QED
    BY <1>11, <2>2, <2>1, <2>3, <2>4, SMTT(30) DEF Reaches, chain, eaten, busy, x
<1>12. CASE chain # {} /\ busy = {}
  <2> DEFINE tails == {TailIdx(m, k) : k \in eaten}
  <2>1. chain = eaten
    <3> SUFFICES ASSUME chain \ eaten # {} PROVE FALSE
      BY <1>4
    <3>1. chain \ eaten \subseteq Nat
      BY <1>2
    <3>2. PICK k \in chain \ eaten : \A j \in chain \ eaten : k <= j
      BY <3>1, LeastNatural
    <3> QED
      BY <1>5, <1>12, <3>2
  <2>2. tails # {} /\ tails \subseteq 0..hi
    <3>1. \A k \in eaten : TailIdx(m, k) \in 0..hi
      BY <1>2, <2>1, FitsBounds, SMTT(30)
    <3> QED
      BY <1>12, <2>1, <3>1
  <2>3. x = Max(tails)
    BY <1>6, <1>12
  <2> HIDE DEF tails
  <2>4. x \in tails /\ \A y \in tails : y <= x
    BY <2>2, <2>3, GreatestOf
  <2>5. PICK k \in eaten : x = TailIdx(m, k)
    BY <2>4 DEF tails
  <2>6. x \in Nat /\ lo <= x /\ x <= lo + room
    BY <1>2, <1>3, <2>1, <2>5, FitsBounds, SMTT(30)
  <2>7. \A j \in eaten : TailIdx(m, j) <= x
    BY <2>4 DEF tails
  <2>8. \A i \in lo..x - 1 : \E j \in chain : j <= i /\ i < TailIdx(m, j)
    BY <1>10, <2>1, <2>5, <2>6, SMTT(30)
  <2>9. \A j \in DOMAIN m \ eaten : j > x
    <3> SUFFICES ASSUME NEW j \in DOMAIN m \ eaten, ~(j > x) PROVE FALSE
      OBVIOUS
    <3>1. j \in Nat /\ \A i \in lo..j - 1 : i \in lo..x - 1
      BY <1>2, <2>6, SMTT(30)
    <3>2. \A i \in lo..j - 1 : Holds(m, i)
      BY <1>7, <2>1, <2>5, <3>1
    <3> QED
      BY <1>9, <2>1, <3>2
  <2> QED
    BY <1>12, <2>6, <2>7, <2>8, <2>9 DEF Reaches, chain, eaten, busy, x
<1>13. CASE busy # {}
  <2>1. chain # {} /\ busy \subseteq chain
    BY <1>5, <1>13
  <2>2. x = lo + room
    BY <1>6, <1>13, <2>1
  <2>3. ASSUME NEW b \in busy
        PROVE  /\ b \in DOMAIN m /\ b <= x /\ x < TailIdx(m, b) /\ b \in chain
               /\ \A k \in DOMAIN m \ (eaten \cup busy) : k >= TailIdx(m, b)
               /\ \A k \in busy : k = b
    <3>1. /\ b \in chain /\ b \notin eaten /\ b \in DOMAIN m /\ b \in Nat
          /\ TailIdx(m, b) \in Nat /\ lo <= b /\ b < TailIdx(m, b)
      BY <1>2, <1>5, FitsBounds
    <3>2. x < TailIdx(m, b)
      BY <1>3, <2>2, <3>1, SMTT(30)
    <3>3. ASSUME NEW k \in DOMAIN m, k < b
          PROVE  k \in eaten
      <4>1. k \in Nat /\ \A i \in lo..k - 1 : i \in lo..TailIdx(m, b) - 1
        BY <1>2, <3>1, <3>3, SMTT(30)
      <4>2. k \in chain
        BY <1>7, <1>9, <3>1, <4>1
      <4> QED
        BY <1>5, <3>1, <3>3, <4>1, <4>2, SMTT(30)
    <3>4. b <= x
      <4>1. CASE b = lo
        BY <2>2, <4>1, SMTT(30)
      <4>2. CASE b > lo
        <5>1. b - 1 \in lo..TailIdx(m, b) - 1 /\ b - 1 \in Nat
          BY <3>1, <4>2, SMTT(30)
        <5>2. Holds(m, b - 1)
          BY <1>7, <3>1, <5>1
        <5>3. PICK k \in DOMAIN m : k <= b - 1 /\ b - 1 < TailIdx(m, k)
          BY <5>2 DEF Holds
        <5>4. k \in Nat /\ TailIdx(m, k) \in Nat
          BY FitsBounds
        <5>5. k \in eaten
          BY <3>1, <3>3, <5>3, <5>4, SMTT(30)
        <5>6. TailIdx(m, k) <= lo + room
          BY <1>3, <1>4, <5>5
        <5> QED
          BY <2>2, <3>1, <5>3, <5>4, <5>6, SMTT(30)
      <4> QED
        BY <3>1, <4>1, <4>2, SMTT(30)
    <3>5. \A k \in busy : k = b
      <4> TAKE k \in busy
      <4>1. k <= b /\ b <= k /\ k \in Nat
        BY <1>2, <1>5
      <4> QED
        BY <3>1, <4>1, SMTT(30)
    <3>6. \A k \in DOMAIN m \ (eaten \cup busy) : k >= TailIdx(m, b)
      <4> TAKE k \in DOMAIN m \ (eaten \cup busy)
      <4>1. k # b /\ ~(k < b) /\ k \in Nat
        BY <1>2, <3>3
      <4>2. b < k
        BY <3>1, <4>1, SMTT(30)
      <4> QED
        BY <3>1, <4>2, FitsBounds
    <3> QED
      BY <3>1, <3>2, <3>4, <3>5, <3>6
  <2>4. x \in Nat /\ lo <= x /\ x <= lo + room
    BY <2>2, SMTT(30)
  <2>5. \A k \in eaten : TailIdx(m, k) <= x
    BY <1>3, <1>4, <2>2
  <2>6. \A i \in lo..x - 1 : \E j \in chain : j <= i /\ i < TailIdx(m, j)
    <3>1. PICK b \in busy : TRUE
      BY <1>13
    <3>2. b \in chain /\ x <= TailIdx(m, b)
      BY <2>3, <2>4, FitsBounds, SMTT(30)
    <3> QED
      BY <1>10, <2>4, <3>2
  <2> QED
    BY <1>13, <2>1, <2>2, <2>3, <2>4, <2>5, <2>6 DEF Reaches, chain, eaten, busy, x
<1> QED
  BY <1>11, <1>12, <1>13

\* What is left of the string at key k when the loop stops at x inside it.
Remainder(m, x, k, junk) ==
  Overwrite(SubSeq(m[k], x - k + 1, Len(m[k])), 0, [i \in 1..junk |-> Garbage])

\* The map after the loop stopped at x.
Left(m, lo, room, x, junk) ==
  [k \in (DOMAIN m \ (Eaten(m, lo, room) \cup Busy(m, lo, room))) \cup {x : b \in Busy(m, lo, room)} |->
     IF k = x THEN Remainder(m, x, CHOOSE b \in Busy(m, lo, room) : TRUE, junk) ELSE m[k]]

\* After the loop the map fits behind x and holds what it held there.  Either the build may
\* leave garbage in a remainder, or no string reaches past the room of the output.
LEMMA LeftFits ==
  ASSUME NEW m, NEW lo \in Nat, NEW hi \in Nat, NEW G, Fits(m, lo, hi, G), NEW room \in Nat,
         NEW x, Reaches(m, lo, room, x), NEW junk \in Nat,
         hi <= lo + room \/ \A i \in Nat : Garbage \in G[i]
  PROVE  /\ Fits(Left(m, lo, room, x, junk), x, hi, G)
         /\ \A i \in Nat : i >= x => (Holds(Left(m, lo, room, x, junk), i) <=> Holds(m, i))
         /\ hi <= lo + room => ~Holds(Left(m, lo, room, x, junk), x)
<1> DEFINE eaten == Eaten(m, lo, room)
           busy == Busy(m, lo, room)
           n == Left(m, lo, room, x, junk)
           rest == [k \in DOMAIN m \ (eaten \cup busy) |-> m[k]]
           dom == (DOMAIN m \ (eaten \cup busy)) \cup {x : b \in busy}
<1>1. /\ x \in Nat /\ lo <= x /\ x <= lo + room
      /\ \A k \in eaten : TailIdx(m, k) <= x
      /\ busy = {} => \A k \in DOMAIN m \ eaten : k > x
      /\ \A b \in busy :
           /\ b \in DOMAIN m /\ b <= x /\ x < TailIdx(m, b) /\ x = lo + room
           /\ \A k \in DOMAIN m \ (eaten \cup busy) : k >= TailIdx(m, b)
           /\ \A k \in busy : k = b
  BY DEF Reaches
<1>2. n = [k \in dom |-> IF k = x THEN Remainder(m, x, CHOOSE b \in busy : TRUE, junk) ELSE m[k]]
  BY DEF Left
<1> HIDE DEF eaten, busy
<1>3. Fits(rest, lo, hi, G) /\ Trimmed(m, rest)
  <2>1. rest = [k \in DOMAIN rest |-> rest[k]] /\ DOMAIN rest \subseteq DOMAIN m
    OBVIOUS
  <2>2. \A k \in DOMAIN rest : rest[k] = m[k]
    OBVIOUS
  <2> HIDE DEF rest
  <2>3. \A k \in DOMAIN rest : Placed(rest[k], k, G) /\ Len(rest[k]) = Len(m[k])
    BY <2>1, <2>2, FitsBounds
  <2>4. Refilled(m, rest, G)
    BY <2>1, <2>3 DEF Refilled
  <2> QED
    BY <2>4, TrimmedFits
<1>4. DOMAIN rest = DOMAIN m \ (eaten \cup busy)
  OBVIOUS
<1> HIDE DEF n
<1>5. \A k \in DOMAIN rest : k >= x /\ (busy = {} => k > x) /\ k \in DOMAIN m /\ k \in Nat
  <2> TAKE k \in DOMAIN rest
  <2>1. k \in DOMAIN m /\ k \notin eaten /\ k \notin busy /\ k \in Nat
    BY <1>4, FitsBounds
  <2>2. CASE busy = {}
    BY <1>1, <2>1, <2>2, SMTT(30)
  <2>3. CASE busy # {}
    <3>1. PICK b \in busy : TRUE
      BY <2>3
    <3>2. k >= TailIdx(m, b) /\ x < TailIdx(m, b) /\ TailIdx(m, b) \in Nat
      BY <1>1, <2>1, <3>1, FitsBounds
    <3> QED
      BY <1>1, <2>1, <2>3, <3>2, SMTT(30)
  <2> QED
    BY <2>2, <2>3
<1>6. Fits(rest, x, hi, G)
  <2> HIDE DEF rest
  <2> QED
    BY <1>3, <1>5 DEF Fits
<1>7. \A k \in DOMAIN rest : TailIdx(rest, k) = TailIdx(m, k)
  BY <1>3 DEF Trimmed
<1>8. ASSUME NEW i \in Nat, i >= x
      PROVE  Holds(m, i) <=> Holds(rest, i) \/ \E b \in busy : i < TailIdx(m, b)
  <2>1. ASSUME Holds(m, i) PROVE Holds(rest, i) \/ \E b \in busy : i < TailIdx(m, b)
    <3>1. PICK k \in DOMAIN m : k <= i /\ i < TailIdx(m, k)
      BY <2>1 DEF Holds
    <3>2. k \notin eaten
      BY <1>1, <1>8, <3>1, FitsBounds, SMTT(30)
    <3>3. CASE k \in busy
      BY <3>1, <3>3
    <3>4. CASE k \notin busy
      <4>1. k \in DOMAIN rest
        BY <1>4, <3>2, <3>4
      <4> QED
        BY <1>7, <3>1, <4>1 DEF Holds
    <3> QED
      BY <3>3, <3>4
  <2>2. Holds(rest, i) => Holds(m, i)
    BY <1>3, TrimmedHolds
  <2>3. ASSUME NEW b \in busy, i < TailIdx(m, b) PROVE Holds(m, i)
    <3>1. b \in DOMAIN m /\ b <= i
      BY <1>1, <1>8, <2>3, FitsBounds, SMTT(30)
    <3> QED
      BY <2>3, <3>1 DEF Holds
  <2> QED
    BY <2>1, <2>2, <2>3
<1>9. CASE busy = {}
  <2>1. n = rest
    <3>1. dom = DOMAIN rest /\ x \notin dom
      BY <1>1, <1>4, <1>5, <1>9, SMTT(30)
    <3> QED
      BY <1>2, <1>4, <3>1
  <2> HIDE DEF rest
  <2>2. ~Holds(rest, x)
    BY <1>1, <1>5, <1>9, SMTT(30) DEF Holds
  <2> QED
    BY <1>6, <1>8, <1>9, <2>1, <2>2 DEF n
<1>10. CASE busy # {}
  <2> DEFINE b == CHOOSE k \in busy : TRUE
             old == m[b]
             from == x - b
             head == SubSeq(old, from + 1, Len(old))
             junkBytes == [i \in 1..junk |-> Garbage]
             s == Overwrite(head, 0, junkBytes)
             len == TailIdx(m, b) - x
  <2>1. b \in busy
    BY <1>10
  <2>2. Remainder(m, x, b, junk) = s
    BY DEF Remainder
  <2>3. n = [k \in dom |-> IF k = x THEN s ELSE m[k]]
    <3> HIDE DEF s
    <3> QED
      BY <1>2, <2>2
  <2> HIDE DEF b
  <2>4. /\ b \in DOMAIN m /\ b \in Nat /\ b <= x /\ x < TailIdx(m, b) /\ TailIdx(m, b) \in Nat
        /\ TailIdx(m, b) = b + Len(old) /\ TailIdx(m, b) <= hi /\ Placed(old, b, G) /\ Len(old) \in Nat
        /\ x = lo + room
    BY <1>1, <2>1, FitsBounds
  <2>5. \A i \in Nat : Garbage \in G[i]
    BY <2>4, SMTT(30)
  <2>6. \A k \in DOMAIN rest : k >= x + len
    BY <1>1, <1>4, <2>1, <2>4, SMTT(30)
  <2> HIDE DEF old
  <2>7. Placed(head, x, G) /\ Len(head) = len
    <3>1. from \in 0..Len(old) /\ b + from = x /\ Len(old) - from = len
      BY <1>1, <2>4, SMTT(30)
    <3> HIDE DEF from, len
    <3> QED
      BY <2>4, <3>1, PlacedSuffix, SMTT(30)
  <2>8. Placed(junkBytes, x + 0, G)
    <3>1. IsString(junkBytes, junk)
      BY DEF IsString
    <3>2. MayStand(junkBytes, junk, x + 0, G)
      <4>1. \A i \in 1..junk : junkBytes[i] = Garbage /\ (x + 0) + i - 1 \in Nat
        BY <1>1, SMTT(30)
      <4> QED
        BY <2>5, <4>1 DEF MayStand
    <3>3. x + 0 \in Nat
      BY <1>1, SMTT(30)
    <3> HIDE DEF junkBytes
    <3> QED
      BY <3>1, <3>2, <3>3, PlacedBytes
  <2> HIDE DEF head, junkBytes
  <2>9. Placed(s, x, G) /\ Len(s) = len
    <3>2. x \in Nat /\ Placed(head, x, G)
      BY <1>1, <2>7
    <3>1. Placed(Overwrite(head, 0, junkBytes), x, G) /\ Len(Overwrite(head, 0, junkBytes)) = Len(head)
      BY <2>8, <3>2, PlacedOverwrite, SMTT(30)
    <3> HIDE DEF len
    <3> QED
      BY <2>7, <3>1
  <2> HIDE DEF s
  <2>10. len \in Nat \ {0} /\ x + len <= hi
    <3> DEFINE tail == TailIdx(m, b)
    <3>1. tail \in Nat /\ x < tail /\ tail <= hi /\ x \in Nat
      BY <1>1, <2>4
    <3> HIDE DEF tail
    <3>2. tail - x \in Nat \ {0} /\ x + (tail - x) <= hi
      BY <3>1, SMTT(30)
    <3> QED
      BY <3>2 DEF tail
  <2>11. n = Inserted(rest, x, s)
    <3>1. dom = DOMAIN rest \cup {x}
      BY <1>4, <1>10
    <3>2. \A k \in DOMAIN rest : rest[k] = m[k]
      OBVIOUS
    <3> HIDE DEF rest, dom
    <3> QED
      BY <2>3, <3>1, <3>2 DEF Inserted
  <2> HIDE DEF rest, len
  <2>12. Free(rest, x, len)
    BY <2>6 DEF Free
  <2>13. /\ Fits(n, x, hi, G)
         /\ \A i \in Nat : Holds(n, i) <=> Holds(rest, i) \/ i \in x..x + len - 1
    BY <1>1, <1>6, <2>9, <2>10, <2>11, <2>12, InsertFits, SMTT(30)
  <2>14. ASSUME NEW i \in Nat, i >= x
         PROVE  Holds(n, i) <=> Holds(m, i)
    <3>1. (\E k \in busy : i < TailIdx(m, k)) <=> i < TailIdx(m, b)
      BY <1>1, <2>1
    <3>2. i < TailIdx(m, b) <=> i \in x..x + len - 1
      BY <1>1, <2>4, <2>14, SMTT(30) DEF len
    <3> QED
      BY <1>8, <2>13, <2>14, <3>1, <3>2
  <2>15. ~(hi <= lo + room)
    BY <2>4, SMTT(30)
  <2> QED
    BY <2>13, <2>14, <2>15 DEF n
<1> QED
  BY <1>9, <1>10

\* The bytes the loop hands to the output on its way to x.
LoopByte(m, lo, j) ==
  LET k == CHOOSE k \in Chain(m, lo) : k <= j /\ j < TailIdx(m, k)
  IN  m[k][j - k + 1]
LoopBytes(m, lo, x) == [i \in 1..x - lo |-> LoopByte(m, lo, lo + i - 1)]

\* They are the bytes that belong there.
LEMMA LoopBytesPlaced ==
  ASSUME NEW m, NEW lo \in Nat, NEW hi \in Nat, NEW G, Fits(m, lo, hi, G), NEW room \in Nat,
         NEW x, Reaches(m, lo, room, x)
  PROVE  Placed(LoopBytes(m, lo, x), lo, G) /\ Len(LoopBytes(m, lo, x)) = x - lo
<1> DEFINE n == x - lo
           s == LoopBytes(m, lo, x)
<1>1. /\ x \in Nat /\ lo <= x
      /\ \A i \in lo..x - 1 : \E k \in Chain(m, lo) : k <= i /\ i < TailIdx(m, k)
  BY DEF Reaches
<1>2. n \in Nat
  BY <1>1, SMTT(30)
<1>3. IsString(s, n) /\ \A i \in 1..n : s[i] = LoopByte(m, lo, lo + i - 1)
  BY DEF IsString, LoopBytes
<1>4. ASSUME NEW j \in lo..x - 1
      PROVE  LoopByte(m, lo, j) \in G[j]
  <2> DEFINE k == CHOOSE k \in Chain(m, lo) : k <= j /\ j < TailIdx(m, k)
  <2>1. k \in Chain(m, lo) /\ k <= j /\ j < TailIdx(m, k)
    BY <1>1
  <2>2. LoopByte(m, lo, j) = m[k][j - k + 1]
    BY DEF LoopByte
  <2> HIDE DEF k
  <2>3. k \in DOMAIN m
    BY <2>1 DEF Chain
  <2>4. k \in Nat /\ TailIdx(m, k) = k + Len(m[k]) /\ Len(m[k]) \in Nat /\ Placed(m[k], k, G)
    BY <2>3, FitsBounds
  <2>5. j - k + 1 \in 1..Len(m[k]) /\ k + (j - k + 1) - 1 = j
    BY <1>1, <2>1, <2>4, SMTT(30)
  <2> DEFINE i == j - k + 1
  <2> HIDE DEF i
  <2>6. m[k][i] \in G[k + i - 1]
    BY <2>4, <2>5 DEF Placed, i
  <2> QED
    BY <2>2, <2>5, <2>6 DEF i
<1>5. MayStand(s, n, lo, G)
  <2>1. \A i \in 1..n : lo + i - 1 \in lo..x - 1
    BY <1>1, SMTT(30)
  <2> HIDE DEF n, s
  <2> QED
    BY <1>3, <1>4, <2>1 DEF MayStand
<1> HIDE DEF n, s
<1>6. Placed(s, lo, G) /\ Len(s) = n
  BY <1>2, <1>3, <1>5, PlacedBytes
<1> QED
  BY <1>6 DEF s, n

\* The output is open, or the map is empty; the end of the stream is behind what is stored.
Unfinished(p, hi) ==
  /\ p.output.isInputEnd => DOMAIN p.strs = {}
  /\ p.eofIdx \in Nat /\ (p.eofSignRecv => hi <= p.eofIdx)

\* The object after the loop came to x.
Looped(p, room, x, junk) ==
  [p EXCEPT !.exIdx = x,
            !.strs = Left(p.strs, p.exIdx, room, x, junk),
            !.unassembledSize = @ - (x - p.exIdx),
            !.output = IF Chain(p.strs, p.exIdx) # {} /\ p.eofSignRecv /\ p.eofIdx <= x
                       THEN EndInput(Write(p.output, LoopBytes(p.strs, p.exIdx, x)))
                       ELSE Write(p.output, LoopBytes(p.strs, p.exIdx, x))]

\* Step 3 of push_substring() in the terms of these lemmas: the loop never ends the output
\* before a string that is still to come.
LEMMA TryPushIs ==
  ASSUME NEW p, NEW hi \in Nat, NEW G, p.exIdx \in Nat, Fits(p.strs, p.exIdx, hi, G), Unfinished(p, hi),
         NEW room \in Nat, room = RemainingCapacity(p.output), NEW junk \in Nat,
         NEW x, x = Front(p.strs, p.exIdx, room)
  PROVE  TryPush(p, junk) = Looped(p, room, x, junk)
<1> DEFINE r == p
           m == p.strs
           lo == p.exIdx
           Covered == UNION {k..TailIdx(r.strs, k) - 1 : k \in DOMAIN r.strs}
           chain == {k \in DOMAIN r.strs : r.exIdx <= k /\ r.exIdx..k \subseteq Covered}
           EndedBefore(k) == \/ r.output.isInputEnd
                             \/ \E i \in chain : i < k /\ r.eofSignRecv /\ r.eofIdx <= TailIdx(r.strs, i)
           eaten == {k \in chain : ~EndedBefore(k) /\ TailIdx(r.strs, k) <= r.exIdx + RemainingCapacity(r.output)}
           busy == {k \in chain \ eaten : \A j \in chain \ eaten : k <= j}
           exIdx == CASE chain = {} -> r.exIdx
                      [] chain # {} /\ busy = {} -> Max({TailIdx(r.strs, k) : k \in eaten})
                      [] busy # {} -> LET b == CHOOSE k \in busy : TRUE
                                      IN  IF EndedBefore(b) THEN b ELSE r.exIdx + RemainingCapacity(r.output)
           ByteAt(i) == LET k == CHOOSE k \in chain : k <= i /\ i < TailIdx(r.strs, k)
                        IN  r.strs[k][i - k + 1]
           bytes == [i \in 1..exIdx - r.exIdx |-> ByteAt(r.exIdx + i - 1)]
           strs == [k \in (DOMAIN r.strs \ (eaten \cup busy)) \cup {exIdx : b \in busy} |->
                      IF k = exIdx THEN Remainder(r.strs, exIdx, CHOOSE b \in busy : TRUE, junk) ELSE r.strs[k]]
<1>1. TryPush(p, junk) =
        [p EXCEPT !.exIdx = exIdx,
                  !.strs = strs,
                  !.unassembledSize = @ - (exIdx - r.exIdx),
                  !.output = IF chain # {} /\ r.eofSignRecv /\ r.eofIdx <= exIdx
                             THEN EndInput(Write(r.output, bytes)) ELSE Write(r.output, bytes)]
  BY DEF TryPush, Remainder
<1>2. chain = Chain(m, lo)
  <2>1. \A i \in Nat : i \in Covered <=> Holds(m, i)
    <3> TAKE i \in Nat
    <3>1. \A k \in DOMAIN m : i \in k..TailIdx(m, k) - 1 <=> k <= i /\ i < TailIdx(m, k)
      BY FitsBounds, SMTT(30)
    <3> QED
      BY <3>1 DEF Holds
  <2>2. \A k \in DOMAIN m : lo <= k /\ lo..k \subseteq Nat
    BY FitsBounds, SMTT(30)
  <2> HIDE DEF Covered
  <2>3. \A k \in DOMAIN m : lo..k \subseteq Covered <=> \A i \in lo..k : Holds(m, i)
    BY <2>1, <2>2
  <2> QED
    BY <2>2, <2>3 DEF Chain
<1>3. \A k \in chain : k \in DOMAIN m
  OBVIOUS
<1> HIDE DEF chain
<1>4. \A k \in chain : ~EndedBefore(k)
  <2> SUFFICES ASSUME NEW k \in chain, EndedBefore(k) PROVE FALSE
    OBVIOUS
  <2>1. ~p.output.isInputEnd
    BY <1>3 DEF Unfinished
  <2>2. PICK i \in chain : i < k /\ p.eofSignRecv /\ p.eofIdx <= TailIdx(m, i)
    BY <2>1
  <2>3. /\ TailIdx(m, i) <= k /\ k < TailIdx(m, k) /\ TailIdx(m, k) <= hi
        /\ k \in Nat /\ TailIdx(m, i) \in Nat /\ TailIdx(m, k) \in Nat
    BY <1>3, <2>2, FitsBounds
  <2>4. hi <= p.eofIdx /\ p.eofIdx \in Nat
    BY <2>2 DEF Unfinished
  <2> QED
    BY <2>2, <2>3, <2>4, SMTT(30)
<1> HIDE DEF EndedBefore
<1>5. eaten = Eaten(m, lo, room)
  BY <1>2, <1>4 DEF Eaten
<1> HIDE DEF eaten
<1>6. busy = Busy(m, lo, room)
  BY <1>2, <1>5 DEF Busy
<1>7. \A b \in busy : b \in chain
  OBVIOUS
<1> HIDE DEF busy
<1>8. exIdx = x
  <2>1. busy # {} => ~EndedBefore(CHOOSE k \in busy : TRUE)
    BY <1>4, <1>7
  <2>2. exIdx = CASE chain = {} -> lo
                  [] chain # {} /\ busy = {} -> Max({TailIdx(m, k) : k \in eaten})
                  [] busy # {} -> lo + room
    BY <2>1
  <2> QED
    BY <1>2, <1>5, <1>6, <2>2 DEF Front
<1> HIDE DEF exIdx
<1>9. strs = Left(m, lo, room, x, junk)
  <2> DEFINE StrsOf(e, b, y) ==
        [k \in (DOMAIN m \ (e \cup b)) \cup {y : i \in b} |->
           IF k = y THEN Remainder(m, y, CHOOSE i \in b : TRUE, junk) ELSE m[k]]
  <2>1. strs = StrsOf(eaten, busy, exIdx)
    OBVIOUS
  <2>2. Left(m, lo, room, x, junk) = StrsOf(Eaten(m, lo, room), Busy(m, lo, room), x)
    BY DEF Left
  <2> HIDE DEF StrsOf, strs
  <2> QED
    BY <1>5, <1>6, <1>8, <2>1, <2>2
<1>10. bytes = LoopBytes(m, lo, x)
  <2> DEFINE BytesOf(c, y) ==
        [i \in 1..y - lo |-> LET k == CHOOSE k \in c : k <= lo + i - 1 /\ lo + i - 1 < TailIdx(m, k)
                             IN  m[k][(lo + i - 1) - k + 1]]
  <2>1. bytes = BytesOf(chain, exIdx)
    OBVIOUS
  <2>2. LoopBytes(m, lo, x) = BytesOf(Chain(m, lo), x)
    BY DEF LoopBytes, LoopByte
  <2> HIDE DEF BytesOf, bytes
  <2> QED
    BY <1>2, <1>8, <2>1, <2>2
<1> HIDE DEF strs, bytes
<1> QED
  BY <1>1, <1>2, <1>8, <1>9, <1>10 DEF Looped

(* The object between two calls *)

\* The members of a StreamReassembler and their types, but for the one the proofs do not need.
IsReassembler(x, G) ==
  /\ x = [exIdx |-> x.exIdx, strs |-> x.strs, unassembledSize |-> x.unassembledSize,
          eofSignRecv |-> x.eofSignRecv, eofIdx |-> x.eofIdx, output |-> x.output,
          capacity |-> x.capacity]
  /\ x.exIdx \in Nat /\ x.eofIdx \in Nat /\ x.eofSignRecv \in BOOLEAN
  /\ x.output \in Streams(AnyByte(G)) /\ x.capacity = x.output.capacity

\* What holds of the reassembler between two calls, for a stream of total bytes.
Good(x, hi, G, total) ==
  /\ IsReassembler(x, G)
  /\ Fits(x.strs, x.exIdx, hi, G)
  /\ x.exIdx = x.output.numWritten /\ x.exIdx <= total
  /\ x.output.numWritten = x.output.numRead + x.output.size
  /\ x.eofSignRecv => x.eofIdx = total
  /\ x.output.isInputEnd <=> x.eofSignRecv /\ x.exIdx = total

\* From x to y the output got the bytes that belong next, and nothing else changed in it.
Grows(x, y, G) ==
  /\ x.exIdx <= y.exIdx /\ y.capacity = x.capacity /\ y.output.numRead = x.output.numRead
  /\ x.eofSignRecv => y.eofSignRecv
  /\ \E bytes : /\ Placed(bytes, x.exIdx, G) /\ Len(bytes) = y.exIdx - x.exIdx
                /\ y.output.buf = x.output.buf \o bytes

\* A stream that takes n bytes, and the stream t that took them.
Takes(s, n) == n <= RemainingCapacity(s) /\ (s.isInputEnd => n = 0)
Took(s, data, n, t) ==
  /\ t.buf = s.buf \o data
  /\ t.size = s.size + n /\ t.numWritten = s.numWritten + n
  /\ t.numRead = s.numRead /\ t.isInputEnd = s.isInputEnd /\ t.capacity = s.capacity

\* write() of no more than there is room for takes all of it.
LEMMA WriteAll ==
  ASSUME NEW B, NEW s \in Streams(B), NEW data \in Seq(B), NEW n \in Nat, Len(data) = n, Takes(s, n)
  PROVE  Write(s, data) \in Streams(B) /\ Took(s, data, n, Write(s, data))
<1> DEFINE t == Write(s, data)
<1>1. ToWrite(s, data) = n
  BY SMTT(30) DEF ToWrite, RemainingCapacity, Least, Streams, Takes
<1>2. SubSeq(data, 1, n) = data
  BY PrefixType, SMTT(30)
<1>3. /\ t \in Streams(B)
      /\ t = [s EXCEPT !.buf = s.buf \o SubSeq(data, 1, ToWrite(s, data)), !.size = s.size + ToWrite(s, data),
                       !.numWritten = s.numWritten + ToWrite(s, data)]
  BY WriteAppends
<1>4. t = [s EXCEPT !.buf = s.buf \o data, !.size = s.size + n, !.numWritten = s.numWritten + n]
  BY <1>1, <1>2, <1>3
<1> HIDE DEF t
<1>5. Took(s, data, n, t)
  BY <1>3, <1>4 DEF Streams, Took
<1> QED
  BY <1>3, <1>5 DEF t

\* A map without strings where there is no place for one.
LEMMA NoPlace ==
  ASSUME NEW m, NEW lo \in Nat, NEW hi \in Nat, NEW G, Fits(m, lo, hi, G), hi <= lo
  PROVE  DOMAIN m = {}
<1> SUFFICES ASSUME NEW k \in DOMAIN m PROVE FALSE
  OBVIOUS
<1> QED
  BY FitsBounds, SMTT(30)

\* Step 3 of push_substring().
LEMMA LoopKeeps ==
  ASSUME NEW p, NEW total \in Nat, NEW hi \in Nat, hi <= total, NEW G, Good(p, hi, G, total), NEW junk \in Nat,
         hi <= p.exIdx + RemainingCapacity(p.output) \/ \A i \in Nat : Garbage \in G[i],
         NEW y, y = TryPush(p, junk)
  PROVE  /\ Good(y, hi, G, total) /\ Grows(p, y, G) /\ y.eofSignRecv = p.eofSignRecv
         /\ \A i \in Nat : i >= y.exIdx => (Holds(y.strs, i) <=> Holds(p.strs, i))
         /\ \A i \in p.exIdx..y.exIdx - 1 : Holds(p.strs, i)
         /\ hi <= p.exIdx + RemainingCapacity(p.output) => ~Holds(y.strs, y.exIdx)
<1> DEFINE m == p.strs
           lo == p.exIdx
           room == RemainingCapacity(p.output)
           x == Front(m, lo, room)
           bytes == LoopBytes(m, lo, x)
           strs == Left(m, lo, room, x, junk)
           w == Write(p.output, bytes)
           end == Chain(m, lo) # {} /\ p.eofSignRecv /\ p.eofIdx <= x
           out == IF end THEN EndInput(w) ELSE w
<1>1. /\ IsReassembler(p, G) /\ Fits(m, lo, hi, G) /\ lo \in Nat /\ lo <= total
      /\ p.output \in Streams(AnyByte(G)) /\ p.eofIdx \in Nat
      /\ lo = p.output.numWritten /\ p.output.numWritten = p.output.numRead + p.output.size
      /\ p.eofSignRecv => p.eofIdx = total
      /\ p.output.isInputEnd <=> p.eofSignRecv /\ lo = total
  BY DEF Good, IsReassembler
<1>2. room \in Nat
  BY <1>1, SMTT(30) DEF RemainingCapacity, Streams
<1>3. total \in Nat
  OBVIOUS
<1>4. Unfinished(p, hi)
  <2>1. p.output.isInputEnd => DOMAIN m = {}
    BY <1>1, <1>3, NoPlace
  <2> QED
    BY <1>1, <2>1 DEF Unfinished
<1>5. y = [p EXCEPT !.exIdx = x, !.strs = strs, !.unassembledSize = @ - (x - lo), !.output = out]
  <2>1. TryPush(p, junk) = Looped(p, room, x, junk)
    <3> HIDE DEF room, x
    <3> QED
      BY <1>1, <1>2, <1>4, TryPushIs, SMTT(30) DEF room, x
  <2> QED
    BY <2>1 DEF Looped
<1> HIDE DEF strs, out
<1>6. /\ y.exIdx = x /\ y.strs = strs /\ y.output = out /\ y.eofSignRecv = p.eofSignRecv
      /\ y.eofIdx = p.eofIdx /\ y.capacity = p.capacity
      /\ y = [exIdx |-> y.exIdx, strs |-> y.strs, unassembledSize |-> y.unassembledSize,
              eofSignRecv |-> y.eofSignRecv, eofIdx |-> y.eofIdx, output |-> y.output,
              capacity |-> y.capacity]
  <2>1. p = [exIdx |-> p.exIdx, strs |-> p.strs, unassembledSize |-> p.unassembledSize,
             eofSignRecv |-> p.eofSignRecv, eofIdx |-> p.eofIdx, output |-> p.output,
             capacity |-> p.capacity]
    BY <1>1 DEF IsReassembler
  <2> DEFINE size == p.unassembledSize - (x - lo)
  <2>2. y = [p EXCEPT !.exIdx = x, !.strs = strs, !.unassembledSize = size, !.output = out]
    BY <1>5
  <2> HIDE DEF x, size
  <2>3. y = [exIdx |-> x, strs |-> strs, unassembledSize |-> size, eofSignRecv |-> p.eofSignRecv,
             eofIdx |-> p.eofIdx, output |-> out, capacity |-> p.capacity]
    BY <2>1, <2>2
  <2> QED
    BY <2>3, SMTT(30)
<1>7. Reaches(m, lo, room, x)
  BY <1>1, <1>2, FrontReaches
<1> HIDE DEF x
<1>8. /\ Fits(strs, x, hi, G)
      /\ \A i \in Nat : i >= x => (Holds(strs, i) <=> Holds(m, i))
      /\ hi <= lo + room => ~Holds(strs, x)
  BY <1>1, <1>2, <1>7, LeftFits DEF strs
<1>9. Placed(bytes, lo, G) /\ Len(bytes) = x - lo
  BY <1>1, <1>2, <1>7, LoopBytesPlaced, SMTT(30)
<1>10. /\ x \in Nat /\ lo <= x /\ x <= lo + room
       /\ Chain(m, lo) = {} => x = lo
       /\ \A i \in lo..x - 1 : \E k \in Chain(m, lo) : k <= i /\ i < TailIdx(m, k)
  BY <1>7 DEF Reaches
<1>11. \A k \in Chain(m, lo) : k \in DOMAIN m
  BY DEF Chain
<1>12. \A i \in lo..x - 1 : Holds(m, i)
  BY <1>10, <1>11 DEF Holds
<1>13. x <= total
  <2>1. CASE x = lo
    BY <1>1, <2>1
  <2>2. CASE x > lo
    <3>1. x - 1 \in lo..x - 1
      BY <1>1, <1>10, <2>2, SMTT(30)
    <3>2. PICK k \in DOMAIN m : k <= x - 1 /\ x - 1 < TailIdx(m, k)
      BY <1>12, <3>1, SMTT(30) DEF Holds
    <3>3. TailIdx(m, k) <= hi /\ TailIdx(m, k) \in Nat
      BY <1>1, FitsBounds, SMTT(30)
    <3> QED
      BY <1>3, <1>10, <3>2, <3>3, SMTT(30)
  <2> QED
    BY <1>1, <1>10, <2>1, <2>2, SMTT(30)
<1>14. p.output.isInputEnd => Chain(m, lo) = {}
  BY <1>4, <1>11 DEF Unfinished
<1>15. /\ w \in Streams(AnyByte(G)) /\ w.buf = p.output.buf \o bytes
       /\ w.size = p.output.size + (x - lo) /\ w.numWritten = p.output.numWritten + (x - lo)
       /\ w.numRead = p.output.numRead /\ w.isInputEnd = p.output.isInputEnd
       /\ w.capacity = p.output.capacity
  <2> DEFINE n == x - lo
  <2>1. n \in Nat /\ n <= room /\ (p.output.isInputEnd => n = 0)
    BY <1>1, <1>2, <1>10, <1>14, SMTT(30)
  <2>2. bytes \in Seq(AnyByte(G)) /\ Len(bytes) = n
    BY <1>9 DEF Placed
  <2> HIDE DEF n, bytes
  <2>3. p.output \in Streams(AnyByte(G)) /\ Takes(p.output, n)
    BY <1>1, <2>1, SMTT(30) DEF Takes
  <2>4. w \in Streams(AnyByte(G)) /\ Took(p.output, bytes, n, w)
    BY <2>1, <2>2, <2>3, WriteAll, SMTT(30)
  <2> HIDE DEF w
  <2> QED
    BY <2>4, SMTT(30) DEF n, Took
<1> HIDE DEF bytes, w
<1>16. /\ out \in Streams(AnyByte(G)) /\ out.buf = w.buf /\ out.size = w.size
       /\ out.numWritten = w.numWritten /\ out.numRead = w.numRead /\ out.capacity = w.capacity
       /\ out.isInputEnd <=> end \/ w.isInputEnd
  <2> HIDE DEF end
  <2>1. CASE end
    <3>1. out = [w EXCEPT !.isInputEnd = TRUE]
      BY <2>1 DEF out, EndInput
    <3> QED
      BY <1>15, <2>1, <3>1 DEF Streams
  <2>2. CASE ~end
    <3>1. out = w
      BY <2>2 DEF out
    <3> QED
      BY <1>15, <2>2, <3>1
  <2> QED
    BY <2>1, <2>2
<1>17. out.isInputEnd <=> p.eofSignRecv /\ x = total
  <2>1. CASE Chain(m, lo) = {}
    BY <1>1, <1>10, <1>15, <1>16, <2>1, SMTT(30)
  <2>2. CASE Chain(m, lo) # {}
    <3>1. ~w.isInputEnd
      BY <1>14, <1>15, <2>2, SMTT(30)
    <3>2. p.eofSignRecv => (p.eofIdx <= x <=> x = total)
      BY <1>1, <1>3, <1>10, <1>13, SMTT(30)
    <3> QED
      BY <1>16, <2>2, <3>1, <3>2, SMTT(30)
  <2> QED
    BY <2>1, <2>2, SMTT(30)
<1>18. IsReassembler(y, G)
  BY <1>1, <1>6, <1>10, <1>15, <1>16, SMTT(30) DEF IsReassembler
<1>19. /\ x = out.numWritten /\ out.numWritten = out.numRead + out.size
  <2> DEFINE size == p.output.size
             read == p.output.numRead
             written == p.output.numWritten
  <2>1. size \in Nat /\ read \in Nat /\ written = read + size /\ lo = written
    BY <1>1, SMTT(30) DEF Streams
  <2>2. out.numWritten = written + (x - lo) /\ out.numRead = read /\ out.size = size + (x - lo)
    BY <1>15, <1>16
  <2> HIDE DEF size, read, written, out, lo
  <2> QED
    BY <1>10, <2>1, <2>2, SMTT(30)
<1>20. Good(y, hi, G, total)
  <2> HIDE DEF out
  <2> QED
    BY <1>1, <1>6, <1>8, <1>13, <1>17, <1>18, <1>19, SMTT(30) DEF Good
<1>21. Grows(p, y, G)
  <2> HIDE DEF out
  <2> QED
    BY <1>6, <1>9, <1>10, <1>15, <1>16, SMTT(30) DEF Grows
<1> QED
  BY <1>6, <1>8, <1>12, <1>20, <1>21

(* push_substring() *)

\* n is x but for its map, its count and its notes of the end.
Same(x, n) ==
  /\ n.exIdx = x.exIdx /\ n.capacity = x.capacity /\ (x.eofSignRecv => n.eofSignRecv)
  /\ n.output.buf = x.output.buf /\ n.output.numRead = x.output.numRead
  /\ RemainingCapacity(n.output) = RemainingCapacity(x.output)

\* Step 0: an end noted at the end of the stream.
LEMMA NoteEofKeeps ==
  ASSUME NEW x, NEW total \in Nat, NEW hi \in Nat, NEW G, Good(x, hi, G, total),
         NEW index, NEW len, Plus(index, len) = total
  PROVE  /\ Good(NoteEof(x, index, len), hi, G, total) /\ Same(x, NoteEof(x, index, len))
         /\ NoteEof(x, index, len).strs = x.strs
<1> DEFINE n == NoteEof(x, index, len)
           o == IF total = x.exIdx THEN EndInput(x.output) ELSE x.output
<1>1. Plus(index, len) = total
  OBVIOUS
<1>2. n = [x EXCEPT !.eofSignRecv = TRUE, !.eofIdx = total, !.output = o]
  BY <1>1 DEF NoteEof
<1>3. /\ IsReassembler(x, G) /\ Fits(x.strs, x.exIdx, hi, G)
      /\ x.exIdx = x.output.numWritten /\ x.exIdx <= total
      /\ x.output.numWritten = x.output.numRead + x.output.size
      /\ x.output.isInputEnd <=> x.eofSignRecv /\ x.exIdx = total
  BY DEF Good
<1>4. /\ x = [exIdx |-> x.exIdx, strs |-> x.strs, unassembledSize |-> x.unassembledSize,
              eofSignRecv |-> x.eofSignRecv, eofIdx |-> x.eofIdx, output |-> x.output,
              capacity |-> x.capacity]
      /\ x.exIdx \in Nat /\ x.output \in Streams(AnyByte(G)) /\ x.capacity = x.output.capacity
  BY <1>3, SMTT(30) DEF IsReassembler
<1>5. /\ o \in Streams(AnyByte(G)) /\ o.buf = x.output.buf /\ o.size = x.output.size
      /\ o.numRead = x.output.numRead /\ o.numWritten = x.output.numWritten
      /\ o.capacity = x.output.capacity
      /\ o.isInputEnd <=> x.exIdx = total
  <2>1. CASE total = x.exIdx
    <3>1. o = [x.output EXCEPT !.isInputEnd = TRUE]
      BY <2>1 DEF EndInput
    <3> QED
      BY <1>4, <2>1, <3>1 DEF Streams
  <2>2. CASE total # x.exIdx
    BY <1>3, <1>4, <2>2
  <2> QED
    BY <2>1, <2>2
<1> HIDE DEF o, n
<1>6. n = [exIdx |-> x.exIdx, strs |-> x.strs, unassembledSize |-> x.unassembledSize,
           eofSignRecv |-> TRUE, eofIdx |-> total, output |-> o, capacity |-> x.capacity]
  BY <1>2, <1>4
<1>7. /\ n.exIdx = x.exIdx /\ n.strs = x.strs /\ n.unassembledSize = x.unassembledSize
      /\ n.eofSignRecv = TRUE /\ n.eofIdx = total /\ n.output = o /\ n.capacity = x.capacity
  BY <1>6
<1>8. IsReassembler(n, G)
  BY <1>4, <1>5, <1>6, <1>7 DEF IsReassembler
<1>9. Good(n, hi, G, total)
  BY <1>3, <1>5, <1>7, <1>8 DEF Good
<1>10. Same(x, n)
  BY <1>5, <1>7 DEF Same, RemainingCapacity
<1> QED
  BY <1>7, <1>9, <1>10 DEF n

\* x with another map m and another count u.
Remapped(x, m, u) == [x EXCEPT !.strs = m, !.unassembledSize = u]

Refitted(x, m, p, hi, G, total) == Good(p, hi, G, total) /\ Same(x, p) /\ p.strs = m /\ p.output = x.output

\* Another map that fits.
LEMMA OtherMap ==
  ASSUME NEW x, NEW total \in Nat, NEW hi \in Nat, NEW G, Good(x, hi, G, total),
         NEW m, Fits(m, x.exIdx, hi, G), NEW u
  PROVE  Refitted(x, m, Remapped(x, m, u), hi, G, total)
<1> DEFINE p == Remapped(x, m, u)
<1>1. IsReassembler(x, G)
  BY DEF Good
<1>2. x = [exIdx |-> x.exIdx, strs |-> x.strs, unassembledSize |-> x.unassembledSize,
           eofSignRecv |-> x.eofSignRecv, eofIdx |-> x.eofIdx, output |-> x.output,
           capacity |-> x.capacity]
  BY <1>1 DEF IsReassembler
<1>3. p = [exIdx |-> x.exIdx, strs |-> m, unassembledSize |-> u,
           eofSignRecv |-> x.eofSignRecv, eofIdx |-> x.eofIdx, output |-> x.output,
           capacity |-> x.capacity]
  <2>1. p = [x EXCEPT !.strs = m, !.unassembledSize = u]
    BY DEF Remapped
  <2> HIDE DEF p
  <2> QED
    BY <1>2, <2>1
<1> HIDE DEF p
<1>4. /\ p.exIdx = x.exIdx /\ p.strs = m /\ p.unassembledSize = u
      /\ p.eofSignRecv = x.eofSignRecv /\ p.eofIdx = x.eofIdx /\ p.output = x.output
      /\ p.capacity = x.capacity
  BY <1>3
<1>5. IsReassembler(p, G)
  BY <1>1, <1>3, <1>4 DEF IsReassembler
<1>6. Good(p, hi, G, total) /\ Same(x, p)
  BY <1>4, <1>5 DEF Good, Same
<1> QED
  BY <1>4, <1>6 DEF p, Refitted

\* An object whose output is the same grew by nothing.
LEMMA SameGrows ==
  ASSUME NEW x, NEW n, NEW G, x.exIdx \in Nat, x.output \in Streams(AnyByte(G)), Same(x, n)
  PROVE  Grows(x, n, G)
<1>1. Placed(<<>>, x.exIdx, G) /\ Len(<<>>) = 0
  BY SMTT(30) DEF Placed
<1>2. x.output.buf \o <<>> = x.output.buf
  BY SMTT(30) DEF Streams
<1>3. Len(<<>>) = n.exIdx - x.exIdx /\ n.output.buf = x.output.buf \o <<>>
  BY <1>1, <1>2, SMTT(30) DEF Same
<1>4. \E bytes : /\ Placed(bytes, x.exIdx, G) /\ Len(bytes) = n.exIdx - x.exIdx
                 /\ n.output.buf = x.output.buf \o bytes
  BY <1>1, <1>3
<1> QED
  BY <1>4, SMTT(30) DEF Same, Grows

\* The map of y holds behind its _exIdx what is wanted of x and the data in idx..tail - 1; what
\* went to the output was wanted; and the next byte is missing if it was.
Settled(x, idx, tail, y) ==
  /\ \A i \in Nat : i >= y.exIdx => (Holds(y.strs, i) <=> Wanted(x.strs, x.exIdx, idx, tail, i))
  /\ \A i \in x.exIdx..y.exIdx - 1 : Wanted(x.strs, x.exIdx, idx, tail, i)
  /\ ~Holds(x.strs, x.exIdx) => ~Holds(y.strs, y.exIdx)

\* Nothing is pushed past the output's room, or the build may leave garbage.
InRoom(x, hi) == hi <= x.exIdx + RemainingCapacity(x.output)
RoomOrGarbage(x, hi, G) == InRoom(x, hi) \/ \A i \in Nat : Garbage \in G[i]

\* Steps 2 and 3, with what cutData() leaves.
LEMMA StoreAndPushKeeps ==
  ASSUME NEW x, NEW total \in Nat, NEW hi \in Nat, hi <= total, NEW G, Good(x, hi, G, total), RoomOrGarbage(x, hi, G),
         NEW idx \in Nat, NEW tail \in Nat, tail <= hi,
         NEW cut, DataCut(x.strs, x.exIdx, hi, idx, tail, cut, G), NEW junk \in Nat
  PROVE  /\ Good(StoreAndPush(x, cut, junk), hi, G, total) /\ Grows(x, StoreAndPush(x, cut, junk), G)
         /\ InRoom(x, hi) => Settled(x, idx, tail, StoreAndPush(x, cut, junk))
<1> DEFINE u == x.unassembledSize - MapThenSumSet(LAMBDA k : Len(x.strs[k]), DOMAIN x.strs \ DOMAIN cut.strs)
           kept == Remapped(x, cut.strs, u)
           p == TryInsert(kept, cut.idx, cut.data)
           y == StoreAndPush(x, cut, junk)
<1>1. y = IF cut.drop THEN kept ELSE TryPush(p, junk)
  BY DEF StoreAndPush, Remapped
<1> HIDE DEF u
<1>2. /\ x.exIdx \in Nat /\ x.output \in Streams(AnyByte(G)) /\ x.capacity = x.output.capacity
      /\ Fits(x.strs, x.exIdx, hi, G)
  BY DEF Good, IsReassembler
<1>3. /\ Fits(cut.strs, x.exIdx, hi, G) /\ \A i \in Nat : Holds(cut.strs, i) => Holds(x.strs, i)
      /\ cut.drop => \A i \in Nat : Wanted(x.strs, x.exIdx, idx, tail, i) => Holds(cut.strs, i)
  BY SMTT(30) DEF DataCut
<1>4. /\ Good(kept, hi, G, total) /\ Same(x, kept) /\ kept.strs = cut.strs /\ kept.output = x.output
  <2>1. Fits(cut.strs, x.exIdx, hi, G)
    BY <1>3
  <2>2. Refitted(x, cut.strs, Remapped(x, cut.strs, u), hi, G, total)
    BY <2>1, OtherMap
  <2> HIDE DEF kept
  <2>3. Refitted(x, cut.strs, kept, hi, G, total)
    BY <2>2 DEF kept
  <2> QED
    BY <2>3 DEF Refitted
<1> HIDE DEF kept, p, y
<1>5. CASE cut.drop
  <2>1. y = kept
    BY <1>1, <1>5, SMTT(30)
  <2>2. Grows(x, y, G)
    BY <1>2, <1>4, <2>1, SameGrows, SMTT(30)
  <2>3. y.exIdx = x.exIdx /\ y.strs = cut.strs
    BY <1>4, <2>1 DEF Same
  <2>4. \A i \in Nat : Holds(cut.strs, i) <=> Wanted(x.strs, x.exIdx, idx, tail, i)
    BY <1>3, <1>5, SMTT(30) DEF Wanted
  <2>5. Settled(x, idx, tail, y)
    BY <1>2, <1>3, <2>3, <2>4, SMTT(30) DEF Settled
  <2> QED
    BY <1>4, <2>1, <2>2, <2>5 DEF y
<1>6. CASE ~cut.drop
  <2> DEFINE at == cut.idx
             s == cut.data
             len == Len(cut.data)
             all == Inserted(cut.strs, at, s)
             first == x.exIdx + x.capacity - x.output.size
  <2>1. /\ at \in Nat /\ at >= x.exIdx /\ at >= idx /\ Placed(s, at, G)
        /\ len \in Nat \ {0} /\ at + len <= tail /\ Free(cut.strs, at, len)
        /\ \A i \in Nat : Wanted(x.strs, x.exIdx, idx, tail, i) =>
                           Holds(cut.strs, i) \/ i \in at..at + len - 1
    BY <1>6, SMTT(30) DEF DataCut
  <2>2. /\ Fits(all, x.exIdx, hi, G)
        /\ \A i \in Nat : Holds(all, i) <=> Holds(cut.strs, i) \/ i \in at..at + len - 1
    <3>1. at + len <= hi
      BY <2>1, SMTT(30)
    <3> HIDE DEF at, s, len, all
    <3>2. Len(s) = len
      BY SMTT(30) DEF s, len
    <3> QED
      BY <1>2, <1>3, <2>1, <3>1, <3>2, InsertFits DEF all
  <2>3. \A i \in Nat : Holds(all, i) <=> Wanted(x.strs, x.exIdx, idx, tail, i)
    <3> HIDE DEF at, s, len, all
    <3>1. \A i \in at..at + len - 1 : i \in Nat /\ i >= x.exIdx /\ i \in idx..tail - 1
      BY <1>2, <2>1, SMTT(30)
    <3> QED
      BY <1>3, <2>1, <2>2, <3>1 DEF Wanted
  <2>4. p = IF at < first
            THEN Remapped(x, all, kept.unassembledSize + len)
            ELSE kept
    <3>1. kept.exIdx = x.exIdx /\ kept.capacity = x.capacity /\ kept.output = x.output
      BY <1>4 DEF Same
    <3>2. p = IF at < first
              THEN [kept EXCEPT !.strs = Inserted(@, at, s), !.unassembledSize = @ + len]
              ELSE kept
      BY <3>1 DEF p, TryInsert, Inserted
    <3>3. [kept EXCEPT !.strs = Inserted(@, at, s), !.unassembledSize = @ + len]
            = [x EXCEPT !.strs = all, !.unassembledSize = kept.unassembledSize + len]
      <4> HIDE DEF len, at, s
      <4>1. [kept EXCEPT !.strs = Inserted(@, at, s), !.unassembledSize = @ + len]
            = [kept EXCEPT !.strs = all, !.unassembledSize = kept.unassembledSize + len]
        BY <1>4
      <4> HIDE DEF all
      <4> DEFINE v == kept.unassembledSize + len
      <4> HIDE DEF v
      <4>2. [kept EXCEPT !.strs = all, !.unassembledSize = v] = [x EXCEPT !.strs = all, !.unassembledSize = v]
        <5>1. IsReassembler(x, G)
          BY DEF Good
        <5>2. x = [exIdx |-> x.exIdx, strs |-> x.strs, unassembledSize |-> x.unassembledSize,
                   eofSignRecv |-> x.eofSignRecv, eofIdx |-> x.eofIdx, output |-> x.output,
                   capacity |-> x.capacity]
          BY <5>1 DEF IsReassembler
        <5> QED
          BY <5>2 DEF kept, Remapped
      <4> QED
        BY <4>1, <4>2 DEF v
    <3> QED
      BY <3>2, <3>3, SMTT(30) DEF Remapped
  <2>5. Good(p, hi, G, total) /\ Same(x, p) /\ p.output = x.output /\ (at < first => p.strs = all)
    <3> HIDE DEF all, at, len, first
    <3>1. CASE at < first
      <4> DEFINE v == kept.unassembledSize + len
      <4> HIDE DEF v
      <4>1. p = Remapped(x, all, v)
        BY <2>4, <3>1 DEF v
      <4>2. Fits(all, x.exIdx, hi, G)
        BY <2>2
      <4>3. Refitted(x, all, Remapped(x, all, v), hi, G, total)
        BY <4>2, OtherMap
      <4> QED
        BY <4>1, <4>3 DEF Refitted
    <3>2. CASE ~(at < first)
      BY <1>4, <2>4, <3>2
    <3> QED
      BY <3>1, <3>2
  <2> HIDE DEF all, at, len, first, s
  <2>6. p.exIdx = x.exIdx
    BY <2>5 DEF Same
  <2>7. hi <= p.exIdx + RemainingCapacity(p.output) \/ \A i \in Nat : Garbage \in G[i]
    BY <2>5, <2>6 DEF RoomOrGarbage, InRoom
  <2>8. y = TryPush(p, junk)
    BY <1>1, <1>6, SMTT(30)
  <2>9. /\ Good(y, hi, G, total) /\ Grows(p, y, G)
        /\ \A i \in Nat : i >= y.exIdx => (Holds(y.strs, i) <=> Holds(p.strs, i))
        /\ \A i \in p.exIdx..y.exIdx - 1 : Holds(p.strs, i)
        /\ hi <= p.exIdx + RemainingCapacity(p.output) => ~Holds(y.strs, y.exIdx)
    <3>1. Good(p, hi, G, total)
      BY <2>5
    <3> HIDE DEF p, y
    <3> QED
      BY <3>1, <2>7, <2>8, LoopKeeps, SMTT(30)
  <2>10. Grows(x, y, G)
    BY <2>5, <2>9 DEF Same, Grows
  <2>11. ASSUME InRoom(x, hi) PROVE Settled(x, idx, tail, y)
    <3>1. at < first
      <4>1. hi <= x.exIdx + (x.output.capacity - x.output.size) /\ x.output.capacity \in Nat /\ x.output.size \in Nat
        BY <1>2, <2>11 DEF InRoom, RemainingCapacity, Streams
      <4>2. at < hi
        BY <2>1, SMTT(30)
      <4> QED
        BY <1>2, <2>1, <4>1, <4>2, SMTT(30) DEF first
    <3>2. p.strs = all
      BY <2>5, <3>1, SMTT(30)
    <3>3. \A i \in x.exIdx..y.exIdx - 1 : i \in Nat
      BY <1>2, SMTT(30)
    <3>4. ~Holds(y.strs, y.exIdx)
      BY <2>5, <2>6, <2>9, <2>11, SMTT(30) DEF InRoom
    <3> QED
      BY <2>3, <2>6, <2>9, <3>2, <3>3, <3>4 DEF Settled
  <2> QED
    BY <2>9, <2>10, <2>11, SMTT(30) DEF y
<1> QED
  BY <1>5, <1>6

\* A push of bytes that may stand where they are.
LEMMA PushKeeps ==
  ASSUME NEW x, NEW total \in Nat, total < SizeMod, NEW hi \in Nat, hi <= total, NEW G,
         Good(x, hi, G, total), RoomOrGarbage(x, hi, G),
         NEW index \in Nat, NEW data, Placed(data, index, G), NEW len \in Nat, Len(data) = len,
         index + len <= hi, NEW eof \in BOOLEAN, eof => index + len = total, NEW junk \in Nat
  PROVE  /\ Good(PushSubstring(x, data, index, eof, junk), hi, G, total)
         /\ Grows(x, PushSubstring(x, data, index, eof, junk), G)
         /\ InRoom(x, hi) => Settled(x, index, index + len, PushSubstring(x, data, index, eof, junk))
<1> DEFINE noted == IF eof THEN NoteEof(x, index, Len(data)) ELSE x
           y == PushSubstring(x, data, index, eof, junk)
           tail == index + len
<1>1. /\ x.exIdx \in Nat /\ x.output \in Streams(AnyByte(G)) /\ Fits(x.strs, x.exIdx, hi, G)
      /\ x.output.isInputEnd => x.exIdx = total
  BY DEF Good, IsReassembler
<1>2. Same(x, x)
  BY DEF Same
<1>3. Good(noted, hi, G, total) /\ Same(x, noted) /\ noted.strs = x.strs
  <2>1. CASE eof
    <3>1. noted = NoteEof(x, index, len) /\ index + len = total
      BY <2>1
    <3> HIDE DEF noted, y, tail
    <3>2. /\ Good(NoteEof(x, index, len), hi, G, total) /\ Same(x, NoteEof(x, index, len))
          /\ NoteEof(x, index, len).strs = x.strs
      <4>1. index + len < SizeMod /\ SizeMod \in Nat
        BY <3>1, SizeModAssumption
      <4>2. Plus(index, len) = total
        BY <3>1, <4>1, PlusIsSum
      <4>3. Good(NoteEof(x, index, len), hi, G, total) /\ Same(x, NoteEof(x, index, len))
        BY <4>2, NoteEofKeeps
      <4>4. NoteEof(x, index, len).strs = x.strs
        BY <4>2, NoteEofKeeps, SMT
      <4> QED
        BY <4>3, <4>4
    <3> QED
      BY <3>1, <3>2
  <2>2. CASE ~eof
    BY <1>2, <2>2
  <2> QED
    BY <2>1, <2>2
<1>4. tail \in Nat /\ total \in Nat
  BY SMTT(30)
<1>5. CASE x.output.isInputEnd
  <2>1. y = x
    BY <1>5 DEF PushSubstring
  <2>2. Grows(x, y, G)
    BY <1>1, <1>2, <2>1, SameGrows
  <2>3. \A i \in Nat : i >= x.exIdx => i \notin index..tail - 1
    BY <1>1, <1>4, <1>5, SMTT(30)
  <2>4. Settled(x, index, tail, y)
    BY <1>1, <2>1, <2>3, SMTT(30) DEF Settled, Wanted
  <2> QED
    BY <2>1, <2>2, <2>4
<1>6. CASE ~x.output.isInputEnd /\ data = <<>>
  <2>1. y = noted
    BY <1>6 DEF PushSubstring
  <2> HIDE DEF noted, y
  <2>2. Grows(x, y, G)
    BY <1>1, <1>3, <2>1, SameGrows
  <2>3. len = 0
    BY <1>6
  <2>4. y.exIdx = x.exIdx /\ y.strs = x.strs
    BY <1>3, <2>1 DEF Same
  <2>5. \A i \in Nat : i \notin index..tail - 1
    BY <2>3, SMTT(30)
  <2>6. Settled(x, index, tail, y)
    <3> HIDE DEF tail
    <3>1. \A i \in x.exIdx..y.exIdx - 1 : FALSE
      BY <1>1, <2>4, SMTT(30)
    <3> QED
      BY <1>1, <2>4, <2>5, <3>1, SMTT(30) DEF Settled, Wanted
  <2> QED
    BY <1>3, <2>1, <2>2, <2>6 DEF y
<1>7. CASE ~x.output.isInputEnd /\ data # <<>>
  <2> DEFINE cut == CutData(noted, index, data)
  <2>1. y = StoreAndPush(noted, cut, junk)
    BY <1>7 DEF PushSubstring
  <2> HIDE DEF noted, y
  <2>2. noted.exIdx = x.exIdx /\ RemainingCapacity(noted.output) = RemainingCapacity(x.output)
    BY <1>3 DEF Same
  <2>3. len # 0
    BY <1>7, SMTT(30) DEF Placed
  <2>4. hi < SizeMod /\ SizeMod \in Nat
    BY SizeModAssumption, SMTT(30)
  <2>5. DataCut(noted.strs, noted.exIdx, hi, index, index + Len(data), cut, G)
    <3>1. /\ noted.exIdx \in Nat /\ Fits(noted.strs, noted.exIdx, hi, G)
          /\ Len(data) \in Nat \ {0} /\ index + Len(data) <= hi
      BY <1>1, <1>3, <2>2, <2>3, SMTT(30)
    <3> QED
      BY <2>4, <3>1, CutDataKeeps
  <2> HIDE DEF cut
  <2>6. RoomOrGarbage(noted, hi, G) /\ (InRoom(x, hi) => InRoom(noted, hi))
    BY <2>2 DEF RoomOrGarbage, InRoom
  <2>7. DataCut(noted.strs, noted.exIdx, hi, index, tail, cut, G) /\ tail <= hi
    BY <2>5
  <2> HIDE DEF tail
  <2>8. /\ Good(y, hi, G, total) /\ Grows(noted, y, G)
        /\ InRoom(noted, hi) => Settled(noted, index, tail, y)
    BY <1>3, <1>4, <2>1, <2>6, <2>7, StoreAndPushKeeps, SMTT(30)
  <2>9. Grows(x, y, G)
    BY <1>3, <2>8 DEF Same, Grows
  <2>10. Settled(noted, index, tail, y) => Settled(x, index, tail, y)
    BY <1>3, <2>2 DEF Settled
  <2> QED
    BY <2>6, <2>8, <2>9, <2>10 DEF y, tail
<1> QED
  BY <1>5, <1>6, <1>7

\* A map that fits below a limit fits below a larger one.
LEMMA FitsBelow ==
  ASSUME NEW m, NEW lo \in Nat, NEW hi \in Nat, NEW G, Fits(m, lo, hi, G), NEW top \in Nat, hi <= top
  PROVE  Fits(m, lo, top, G)
<1>1. \A k \in DOMAIN m : TailIdx(m, k) <= top
  BY FitsBounds, SMTT(30)
<1> QED
  BY <1>1 DEF Fits

\* Associativity of concatenation, in the form the steps below use.
LEMMA Associative ==
  ASSUME NEW B PROVE \A a, b, c \in Seq(B) : (a \o b) \o c = a \o (b \o c)
<1> TAKE a, b, c \in Seq(B)
<1> QED
  BY ConcatRegroups, SMTT(30)

Popped(x, len) == [x EXCEPT !.output = PopOutput(@, len)]


(* The object and its reader *)

\* A reader got the bytes d of reassembler x: with what waits in the output they are the stream
\* up to _exIdx, each byte where it may stand.
Delivers(x, d, hi, G, total) ==
  /\ Good(x, hi, G, total) /\ d \in Seq(AnyByte(G))
  /\ Placed(d \o x.output.buf, 0, G) /\ Len(d \o x.output.buf) = x.exIdx

\* So they are when the output has grown.
LEMMA GrowsDelivers ==
  ASSUME NEW x, NEW d, NEW hi, NEW G, NEW total, Delivers(x, d, hi, G, total),
         NEW y, Good(y, hi, G, total), Grows(x, y, G)
  PROVE  Delivers(y, d, hi, G, total)
<1> DEFINE old == x.output.buf
           all == d \o old
           lo == x.exIdx
<1>1. /\ Placed(all, 0, G) /\ Len(all) = lo /\ lo \in Nat /\ y.exIdx \in Nat
      /\ d \in Seq(AnyByte(G)) /\ old \in Seq(AnyByte(G))
  BY SMTT(30) DEF Delivers, Good, IsReassembler, Streams
<1>2. PICK bytes : /\ Placed(bytes, lo, G) /\ Len(bytes) = y.exIdx - lo
                   /\ y.output.buf = old \o bytes
  BY SMTT(30) DEF Grows
<1>3. d \o (old \o bytes) = all \o bytes
  <2> DEFINE B == AnyByte(G)
  <2>1. d \in Seq(B) /\ old \in Seq(B) /\ bytes \in Seq(B)
    BY <1>1, <1>2 DEF Placed
  <2> HIDE DEF B, old
  <2>2. (d \o old) \o bytes = d \o (old \o bytes)
    BY <2>1, Associative, SMTT(30)
  <2> QED
    BY <2>2
<1> HIDE DEF old, all, lo
<1>4. Placed(bytes, 0 + Len(all), G)
  BY <1>1, <1>2, SMTT(30)
<1>5. Placed(all \o bytes, 0, G) /\ Len(all \o bytes) = Len(all) + Len(bytes)
  BY <1>1, <1>4, PlacedConcat, SMTT(30)
<1>6. Len(all) + Len(bytes) = y.exIdx
  BY <1>1, <1>2, SMTT(30)
<1> QED
  BY <1>1, <1>2, <1>3, <1>5, <1>6, SMTT(30) DEF Delivers

\* The reader takes len bytes; the limit of the map may rise.
Reads(x, len, y) ==
  /\ y.exIdx = x.exIdx /\ y.strs = x.strs /\ y.eofSignRecv = x.eofSignRecv /\ y.capacity = x.capacity
  /\ y.output.isInputEnd = x.output.isInputEnd /\ y.output.numRead = x.output.numRead + len
  /\ y.output.numRead <= x.exIdx

\* A read moves the first bytes of the output behind what was delivered, and frees their room.
LEMMA PopDelivers ==
  ASSUME NEW x, NEW d, NEW hi \in Nat, NEW G, NEW total, Delivers(x, d, hi, G, total),
         NEW len \in Nat, len <= x.output.size, NEW y, y = Popped(x, len), NEW top \in Nat, hi <= top
  PROVE  Delivers(y, d \o PeekOutput(x.output, len), top, G, total) /\ Reads(x, len, y)
<1> DEFINE o == PopOutput(x.output, len)
           peek == PeekOutput(x.output, len)
<1>1. /\ IsReassembler(x, G) /\ Fits(x.strs, x.exIdx, hi, G)
      /\ x.exIdx = x.output.numWritten /\ x.exIdx <= total
      /\ x.output.numWritten = x.output.numRead + x.output.size
      /\ x.eofSignRecv => x.eofIdx = total
      /\ x.output.isInputEnd <=> x.eofSignRecv /\ x.exIdx = total
      /\ d \in Seq(AnyByte(G))
      /\ Placed(d \o x.output.buf, 0, G) /\ Len(d \o x.output.buf) = x.exIdx
  BY DEF Delivers, Good
<1>2. /\ x = [exIdx |-> x.exIdx, strs |-> x.strs, unassembledSize |-> x.unassembledSize,
              eofSignRecv |-> x.eofSignRecv, eofIdx |-> x.eofIdx, output |-> x.output,
              capacity |-> x.capacity]
      /\ x.exIdx \in Nat /\ x.eofIdx \in Nat /\ x.eofSignRecv \in BOOLEAN
      /\ x.output \in Streams(AnyByte(G)) /\ x.capacity = x.output.capacity
  BY <1>1 DEF IsReassembler
<1>3. /\ o \in Streams(AnyByte(G)) /\ peek \in Seq(AnyByte(G))
      /\ x.output.buf = peek \o o.buf
      /\ o.size = x.output.size - Len(peek) /\ o.numRead = x.output.numRead + Len(peek)
      /\ o.numWritten = x.output.numWritten /\ o.isInputEnd = x.output.isInputEnd
      /\ o.capacity = x.output.capacity
  BY <1>2, PopSplits
<1>4. Len(peek) = len
  <2>1. /\ x.output.size \in Nat /\ x.output.buf \in Seq(AnyByte(G))
        /\ x.output.size = Len(x.output.buf)
    BY <1>2 DEF Streams
  <2>2. Least(len, x.output.size) = len
    BY <2>1 DEF Least
  <2>3. len \in 0..Len(x.output.buf)
    BY <2>1, SMTT(30)
  <2> QED
    BY <2>1, <2>2, <2>3, PrefixType DEF PeekOutput
<1>5. y = [x EXCEPT !.output = o]
  BY DEF Popped
<1> HIDE DEF o, peek
<1>6. y = [exIdx |-> x.exIdx, strs |-> x.strs, unassembledSize |-> x.unassembledSize,
           eofSignRecv |-> x.eofSignRecv, eofIdx |-> x.eofIdx, output |-> o,
           capacity |-> x.capacity]
  BY <1>2, <1>5, SMTT(30)
<1>7. /\ y.exIdx = x.exIdx /\ y.strs = x.strs /\ y.unassembledSize = x.unassembledSize
      /\ y.eofSignRecv = x.eofSignRecv /\ y.eofIdx = x.eofIdx /\ y.output = o
      /\ y.capacity = x.capacity
  BY <1>6, SMTT(30)
<1>8. IsReassembler(y, G)
  BY <1>2, <1>3, <1>6, <1>7, SMTT(30) DEF IsReassembler
<1>9. /\ o.numRead = x.output.numRead + len /\ o.numWritten = o.numRead + o.size
      /\ o.numRead <= x.exIdx /\ x.output.numRead \in Nat /\ o.numRead \in Nat
  <2> DEFINE read == x.output.numRead
             size == x.output.size
             written == x.output.numWritten
  <2>1. /\ read \in Nat /\ size \in Nat /\ len <= size /\ written = read + size
        /\ o.numRead = read + len /\ o.size = size - len /\ o.numWritten = written
        /\ x.exIdx = written
    BY <1>1, <1>2, <1>3, <1>4, SMTT(30) DEF Streams
  <2> HIDE DEF read, size, written
  <2>2. /\ o.numRead = read + len /\ o.numWritten = o.numRead + o.size
        /\ o.numRead <= x.exIdx /\ read \in Nat /\ o.numRead \in Nat
    BY <2>1, SMTT(30)
  <2> QED
    BY <2>2, SMTT(30) DEF read
<1>10. Fits(y.strs, y.exIdx, top, G)
  BY <1>1, <1>2, <1>7, FitsBelow, SMTT(30)
<1>11. Good(y, top, G, total)
  BY <1>1, <1>3, <1>7, <1>8, <1>9, <1>10 DEF Good
<1>12. d \o peek \in Seq(AnyByte(G)) /\ (d \o peek) \o o.buf = d \o x.output.buf
  <2> DEFINE B == AnyByte(G)
             rest == o.buf
  <2>1. d \in Seq(B) /\ peek \in Seq(B) /\ rest \in Seq(B)
    BY <1>1, <1>3, SMTT(30) DEF Streams
  <2> HIDE DEF B, rest
  <2>2. (d \o peek) \o rest = d \o (peek \o rest)
    BY <2>1, Associative, SMTT(30)
  <2>3. d \o peek \in Seq(B)
    BY <2>1, SMTT(30)
  <2> QED
    BY <1>3, <2>2, <2>3, SMTT(30) DEF B, rest
<1>13. Delivers(y, d \o peek, top, G, total)
  BY <1>1, <1>7, <1>11, <1>12, SMTT(30) DEF Delivers
<1> QED
  BY <1>3, <1>7, <1>9, <1>13, SMTT(30) DEF peek, Reads

\* A new object, and a reader with nothing.
LEMMA NewDelivers ==
  ASSUME NEW cap \in Nat, NEW hi, NEW G, NEW total \in Nat
  PROVE  /\ Delivers(NewStreamReassembler(cap), <<>>, hi, G, total)
         /\ NewStreamReassembler(cap).capacity = cap /\ NewStreamReassembler(cap).output.numRead = 0
         /\ ~Holds(NewStreamReassembler(cap).strs, NewStreamReassembler(cap).exIdx)
<1> DEFINE x == NewStreamReassembler(cap)
           o == NewByteStream(cap)
<1>1. x = [exIdx |-> 0, strs |-> <<>>, unassembledSize |-> 0, eofSignRecv |-> FALSE,
           eofIdx |-> 0, output |-> o, capacity |-> cap]
  BY DEF NewStreamReassembler
<1>2. /\ o.buf = <<>> /\ o.capacity = cap /\ o.size = 0 /\ o.isInputEnd = FALSE
      /\ o.numWritten = 0 /\ o.numRead = 0
  BY DEF NewByteStream
<1>3. o \in Streams(AnyByte(G))
  BY SMTT(30) DEF NewByteStream, Streams
<1> HIDE DEF x, o
<1>4. /\ x.exIdx = 0 /\ x.strs = <<>> /\ x.unassembledSize = 0 /\ x.eofSignRecv = FALSE
      /\ x.eofIdx = 0 /\ x.output = o /\ x.capacity = cap
  BY <1>1
<1>5. DOMAIN <<>> = {}
  BY SMTT(30)
<1>6. Fits(x.strs, x.exIdx, hi, G)
  BY <1>4, <1>5, SMTT(30) DEF Fits
<1>7. IsReassembler(x, G)
  BY <1>1, <1>2, <1>3, <1>4, SMTT(30) DEF IsReassembler
<1>8. Good(x, hi, G, total)
  BY <1>2, <1>4, <1>6, <1>7, SMTT(30) DEF Good
<1>9. Placed(<<>> \o x.output.buf, 0, G) /\ Len(<<>> \o x.output.buf) = x.exIdx
  <2>1. <<>> \o x.output.buf = <<>>
    BY <1>2, <1>4, SMTT(30)
  <2>2. Placed(<<>>, 0, G) /\ Len(<<>>) = 0
    BY SMTT(30) DEF Placed
  <2> QED
    BY <1>4, <2>1, <2>2
<1>10. ~Holds(x.strs, x.exIdx)
  BY <1>4, <1>5 DEF Holds
<1>11. <<>> \in Seq(AnyByte(G))
  BY SMTT(30)
<1> QED
  BY <1>2, <1>4, <1>8, <1>9, <1>10, <1>11, SMTT(30) DEF Delivers, x
===============================================================================
