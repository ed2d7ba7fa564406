---------------------------- MODULE TCPSenderProofs ----------------------------
(***************************************************************************)
(* Proofs about TCPSenderSpec: for every capacity, initial sequence        *)
(* number, payload size and window, the sequence space is accounted for,   *)
(* the timer runs exactly while something is outstanding, a late ack moves *)
(* nothing, and nothing new is sent past the newest window.  They rest on  *)
(* QueueInv, which ties the sequence numbers, the unacknowledged bytes,    *)
(* the recorded sizes and the flags of UnAckQueue together, and which      *)
(* push(), erase() and updateBase() keep for every queue.                  *)
(* The second half follows the bytes: from the stream into the queue, into *)
(* first segments and into retransmissions.                                *)
(***************************************************************************)
EXTENDS TCPSenderSpec, CommonLemmas, WellFoundedInduction

\* Zenon proves the leaves, unless they ask for arithmetic.
USE ZenonT(30)

(* Numbers and sequences *)

\* Rounding up a division: so many segments of MAX_PAYLOAD_SIZE hold n bytes, and none is
\* needed for no byte.
LEMMA CountCovers ==
  ASSUME NEW n \in Nat, NEW count, count = (n + MAX_PAYLOAD_SIZE - 1) \div MAX_PAYLOAD_SIZE
  PROVE  count \in Nat /\ count * MAX_PAYLOAD_SIZE >= n /\ (n = 0 <=> count = 0)
BY SenderAssumption, SMTT(30)

(* What holds of the queue between calls *)

\* The ends of segments are in order (a FIN on its own has the same end as what it follows).
Ascending(ends) == \A i, j \in DOMAIN ends : i <= j => ends[i] <= ends[j]

\* What UnAckQueue's members have to do with each other once read bytes were taken off the
\* stream: the sequence space is accounted for, the ends are in order, the flags are set in
\* the order of the handshake, and before the SYN is acknowledged nothing else is sent.
QueueInv(q, read) ==
  /\ q.nextSeqno = OneIf(q.synSent) + read + OneIf(q.finSent)
  /\ q.nextSeqno - q.baseSqn =
       OneIf(q.synSent /\ ~q.synAcked) + Len(q.unAcked) + OneIf(q.finSent /\ ~q.finAcked)
  /\ LastEnd(q) = q.baseSqn + Len(q.unAcked)
  /\ Ascending(q.ends)
  /\ q.synAcked => q.synSent /\ q.baseSqn >= 1
  /\ q.finSent => q.synAcked
  /\ q.finAcked => q.finSent /\ q.unAcked = <<>>
  /\ ~q.synAcked => q.baseSqn = 0 /\ q.ends = <<>> /\ q.unAcked = <<>>

(* UnAckQueue *)

\* The ends of count segments of MAX_PAYLOAD_SIZE that hold n bytes after last.
EndsOf(last, n, count) == [i \in 1..count |-> last + Least(i * MAX_PAYLOAD_SIZE, n)]

\* e continues ends in order with count more, the last of them n after last.
Continues(e, ends, last, n, count) ==
  /\ e \in Seq(Nat) /\ Ascending(e) /\ Len(e) = Len(ends) + count
  /\ count > 0 => e[Len(e)] = last + n

\* push(): the ends of count segments that together hold n bytes continue the list of ends in
\* order, and the last of them is n after the last one before.
LEMMA EndsContinue ==
  ASSUME NEW ends \in Seq(Nat), NEW last \in Nat, NEW n \in Nat, NEW count \in Nat,
         Ascending(ends), \A i \in DOMAIN ends : ends[i] <= last,
         count * MAX_PAYLOAD_SIZE >= n
  PROVE  Continues(ends \o EndsOf(last, n, count), ends, last, n, count)
<1> DEFINE more == [i \in 1..count |-> last + Least(i * MAX_PAYLOAD_SIZE, n)]
<1>1. \A i \in 1..count : i * MAX_PAYLOAD_SIZE \in Nat
  BY SenderAssumption, SMTT(30)
<1>2. \A i, j \in 1..count : i <= j => i * MAX_PAYLOAD_SIZE <= j * MAX_PAYLOAD_SIZE
  <2> TAKE i, j \in 1..count
  <2> HAVE i <= j
  <2>1. j * MAX_PAYLOAD_SIZE = i * MAX_PAYLOAD_SIZE + (j - i) * MAX_PAYLOAD_SIZE
    BY SenderAssumption, SMTT(30)
  <2>2. (j - i) * MAX_PAYLOAD_SIZE \in Nat
    BY SenderAssumption, SMTT(30)
  <2> QED
    BY <1>1, <2>1, <2>2, SMTT(30)
<1>3. \A i \in 1..count : last + Least(i * MAX_PAYLOAD_SIZE, n) \in Nat
  BY <1>1, SMTT(30) DEF Least
<1>4. more \in Seq(Nat) /\ Len(more) = count
  BY <1>3, FunctionIsSeq
<1>5. \A i, j \in 1..count : i <= j => more[i] <= more[j]
  BY <1>1, <1>2, SMTT(30) DEF Least
<1>6. \A i \in 1..count : more[i] \in Nat /\ more[i] >= last
  BY <1>1, SMTT(30) DEF Least
<1>7. count > 0 => more[count] = last + n
  <2> SUFFICES ASSUME count > 0 PROVE more[count] = last + n
    OBVIOUS
  <2>1. count * MAX_PAYLOAD_SIZE \in Nat /\ more[count] = last + Least(count * MAX_PAYLOAD_SIZE, n)
    BY <1>1, SMTT(30)
  <2> DEFINE all == count * MAX_PAYLOAD_SIZE
  <2>2. all >= n
    OBVIOUS
  <2> HIDE DEF all
  <2>3. Least(all, n) = n
    BY <2>1, <2>2, SMTT(30) DEF Least, all
  <2> QED
    BY <2>1, <2>3 DEF all
<1> HIDE DEF more
<1>8. /\ ends \o more \in Seq(Nat) /\ Len(ends \o more) = Len(ends) + count
      /\ \A i \in 1..Len(ends) + count :
           (ends \o more)[i] = IF i <= Len(ends) THEN ends[i] ELSE more[i - Len(ends)]
  BY <1>4, ConcatElements
<1>9. Len(ends) \in Nat /\ DOMAIN ends = 1..Len(ends) /\ \A i \in 1..Len(ends) : ends[i] \in Nat
  BY SeqIsFunction, ElementType
<1>10. DOMAIN (ends \o more) = 1..Len(ends) + count
  BY <1>8, SeqIsFunction
<1>11. /\ \A i, j \in 1..Len(ends) : i <= j => ends[i] <= ends[j]
       /\ \A i \in 1..Len(ends) : ends[i] <= last
  BY <1>9 DEF Ascending
<1>12. ASSUME NEW i \in 1..Len(ends) + count, NEW j \in 1..Len(ends) + count, i <= j
       PROVE  (ends \o more)[i] <= (ends \o more)[j]
  <2>1. CASE j <= Len(ends)
    BY <1>8, <1>9, <1>11, <1>12, <2>1, SMTT(30)
  <2>2. CASE i <= Len(ends) /\ j > Len(ends)
    <3>1. j - Len(ends) \in 1..count
      BY <1>9, <2>2, SMTT(30)
    <3>2. ends[i] <= last /\ more[j - Len(ends)] >= last
      BY <1>6, <1>9, <1>11, <2>2, <3>1, SMTT(30)
    <3>3. (ends \o more)[i] = ends[i] /\ ends[i] \in Nat
      BY <1>8, <1>9, <2>2, SMTT(30)
    <3>4. (ends \o more)[j] = more[j - Len(ends)] /\ more[j - Len(ends)] \in Nat
      BY <1>6, <1>8, <1>9, <2>2, <3>1, SMTT(30)
    <3> HIDE DEF more
    <3> QED
      BY <3>2, <3>3, <3>4, SMTT(30)
  <2>3. CASE i > Len(ends)
    <3>1. i - Len(ends) \in 1..count /\ j - Len(ends) \in 1..count /\ i - Len(ends) <= j - Len(ends)
      BY <1>9, <1>12, <2>3, SMTT(30)
    <3> QED
      BY <1>5, <1>8, <1>9, <1>12, <2>3, <3>1, SMTT(30)
  <2>4. Len(ends) \in Nat /\ i \in Int /\ j \in Int
    BY <1>9, SMTT(30)
  <2>5. j <= Len(ends) \/ (i <= Len(ends) /\ j > Len(ends)) \/ i > Len(ends)
    BY <2>4, SMTT(30)
  <2> QED
    BY <2>1, <2>2, <2>3, <2>5
<1>13. count > 0 => (ends \o more)[Len(ends) + count] = last + n
  BY <1>7, <1>8, <1>9, SMTT(30)
<1>14. Ascending(ends \o more)
  BY <1>10, <1>12 DEF Ascending
<1>15. EndsOf(last, n, count) = more
  BY DEF EndsOf, more
<1> QED
  BY <1>8, <1>13, <1>14, <1>15 DEF Continues

\* The ends lie between baseSqn's queue and what was sent: none is past the last one, and
\* the last one is not past _next_seqno.
LEMMA EndsBounded ==
  ASSUME NEW q \in UnAckQueues, NEW read \in Nat, QueueInv(q, read)
  PROVE  /\ Len(q.unAcked) \in Nat /\ Len(q.ends) \in Nat /\ DOMAIN q.ends = 1..Len(q.ends)
         /\ LastEnd(q) \in Nat /\ LastEnd(q) <= q.nextSeqno /\ q.baseSqn <= q.nextSeqno
         /\ \A i \in DOMAIN q.ends : q.ends[i] \in Nat /\ q.ends[i] <= LastEnd(q)
         /\ q.ends = <<>> <=> Len(q.ends) = 0
         /\ q.unAcked = <<>> <=> Len(q.unAcked) = 0
<1>1. q.unAcked \in Seq(Nat) /\ q.ends \in Seq(Nat) /\ q.baseSqn \in Nat /\ q.nextSeqno \in Nat
  BY DEF UnAckQueues
<1>2. /\ Len(q.unAcked) \in Nat /\ Len(q.ends) \in Nat /\ DOMAIN q.ends = 1..Len(q.ends)
      /\ \A i \in 1..Len(q.ends) : q.ends[i] \in Nat
  BY <1>1, SeqIsFunction, ElementType
<1>3. (q.ends = <<>> <=> Len(q.ends) = 0) /\ (q.unAcked = <<>> <=> Len(q.unAcked) = 0)
  BY <1>1, EmptyIsSeq
<1>4. LastEnd(q) = q.baseSqn + Len(q.unAcked)
  BY DEF QueueInv
<1>5. q.nextSeqno - q.baseSqn >= Len(q.unAcked)
  <2> DEFINE syn == OneIf(q.synSent /\ ~q.synAcked)
             fin == OneIf(q.finSent /\ ~q.finAcked)
  <2>1. q.nextSeqno - q.baseSqn = syn + Len(q.unAcked) + fin
    BY DEF QueueInv
  <2>2. syn \in 0..1 /\ fin \in 0..1
    BY SMTT(30) DEF OneIf
  <2> HIDE DEF syn, fin
  <2> QED
    BY <1>1, <1>2, <2>1, <2>2, SMTT(30)
<1>6. \A i \in DOMAIN q.ends : q.ends[i] <= LastEnd(q)
  <2> TAKE i \in DOMAIN q.ends
  <2>1. Len(q.ends) \in DOMAIN q.ends /\ i <= Len(q.ends) /\ q.ends # <<>>
    BY <1>2, <1>3, SMTT(30)
  <2>2. q.ends[i] <= q.ends[Len(q.ends)]
    BY <2>1 DEF QueueInv, Ascending
  <2> QED
    BY <2>1, <2>2 DEF LastEnd
<1> QED
  BY <1>1, <1>2, <1>3, <1>4, <1>5, <1>6, SMTT(30)

\* q is a queue in order that starts at base, after the SYN.
StartsAt(q, base, read) ==
  q \in UnAckQueues /\ QueueInv(q, read) /\ q.baseSqn = base /\ q.synAcked

\* The queue after push() of data, with or without a FIN behind it, whose segments end at e.
Pushed(q, data, fin, e) ==
  [q EXCEPT !.unAcked = q.unAcked \o data, !.ends = e, !.finSent = q.finSent \/ fin,
            !.nextSeqno = q.nextSeqno + Len(data) + (IF fin THEN 1 ELSE 0)]

\* push() of the segments that hold data, and a FIN if there is one, keeps the queue's
\* members together.
LEMMA PushKeeps ==
  ASSUME NEW q \in UnAckQueues, NEW read \in Nat, QueueInv(q, read), q.synAcked,
         NEW data \in Seq(Nat), NEW fin \in BOOLEAN, q.finSent => data = <<>> /\ ~fin,
         NEW e \in Seq(Nat), Ascending(e),
         \/ e = q.ends /\ data = <<>>
         \/ e # <<>> /\ e[Len(e)] = LastEnd(q) + Len(data)
  PROVE  StartsAt(Pushed(q, data, fin, e), q.baseSqn, read + Len(data))
<1> DEFINE r == Pushed(q, data, fin, e)
           u == q.unAcked \o data
           n == Len(data)
           next == q.nextSeqno + Len(data) + (IF fin THEN 1 ELSE 0)
<1>1. /\ q.unAcked \in Seq(Nat) /\ q.ends \in Seq(Nat) /\ q.nextSeqno \in Nat /\ q.baseSqn \in Nat
      /\ {q.synSent, q.synAcked, q.finSent, q.finAcked} \subseteq BOOLEAN
  BY DEF UnAckQueues
<1>2. n \in Nat /\ (data = <<>> <=> n = 0)
  BY SeqIsFunction, EmptyIsSeq
<1>3. u \in Seq(Nat) /\ Len(u) = Len(q.unAcked) + n
  BY <1>1, ConcatElements, SMTT(30)
<1>4. LastEnd(q) \in Nat /\ Len(q.unAcked) \in Nat
  BY EndsBounded
<1>7. next \in Nat
  BY <1>1, <1>2, SMTT(30)
<1> HIDE DEF r, u, n, next
<1>10. r = [q EXCEPT !.unAcked = u, !.ends = e, !.finSent = q.finSent \/ fin, !.nextSeqno = next]
  BY DEF r, u, next, Pushed
<1>11. r \in UnAckQueues
  BY <1>3, <1>7, <1>10 DEF UnAckQueues
<1>12. /\ r.unAcked = u /\ r.ends = e /\ r.finSent = (q.finSent \/ fin) /\ r.nextSeqno = next
       /\ r.synSent = q.synSent /\ r.synAcked = q.synAcked /\ r.finAcked = q.finAcked
       /\ r.baseSqn = q.baseSqn /\ r.winSize = q.winSize
  BY <1>10 DEF UnAckQueues
<1>13. LastEnd(r) = LastEnd(q) + n
  <2>1. CASE e = q.ends /\ data = <<>>
    <3>1. n = 0 /\ r.ends = q.ends /\ r.baseSqn = q.baseSqn
      BY <1>2, <1>12, <2>1
    <3> QED
      BY <1>4, <3>1, SMTT(30) DEF LastEnd
  <2>2. CASE e # <<>> /\ e[Len(e)] = LastEnd(q) + n
    BY <1>12, <2>2 DEF LastEnd
  <2> QED
    BY <2>1, <2>2 DEF n
<1>14. q.finSent => n = 0 /\ ~fin
  BY <1>2
<1> DEFINE syn == OneIf(q.synSent)
           synOut == OneIf(q.synSent /\ ~q.synAcked)
           finNow == OneIf(q.finSent)
           finOut == OneIf(q.finSent /\ ~q.finAcked)
           new == OneIf(fin)
           before == Len(q.unAcked)
           after == Len(u)
<1>15. /\ q.nextSeqno = syn + read + finNow
       /\ q.nextSeqno - q.baseSqn = synOut + before + finOut
       /\ LastEnd(q) = q.baseSqn + before
       /\ q.finAcked => q.finSent
  BY DEF QueueInv
<1>16. syn \in Nat /\ synOut \in Nat /\ finNow \in Nat /\ finOut \in Nat /\ new \in Nat
  BY DEF OneIf
<1>23. next = q.nextSeqno + n + new
  BY DEF OneIf, next, n
<1>17. /\ OneIf(r.synSent) = syn /\ OneIf(r.synSent /\ ~r.synAcked) = synOut
       /\ OneIf(r.finSent) = finNow + new /\ OneIf(r.finSent /\ ~r.finAcked) = finOut + new
  BY <1>1, <1>12, <1>14, <1>15, SMTT(30) DEF OneIf
<1>22. before \in Nat /\ after = before + n /\ n \in Nat /\ q.nextSeqno \in Nat /\ q.baseSqn \in Nat
  BY <1>1, <1>2, <1>3, <1>4
<1> HIDE DEF syn, synOut, finNow, finOut, new, before, after
<1>18. /\ r.nextSeqno = OneIf(r.synSent) + (read + n) + OneIf(r.finSent)
       /\ r.nextSeqno - r.baseSqn =
            OneIf(r.synSent /\ ~r.synAcked) + Len(r.unAcked) + OneIf(r.finSent /\ ~r.finAcked)
       /\ LastEnd(r) = r.baseSqn + Len(r.unAcked)
  <2>1. next = syn + (read + n) + (finNow + new)
    BY <1>15, <1>16, <1>22, <1>23, SMTT(30)
  <2>2. next - q.baseSqn = synOut + after + (finOut + new)
    BY <1>15, <1>16, <1>22, <1>23, SMTT(30)
  <2>3. LastEnd(q) + n = q.baseSqn + after
    BY <1>15, <1>22, SMTT(30)
  <2> QED
    BY <1>12, <1>13, <1>17, <2>1, <2>2, <2>3 DEF after
<1>19. Ascending(r.ends)
  BY <1>12
<1>20. r.finAcked => r.finSent /\ r.unAcked = <<>>
  BY <1>1, <1>2, <1>3, <1>4, <1>12, <1>14, EmptyIsSeq, SMTT(30) DEF QueueInv
<1>21. (r.synAcked => r.synSent /\ r.baseSqn >= 1) /\ r.synAcked /\ (r.finSent => r.synAcked)
  BY <1>12 DEF QueueInv
<1> QED
  BY <1>11, <1>12, <1>18, <1>19, <1>20, <1>21 DEF QueueInv, StartsAt, n, r

\* r is q with its base at b and the ends moved along.
Shifted(q, b, r) ==
  /\ r \in UnAckQueues /\ r.baseSqn = b /\ Ascending(r.ends)
  /\ LastEnd(r) = LastEnd(q) + (b - q.baseSqn)
  /\ r.unAcked = q.unAcked /\ r.nextSeqno = q.nextSeqno
  /\ r.synSent = q.synSent /\ r.synAcked = q.synAcked
  /\ r.finSent = q.finSent /\ r.finAcked = q.finAcked

\* Moving baseSqn without touching the sizes moves the ends along.
LEMMA RebaseShifts ==
  ASSUME NEW q \in UnAckQueues, NEW read \in Nat, QueueInv(q, read), NEW b \in Nat, b >= q.baseSqn
  PROVE  Shifted(q, b, Rebase(q, b))
<1> DEFINE r == Rebase(q, b)
           e == [i \in DOMAIN q.ends |-> q.ends[i] + b - q.baseSqn]
<1>1. /\ Len(q.ends) \in Nat /\ DOMAIN q.ends = 1..Len(q.ends)
      /\ \A i \in DOMAIN q.ends : q.ends[i] \in Nat
      /\ q.ends = <<>> <=> Len(q.ends) = 0
  BY EndsBounded
<1>2. q.baseSqn \in Nat
  BY DEF UnAckQueues
<1>3. \A i \in 1..Len(q.ends) : q.ends[i] + b - q.baseSqn \in Nat
  BY <1>1, <1>2, SMTT(30)
<1>4. e \in Seq(Nat) /\ Len(e) = Len(q.ends) /\ DOMAIN e = DOMAIN q.ends
  BY <1>1, <1>3, FunctionIsSeq, SMTT(30)
<1>5. Ascending(e)
  <2> SUFFICES ASSUME NEW i \in DOMAIN q.ends, NEW j \in DOMAIN q.ends, i <= j
               PROVE  e[i] <= e[j]
    BY <1>4 DEF Ascending
  <2>1. q.ends[i] <= q.ends[j]
    BY DEF QueueInv, Ascending
  <2> DEFINE low == q.ends[i]
             high == q.ends[j]
             base == q.baseSqn
  <2>2. e[i] = low + b - base /\ e[j] = high + b - base
    OBVIOUS
  <2>3. low \in Nat /\ high \in Nat /\ base \in Nat /\ low <= high
    BY <1>1, <1>2, <2>1
  <2> HIDE DEF low, high, base, e
  <2> QED
    BY <2>2, <2>3, SMTT(30)
<1>6. e = <<>> <=> Len(e) = 0
  BY <1>4, EmptyIsSeq
<1>7. Len(e) # 0 => e[Len(e)] = q.ends[Len(q.ends)] + (b - q.baseSqn)
  BY <1>1, <1>2, <1>4, SMTT(30)
<1>8. r = [q EXCEPT !.baseSqn = b, !.ends = e]
  BY DEF Rebase, UnAckQueues
<1> HIDE DEF e, r
<1>9. r \in UnAckQueues
  BY <1>4, <1>8 DEF UnAckQueues
<1>10. /\ r.baseSqn = b /\ r.ends = e /\ r.unAcked = q.unAcked /\ r.nextSeqno = q.nextSeqno
       /\ r.synSent = q.synSent /\ r.synAcked = q.synAcked
       /\ r.finSent = q.finSent /\ r.finAcked = q.finAcked
  BY <1>8 DEF UnAckQueues
<1>11. LastEnd(r) = LastEnd(q) + (b - q.baseSqn)
  <2>1. CASE q.ends = <<>>
    <3>1. r.ends = <<>>
      BY <1>1, <1>4, <1>6, <1>10, <2>1
    <3>2. LastEnd(r) = b /\ LastEnd(q) = q.baseSqn
      BY <1>10, <2>1, <3>1 DEF LastEnd
    <3> QED
      BY <1>2, <3>2, SMTT(30)
  <2>2. CASE q.ends # <<>>
    <3>1. r.ends # <<>> /\ r.ends[Len(r.ends)] = q.ends[Len(q.ends)] + (b - q.baseSqn)
      BY <1>1, <1>4, <1>6, <1>7, <1>10, <2>2
    <3> QED
      BY <2>2, <3>1 DEF LastEnd
  <2> QED
    BY <2>1, <2>2
<1> QED
  BY <1>5, <1>9, <1>10, <1>11 DEF Shifted, r

\* erase() of an ackno that is the end of a segment under way: the segments up to it are
\* dropped, with their bytes, and the rest stays in order.
LEMMA EraseKeeps ==
  ASSUME NEW q \in UnAckQueues, NEW read \in Nat, QueueInv(q, read), q.synAcked,
         NEW k \in DOMAIN q.ends, NEW ackno \in Nat, ackno > q.baseSqn, q.ends[k] = ackno,
         NEW r, r = Erase(q, ackno)
  PROVE  StartsAt(r, ackno, read)
<1> DEFINE reached == {i \in DOMAIN q.ends : q.ends[i] >= ackno}
           first == CHOOSE i \in reached : \A j \in reached : i <= j
<1>1. /\ Len(q.ends) \in Nat /\ Len(q.unAcked) \in Nat /\ DOMAIN q.ends = 1..Len(q.ends)
      /\ LastEnd(q) \in Nat
      /\ \A i \in DOMAIN q.ends : q.ends[i] \in Nat /\ q.ends[i] <= LastEnd(q)
      /\ q.ends = <<>> <=> Len(q.ends) = 0
  BY EndsBounded
<1>2. /\ q.ends \in Seq(Nat) /\ q.unAcked \in Seq(Nat) /\ q.baseSqn \in Nat /\ q.nextSeqno \in Nat
      /\ q.overrun = FALSE
  BY DEF UnAckQueues
<1>3. k \in reached /\ reached \subseteq Nat
  BY <1>1, SMTT(30)
<1>4. first \in reached /\ \A j \in reached : first <= j
  <2>1. PICK i \in reached : \A j \in reached : ~(<<j, i>> \in OpToRel(<, Nat))
    BY <1>3, NatLessThanWellFounded, WFMin
  <2>2. \A j \in reached : ~(j < i)
    <3> HIDE DEF reached
    <3> QED
      BY <1>3, <2>1 DEF OpToRel
  <2>3. \A j \in reached : i <= j
    <3> HIDE DEF reached
    <3> QED
      BY <1>3, <2>2, SMTT(30)
  <2> QED
    BY <2>3
<1> HIDE DEF first
<1>5. first \in 1..Len(q.ends) /\ q.ends[first] >= ackno /\ first <= k
  BY <1>1, <1>3, <1>4
<1>6. q.ends[first] <= ackno
  BY <1>1, <1>5 DEF QueueInv, Ascending
<1>7. q.ends[first] = ackno
  BY <1>1, <1>5, <1>6, SMTT(30) DEF reached
<1> DEFINE e == SubSeq(q.ends, first + 1, Len(q.ends))
           n == ackno - q.baseSqn
           u == SubSeq(q.unAcked, n + 1, Len(q.unAcked))
<1>8. LastEnd(q) = q.baseSqn + Len(q.unAcked)
  BY DEF QueueInv
<1>9. n \in 0..Len(q.unAcked)
  <2> DEFINE len == Len(q.unAcked)
             last == LastEnd(q)
  <2>1. last = q.baseSqn + len /\ ackno <= last /\ len \in Nat /\ last \in Nat
    BY <1>1, <1>8
  <2>2. q.baseSqn \in Nat
    BY <1>2
  <2> HIDE DEF len, last
  <2>3. n \in 0..len
    BY <2>1, <2>2, SMTT(30)
  <2> QED
    BY <2>3 DEF len
<1>10. u \in Seq(Nat) /\ Len(u) = Len(q.unAcked) - n
  BY <1>2, <1>9, SuffixType
<1>11. first \in 0..Len(q.ends)
  BY <1>1, <1>5, SMTT(30)
<1>12. e \in Seq(Nat) /\ Len(e) = Len(q.ends) - first
  BY <1>2, <1>11, SuffixType
<1>13. r = [q EXCEPT !.baseSqn = ackno, !.ends = e, !.unAcked = u, !.overrun = FALSE]
  <2>1. reached # {}
    BY <1>3
  <2>2. Erase(q, ackno) = EraseBytes([q EXCEPT !.baseSqn = ackno, !.ends = e], n)
    <3>1. ~(q.ends[first] > ackno)
      BY <1>7, SMTT(30)
    <3> QED
      BY <1>7, <2>1, <3>1 DEF Erase, first
  <2>3. ~(n > Len(q.unAcked))
    BY <1>1, <1>9, SMTT(30)
  <2> QED
    BY <1>2, <2>2, <2>3 DEF EraseBytes, UnAckQueues
<1>14. \A i \in 1..Len(e) : e[i] = q.ends[first + i] /\ first + i \in DOMAIN q.ends
  <2>1. first + 1 \in Nat /\ \A i \in first + 1..Len(q.ends) : q.ends[i] \in Nat
    BY <1>1, <1>5, SMTT(30)
  <2>2. \A i \in 1..Len(q.ends) - first : e[i] = q.ends[first + 1 + i - 1]
    BY <1>1, <1>2, <1>11, <2>1, SubSeqElements, SMTT(30)
  <2> HIDE DEF e
  <2> TAKE i \in 1..Len(e)
  <2> DEFINE len == Len(q.ends)
  <2>3. i \in 1..len - first /\ len \in Nat /\ first \in 1..len
    BY <1>1, <1>5, <1>12
  <2>4. i \in 1..len - first /\ first + 1 + i - 1 = first + i /\ first + i \in 1..len
    <3> HIDE DEF len
    <3> QED
      BY <2>3, SMTT(30)
  <2> QED
    BY <1>1, <2>2, <2>4
<1> HIDE DEF e, n, u
<1>15. Ascending(e)
  <2>1. DOMAIN e = 1..Len(e)
    BY <1>12, SeqIsFunction
  <2> SUFFICES ASSUME NEW i \in 1..Len(e), NEW j \in 1..Len(e), i <= j
               PROVE  e[i] <= e[j]
    BY <2>1 DEF Ascending
  <2>2. first + i \in DOMAIN q.ends /\ first + j \in DOMAIN q.ends /\ first + i <= first + j
    BY <1>1, <1>5, <1>14, SMTT(30)
  <2>3. q.ends[first + i] <= q.ends[first + j]
    BY <2>2 DEF QueueInv, Ascending
  <2> QED
    BY <1>14, <2>3
<1>16. r \in UnAckQueues
  BY <1>10, <1>12, <1>13 DEF UnAckQueues
<1>17. /\ r.baseSqn = ackno /\ r.ends = e /\ r.unAcked = u /\ r.nextSeqno = q.nextSeqno
       /\ r.synSent = q.synSent /\ r.synAcked = q.synAcked
       /\ r.finSent = q.finSent /\ r.finAcked = q.finAcked
  BY <1>13 DEF UnAckQueues
<1>18. LastEnd(r) = LastEnd(q)
  <2>1. q.ends # <<>>
    BY <1>1, SMTT(30)
  <2>2. CASE first = Len(q.ends)
    <3>1. e = <<>>
      BY <1>1, <1>12, <2>2, EmptyIsSeq, SMTT(30)
    <3>2. LastEnd(r) = ackno
      BY <1>17, <3>1 DEF LastEnd
    <3> QED
      BY <1>7, <2>1, <2>2, <3>2 DEF LastEnd
  <2>3. CASE first < Len(q.ends)
    <3>1. e # <<>> /\ Len(e) \in 1..Len(e) /\ first + Len(e) = Len(q.ends)
      BY <1>1, <1>5, <1>12, <2>3, EmptyIsSeq, SMTT(30)
    <3>2. e[Len(e)] = q.ends[Len(q.ends)]
      BY <1>14, <3>1
    <3> QED
      BY <1>17, <2>1, <3>1, <3>2 DEF LastEnd
  <2> QED
    BY <1>1, <1>5, <2>2, <2>3, SMTT(30)
<1> DEFINE len == Len(q.unAcked)
           rest == Len(u)
           synOut == OneIf(q.synSent /\ ~q.synAcked)
           finOut == OneIf(q.finSent /\ ~q.finAcked)
<1>19. /\ len \in Nat /\ n \in Nat /\ rest = len - n /\ q.baseSqn \in Nat /\ q.nextSeqno \in Nat
       /\ n = ackno - q.baseSqn
  BY <1>1, <1>2, <1>9, <1>10, SMTT(30) DEF n
<1>20. q.nextSeqno - q.baseSqn = synOut + len + finOut /\ LastEnd(q) = q.baseSqn + len
  BY DEF QueueInv
<1>21. synOut \in Nat /\ finOut \in Nat
  BY DEF OneIf
<1>22. OneIf(r.synSent /\ ~r.synAcked) = synOut /\ OneIf(r.finSent /\ ~r.finAcked) = finOut
  BY <1>17
<1> HIDE DEF len, rest, synOut, finOut
<1>23. q.nextSeqno - ackno = synOut + rest + finOut /\ LastEnd(q) = ackno + rest
  BY <1>19, <1>20, <1>21, SMTT(30)
<1>24. /\ r.nextSeqno - r.baseSqn =
            OneIf(r.synSent /\ ~r.synAcked) + Len(r.unAcked) + OneIf(r.finSent /\ ~r.finAcked)
       /\ LastEnd(r) = r.baseSqn + Len(r.unAcked)
  BY <1>17, <1>18, <1>22, <1>23 DEF rest
<1>25. r.nextSeqno = OneIf(r.synSent) + read + OneIf(r.finSent)
  BY <1>17 DEF QueueInv
<1>26. r.synSent /\ r.baseSqn >= 1 /\ r.synAcked
  BY <1>2, <1>17, SMTT(30) DEF QueueInv
<1>27. ~q.finAcked
  <2>1. len > 0
    BY <1>1, <1>19, <1>20, SMTT(30)
  <2>2. q.unAcked # <<>>
    BY <1>2, <2>1, EmptyIsSeq, SMTT(30) DEF len
  <2> QED
    BY <2>2 DEF QueueInv
<1> QED
  BY <1>15, <1>16, <1>17, <1>24, <1>25, <1>26, <1>27 DEF QueueInv, StartsAt

\* What ack_received() asks before it restarts the timer is whether anything is outstanding.
LEMMA OutstandingIsInFlight ==
  ASSUME NEW q \in UnAckQueues, NEW read \in Nat, QueueInv(q, read), q.synAcked
  PROVE  (~QueueEmpty(q) \/ (q.finSent /\ ~q.finAcked)) <=> q.nextSeqno > q.baseSqn
<1> DEFINE len == Len(q.unAcked)
           finOut == OneIf(q.finSent /\ ~q.finAcked)
<1>1. len \in Nat /\ q.baseSqn \in Nat /\ q.nextSeqno \in Nat /\ (q.unAcked = <<>> <=> len = 0)
  BY EndsBounded DEF UnAckQueues
<1>2. q.nextSeqno - q.baseSqn = 0 + len + finOut
  BY DEF QueueInv, OneIf
<1>3. QueueEmpty(q) <=> len = 0
  BY <1>1 DEF QueueEmpty, UnAckQueues
<1>4. finOut \in Nat /\ (finOut = 0 <=> ~(q.finSent /\ ~q.finAcked))
  BY SMTT(30) DEF OneIf
<1> HIDE DEF len, finOut
<1>5. q.nextSeqno > q.baseSqn <=> ~(len = 0 /\ finOut = 0)
  BY <1>1, <1>2, <1>4, SMTT(30)
<1> QED
  BY <1>3, <1>4, <1>5

\* updateBase(), for an ackno that is news and that is the end of a segment under way or of
\* everything: the queue starts at ackno afterwards, and its members stay together.
LEMMA UpdateBaseKeeps ==
  ASSUME NEW q \in UnAckQueues, NEW read \in Nat, QueueInv(q, read), q.synSent,
         NEW ackno \in Nat, ackno > q.baseSqn,
         ackno = q.nextSeqno \/ \E k \in DOMAIN q.ends : q.ends[k] = ackno,
         NEW r, r = UpdateBase(q, ackno)
  PROVE  StartsAt(r, ackno, read)
<1> DEFINE len == Len(q.unAcked)
           last == LastEnd(q)
           finOut == OneIf(q.finSent /\ ~q.finAcked)
           synOut == OneIf(q.synSent /\ ~q.synAcked)
           finNow == OneIf(q.finSent)
<1>1. /\ len \in Nat /\ last \in Nat /\ q.baseSqn \in Nat /\ q.nextSeqno \in Nat
      /\ (q.unAcked = <<>> <=> len = 0)
      /\ \A k \in DOMAIN q.ends : q.ends[k] <= last
      /\ {q.synSent, q.synAcked, q.finSent, q.finAcked} \subseteq BOOLEAN
      /\ q.unAcked \in Seq(Nat)
  BY EndsBounded DEF UnAckQueues
<1>2. /\ q.nextSeqno = 1 + read + finNow
      /\ q.nextSeqno - q.baseSqn = synOut + len + finOut /\ last = q.baseSqn + len
  BY DEF QueueInv, OneIf
<1>3. /\ IF q.finSent /\ ~q.finAcked THEN finOut = 1 ELSE finOut = 0
      /\ IF ~q.synAcked THEN synOut = 1 ELSE synOut = 0
      /\ IF q.finSent THEN finNow = 1 ELSE finNow = 0
  BY DEF OneIf
<1>4. QueueEmpty(q) <=> len = 0
  BY <1>1 DEF QueueEmpty, UnAckQueues
<1>5. \/ ackno = q.nextSeqno
      \/ ackno <= last /\ \E k \in DOMAIN q.ends : q.ends[k] = ackno
  BY <1>1
<1>6. /\ q.synAcked => q.baseSqn >= 1
      /\ q.finSent => q.synAcked
      /\ q.finAcked => q.finSent /\ len = 0
      /\ ~q.synAcked => q.baseSqn = 0 /\ q.ends = <<>> /\ len = 0
  BY <1>1 DEF QueueInv
<1> HIDE DEF len, last, finOut, synOut, finNow
\* The SYN is acknowledged.
<1>7. CASE ~q.synAcked
  <2>1. q.nextSeqno = 1 /\ ackno = 1 /\ q.baseSqn = 0 /\ ~q.finSent /\ ~q.finAcked
    <3>1. q.baseSqn = 0 /\ len = 0 /\ q.ends = <<>> /\ ~q.finSent /\ ~q.finAcked
      BY <1>6, <1>7
    <3>2. synOut = 1 /\ finOut = 0
      BY <1>3, <1>7, <3>1
    <3>3. q.nextSeqno = 1
      BY <1>1, <1>2, <3>1, <3>2, SMTT(30)
    <3>4. ~\E k \in DOMAIN q.ends : q.ends[k] = ackno
      BY <3>1, SMTT(30)
    <3> QED
      BY <1>5, <3>1, <3>3, <3>4
  <2> DEFINE b == Rebase(q, 1)
  <2>2. r = [b EXCEPT !.synAcked = TRUE]
    BY <2>1, SMTT(30) DEF UpdateBase
  <2>3. /\ b \in UnAckQueues /\ b.baseSqn = 1 /\ Ascending(b.ends)
        /\ LastEnd(b) = LastEnd(q) + (1 - q.baseSqn)
        /\ b.unAcked = q.unAcked /\ b.nextSeqno = q.nextSeqno /\ b.synSent = q.synSent
        /\ b.finSent = q.finSent /\ b.finAcked = q.finAcked
    <3>1. 1 \in Nat /\ 1 >= q.baseSqn
      BY <2>1, SMTT(30)
    <3>2. Shifted(q, 1, b)
      BY <3>1, RebaseShifts
    <3> HIDE DEF b
    <3> QED
      BY <3>2 DEF Shifted
  <2> HIDE DEF b
  <2>4. r \in UnAckQueues
    BY <2>2, <2>3 DEF UnAckQueues
  <2>5. /\ r.baseSqn = 1 /\ r.ends = b.ends /\ r.unAcked = q.unAcked /\ r.nextSeqno = q.nextSeqno
        /\ r.synSent = q.synSent /\ r.synAcked /\ r.finSent = q.finSent /\ r.finAcked = q.finAcked
    BY <2>2, <2>3 DEF UnAckQueues
  <2>6. LastEnd(r) = last + 1
    <3>1. LastEnd(r) = LastEnd(b)
      BY <2>3, <2>5 DEF LastEnd
    <3> QED
      BY <1>1, <2>1, <2>3, <3>1, SMTT(30) DEF last
  <2>7. /\ OneIf(r.synSent) = 1 /\ OneIf(r.finSent) = 0
        /\ OneIf(r.synSent /\ ~r.synAcked) = 0 /\ OneIf(r.finSent /\ ~r.finAcked) = 0
    BY <2>1, <2>5 DEF OneIf
  <2>8. 1 = 1 + read + 0 /\ 1 - 1 = 0 + len + 0 /\ last + 1 = 1 + len
    <3>1. len = 0 /\ finNow = 0
      BY <1>3, <1>6, <1>7, <2>1
    <3> QED
      BY <1>1, <1>2, <2>1, <3>1, SMTT(30)
  <2>9. /\ r.nextSeqno = OneIf(r.synSent) + read + OneIf(r.finSent)
        /\ r.nextSeqno - r.baseSqn =
             OneIf(r.synSent /\ ~r.synAcked) + Len(r.unAcked) + OneIf(r.finSent /\ ~r.finAcked)
        /\ LastEnd(r) = r.baseSqn + Len(r.unAcked)
    BY <2>1, <2>5, <2>6, <2>7, <2>8 DEF len
  <2>10. r.synSent /\ ~r.finSent /\ ~r.finAcked /\ r.baseSqn = 1
    BY <2>1, <2>5
  <2> QED
    BY <2>1, <2>3, <2>4, <2>5, <2>9, <2>10, SMTT(30) DEF QueueInv, StartsAt
<1>8. q.synAcked => ackno # 1 /\ synOut = 0
  <2> SUFFICES ASSUME q.synAcked PROVE ackno # 1 /\ synOut = 0
    OBVIOUS
  <2>1. q.baseSqn >= 1
    BY <1>6
  <2>2. synOut = 0
    BY <1>3
  <2> QED
    BY <1>1, <2>1, <2>2, SMTT(30)
\* The FIN is acknowledged, with bytes before it.
<1>9. CASE q.synAcked /\ q.finSent /\ ackno = q.nextSeqno /\ len # 0
  <2>1. ackno # 1 /\ ~QueueEmpty(q) /\ q.synAcked /\ ~q.finAcked
    BY <1>4, <1>6, <1>8, <1>9
  <2>2. r = [q EXCEPT !.finAcked = TRUE, !.baseSqn = ackno, !.unAcked = <<>>, !.ends = <<>>,
                      !.overrun = FALSE]
    BY <1>9, <2>1 DEF UpdateBase
  <2>3. r \in UnAckQueues
    <3>1. <<>> \in Seq(Nat)
      BY EmptyIsSeq
    <3> QED
      BY <2>2, <3>1 DEF UnAckQueues
  <2>4. /\ r.baseSqn = ackno /\ r.ends = <<>> /\ r.unAcked = <<>> /\ r.nextSeqno = q.nextSeqno
        /\ r.synSent = q.synSent /\ r.synAcked = q.synAcked /\ r.finSent = q.finSent /\ r.finAcked
    BY <2>2 DEF UnAckQueues
  <2>5. Ascending(r.ends) /\ LastEnd(r) = ackno /\ Len(r.unAcked) = 0
    BY <2>4, EmptyIsSeq, SMTT(30) DEF Ascending, LastEnd
  <2>6. r.nextSeqno = OneIf(r.synSent) + read + OneIf(r.finSent)
    BY <2>4 DEF QueueInv
  <2>7. OneIf(r.synSent /\ ~r.synAcked) = 0 /\ OneIf(r.finSent /\ ~r.finAcked) = 0
    BY <2>1, <2>4 DEF OneIf
  <2>8. ackno - ackno = 0 + 0 + 0 /\ ackno = ackno + 0 /\ ackno >= 1
    BY <1>1, SMTT(30)
  <2>9. /\ r.nextSeqno - r.baseSqn =
             OneIf(r.synSent /\ ~r.synAcked) + Len(r.unAcked) + OneIf(r.finSent /\ ~r.finAcked)
        /\ LastEnd(r) = r.baseSqn + Len(r.unAcked)
    BY <1>9, <2>4, <2>5, <2>7, <2>8
  <2> QED
    BY <1>9, <2>3, <2>4, <2>5, <2>6, <2>8, <2>9 DEF QueueInv, StartsAt
\* The FIN is acknowledged on its own.
<1>10. CASE q.synAcked /\ q.finSent /\ ackno = q.nextSeqno /\ len = 0
  <2> DEFINE b == Rebase(q, ackno)
  <2>1. ackno # 1 /\ QueueEmpty(q)
    BY <1>4, <1>8, <1>10
  <2>2. synOut = 0 /\ (finOut = 0 \/ finOut = 1)
    BY <1>3, <1>8, <1>10
  <2>3. ackno = q.baseSqn + 1
    BY <1>1, <1>2, <1>10, <2>2, SMTT(30)
  <2>4. r = [b EXCEPT !.finAcked = TRUE]
    BY <1>10, <2>1, <2>3 DEF UpdateBase
  <2>5. Shifted(q, ackno, b)
    BY <1>1, RebaseShifts, SMTT(30)
  <2> HIDE DEF b
  <2>6. r \in UnAckQueues
    BY <2>4, <2>5 DEF UnAckQueues, Shifted
  <2>7. /\ r.baseSqn = ackno /\ r.ends = b.ends /\ r.unAcked = q.unAcked /\ r.nextSeqno = q.nextSeqno
        /\ r.synSent = q.synSent /\ r.synAcked = q.synAcked /\ r.finSent = q.finSent /\ r.finAcked
    BY <2>4, <2>5 DEF UnAckQueues, Shifted
  <2>8. LastEnd(r) = LastEnd(q) + (ackno - q.baseSqn) /\ Ascending(r.ends)
    BY <2>5, <2>7 DEF Shifted, LastEnd
  <2>9. last + (ackno - q.baseSqn) = ackno + len /\ ackno - ackno = 0 + len + 0 /\ ackno >= 1
    BY <1>1, <1>2, <1>10, SMTT(30)
  <2>10. r.nextSeqno = OneIf(r.synSent) + read + OneIf(r.finSent)
    BY <2>7 DEF QueueInv
  <2>11. OneIf(r.synSent /\ ~r.synAcked) = 0 /\ OneIf(r.finSent /\ ~r.finAcked) = 0
    BY <1>10, <2>7 DEF OneIf
  <2>12. /\ r.nextSeqno - r.baseSqn =
              OneIf(r.synSent /\ ~r.synAcked) + Len(r.unAcked) + OneIf(r.finSent /\ ~r.finAcked)
         /\ LastEnd(r) = r.baseSqn + Len(r.unAcked)
    BY <1>10, <2>7, <2>8, <2>9, <2>11 DEF len, last
  <2>13. r.unAcked = <<>>
    BY <1>1, <1>10, <2>7
  <2> QED
    BY <1>10, <2>6, <2>7, <2>8, <2>9, <2>10, <2>12, <2>13 DEF QueueInv, StartsAt
\* Segments are acknowledged.
<1>11. CASE q.synAcked /\ ~(q.finSent /\ ackno = q.nextSeqno)
  <2>1. len # 0 /\ \E k \in DOMAIN q.ends : q.ends[k] = ackno
    <3>1. CASE ackno = q.nextSeqno
      <4>1. ~q.finSent /\ finOut = 0 /\ synOut = 0
        BY <1>3, <1>8, <1>11, <3>1
      <4>2. ackno = last /\ len # 0
        BY <1>1, <1>2, <3>1, <4>1, SMTT(30)
      <4>3. q.ends # <<>>
        BY <1>1, <4>2, SMTT(30) DEF LastEnd, last
      <4>4. Len(q.ends) \in DOMAIN q.ends /\ q.ends[Len(q.ends)] = ackno
        BY <4>2, <4>3, EndsBounded, SMTT(30) DEF LastEnd, last
      <4> QED
        BY <4>2, <4>4
    <3>2. CASE ackno <= last /\ \E k \in DOMAIN q.ends : q.ends[k] = ackno
      <4>1. len # 0
        BY <1>1, <1>2, <3>2, SMTT(30)
      <4> QED
        BY <3>2, <4>1
    <3> QED
      BY <1>5, <3>1, <3>2
  <2>2. r = Erase(q, ackno)
    BY <1>4, <1>8, <1>11, <2>1 DEF UpdateBase
  <2>3. PICK k \in DOMAIN q.ends : q.ends[k] = ackno
    BY <2>1
  <2> QED
    BY <1>11, <2>2, <2>3, EraseKeeps
<1> QED
  BY <1>1, <1>7, <1>9, <1>10, <1>11

\* updateBase() never moves _next_seqno.
LEMMA AckSendsNothing ==
  ASSUME NEW q \in UnAckQueues, NEW ackno
  PROVE  UpdateBase(q, ackno).nextSeqno = q.nextSeqno
<1> DEFINE r == UpdateBase(q, ackno)
           b == Rebase(q, q.baseSqn + 1)
           forFin == q.finSent /\ ackno = q.nextSeqno
<1>1. b.nextSeqno = q.nextSeqno /\ DOMAIN b = DOMAIN q
  BY DEF Rebase, UnAckQueues
<1>2. "nextSeqno" \in DOMAIN q
  BY DEF UnAckQueues
<1>3. CASE ackno = 1
  <2>1. r = [b EXCEPT !.synAcked = TRUE]
    BY <1>3 DEF UpdateBase
  <2> HIDE DEF r, b
  <2> QED
    BY <1>1, <1>2, <2>1 DEF r
<1>4. CASE ackno # 1 /\ forFin /\ ~QueueEmpty(q)
  <2>1. r = [q EXCEPT !.finAcked = TRUE, !.baseSqn = ackno, !.unAcked = <<>>, !.ends = <<>>,
                      !.overrun = FALSE]
    BY <1>4 DEF UpdateBase
  <2> HIDE DEF r
  <2> QED
    BY <1>2, <2>1 DEF r
<1>5. CASE ackno # 1 /\ forFin /\ QueueEmpty(q)
  <2>1. r = [b EXCEPT !.finAcked = TRUE]
    BY <1>5 DEF UpdateBase
  <2> HIDE DEF r, b
  <2> QED
    BY <1>1, <1>2, <2>1 DEF r
<1>6. CASE ackno # 1 /\ ~forFin /\ QueueEmpty(q)
  <2>1. r = q
    BY <1>6 DEF UpdateBase
  <2> QED
    BY <2>1
<1>7. CASE ackno # 1 /\ ~forFin /\ ~QueueEmpty(q)
  <2>1. r = Erase(q, ackno)
    BY <1>7 DEF UpdateBase
  <2>2. \E base, ends, n :
          Erase(q, ackno) = EraseBytes([q EXCEPT !.baseSqn = base, !.ends = ends], n)
    BY DEF Erase
  <2>3. PICK base, ends, n :
          Erase(q, ackno) = EraseBytes([q EXCEPT !.baseSqn = base, !.ends = ends], n)
    BY <2>2
  <2>4. EraseBytes([q EXCEPT !.baseSqn = base, !.ends = ends], n).nextSeqno = q.nextSeqno
    BY <1>2 DEF EraseBytes
  <2> QED
    BY <2>1, <2>3, <2>4
<1> QED
  BY <1>3, <1>4, <1>5, <1>6, <1>7

(* TCPSender and its timer *)

\* A size_t subtraction gives a natural number, 0 for equal numbers, and no more than the true
\* difference if there is one.
LEMMA DifferenceType ==
  ASSUME NEW a \in Int, NEW b \in Int
  PROVE  /\ Difference(a, b) \in Nat
         /\ a = b => Difference(a, b) = 0
         /\ b <= a => Difference(a, b) <= a - b
<1>1. Difference(a, b) \in Nat /\ (a = b => Difference(a, b) = 0)
  BY SizeModAssumption, SMTT(30) DEF Difference
<1>2. ASSUME b <= a PROVE Difference(a, b) <= a - b
  <2> DEFINE d == a - b
             k == d \div SizeMod
  <2>1. d \in Nat /\ SizeMod \in Nat /\ SizeMod > 0
    BY <1>2, SizeModAssumption, SMTT(30)
  <2> HIDE DEF d
  <2>2. k \in Nat /\ d = SizeMod * k + (d % SizeMod)
    BY <2>1, SMTT(30)
  <2>3. SizeMod * k \in Nat /\ d % SizeMod \in Int
    BY <2>1, <2>2, SMTT(30)
  <2> HIDE DEF k
  <2>4. d % SizeMod <= d
    BY <2>1, <2>2, <2>3, SMTT(30)
  <2> QED
    BY <2>4 DEF Difference, d
<1> QED
  BY <1>1, <1>2

(* The inductive invariant *)

\* The members of t have their types; of its queue of segments nothing is said.
IsSender(t) ==
  /\ t = [q |-> t.q, timer |-> t.timer, isn |-> Isn, stream |-> t.stream,
          segmentsOut |-> t.segmentsOut]
  /\ t.q \in UnAckQueues /\ t.timer \in Timers /\ t.stream \in Streams(Nat)

\* A sender between calls: its queue is in order, it has read of the stream what was written
\* and is not held any more, and its timer runs while something is outstanding.
SenderInv(t) ==
  /\ IsSender(t)
  /\ QueueInv(t.q, t.stream.numRead)
  /\ t.stream.numWritten = t.stream.numRead + t.stream.size /\ t.stream.numWritten <= StreamLen
  /\ ~t.q.synAcked => t.q.winSize = 1
  /\ t.timer.isTimerRunning <=> t.q.nextSeqno > t.q.baseSqn

\* The peer is where the sender's queue begins, and a late ack is no news.
Inv ==
  /\ SenderInv(s) /\ s.segmentsOut = <<>>
  /\ peer.ackno = s.q.baseSqn
  /\ \A ack \in late : ack.ackno \in 1..s.q.baseSqn /\ ack.win \in Nat

(* TCPSender *)

\* The call leaves a sender in order, whose queue starts where it did.
Keeps(x, y) == SenderInv(y) /\ y.q.baseSqn = x.q.baseSqn

\* And its queue is q.
KeepsWith(x, y, q) == Keeps(x, y) /\ y.q = q

\* The timer's methods.
LEMMA TimerTypes ==
  ASSUME NEW t \in Timers
  PROVE  /\ StartTimer(t) \in Timers /\ StartTimer(t).isTimerRunning
         /\ StopTimer(t) \in Timers /\ ~StopTimer(t).isTimerRunning
BY SenderAssumption DEF Timers, StartTimer, StopTimer

\* firstPush() starts the timer if it queues a segment, and changes nothing else but the
\* queue of segments.
LEMMA FirstPushStarts ==
  ASSUME NEW x, IsSender(x), NEW segs
  PROVE  /\ IsSender(FirstPush(x, segs))
         /\ FirstPush(x, segs).q = x.q /\ FirstPush(x, segs).stream = x.stream
         /\ FirstPush(x, segs).timer.isTimerRunning <=> segs # <<>> \/ x.timer.isTimerRunning
         /\ FirstPush(x, segs).segmentsOut = x.segmentsOut \o segs
         /\ FirstPush(x, segs).timer.consecutiveRetransmissions <= x.timer.consecutiveRetransmissions
<1> DEFINE t == IF segs = <<>> \/ x.timer.isTimerRunning THEN x.timer ELSE StartTimer(x.timer)
           out == x.segmentsOut \o segs
<1>1. x = [q |-> x.q, timer |-> x.timer, isn |-> Isn, stream |-> x.stream,
           segmentsOut |-> x.segmentsOut]
  BY DEF IsSender
<1>2. x.timer \in Timers
  BY DEF IsSender
<1>3. t \in Timers /\ (t.isTimerRunning <=> segs # <<>> \/ x.timer.isTimerRunning)
  BY <1>2, TimerTypes DEF Timers
<1>6. t.consecutiveRetransmissions <= x.timer.consecutiveRetransmissions
  <2>1. StartTimer(x.timer).consecutiveRetransmissions = 0
    BY <1>2 DEF StartTimer, Timers
  <2> QED
    BY <1>2, <2>1, SMTT(30) DEF Timers
<1>5. FirstPush(x, segs) = [x EXCEPT !.segmentsOut = out, !.timer = t]
  BY DEF FirstPush
<1> HIDE DEF t, out
<1>4. FirstPush(x, segs) = [q |-> x.q, timer |-> t, isn |-> Isn, stream |-> x.stream,
                            segmentsOut |-> out]
  <2> DEFINE a == x.q
             b == x.timer
             str == x.stream
             before == x.segmentsOut
  <2>1. x = [q |-> a, timer |-> b, isn |-> Isn, stream |-> str, segmentsOut |-> before]
    BY <1>1
  <2> HIDE DEF a, b, str, before
  <2> DEFINE y == [x EXCEPT !.segmentsOut = out]
  <2>2. y = [q |-> a, timer |-> b, isn |-> Isn, stream |-> str, segmentsOut |-> out]
    BY <2>1, SMTT(30)
  <2>3. FirstPush(x, segs) = [y EXCEPT !.timer = t]
    BY <1>5
  <2> HIDE DEF y
  <2>4. [y EXCEPT !.timer = t]
          = [q |-> a, timer |-> t, isn |-> Isn, stream |-> str, segmentsOut |-> out]
    BY <2>2, SMTT(30)
  <2> QED
    BY <2>3, <2>4 DEF a, str
<1> QED
  BY <1>3, <1>4, <1>6, SMTT(30) DEF IsSender, out

\* The application's write() and end_input() reach the stream only.
LEMMA StreamKeeps ==
  ASSUME NEW x, SenderInv(x), NEW str \in Streams(Nat), str.numRead = x.stream.numRead,
         str.numWritten = str.numRead + str.size, str.numWritten <= StreamLen
  PROVE  KeepsWith(x, [x EXCEPT !.stream = str], x.q)
<1> DEFINE y == [x EXCEPT !.stream = str]
<1>1. x = [q |-> x.q, timer |-> x.timer, isn |-> Isn, stream |-> x.stream,
           segmentsOut |-> x.segmentsOut]
  BY DEF SenderInv, IsSender
<1>2. y = [q |-> x.q, timer |-> x.timer, isn |-> Isn, stream |-> str,
           segmentsOut |-> x.segmentsOut]
  BY <1>1, SMTT(30)
<1> HIDE DEF y
<1>3. y.q = x.q /\ y.timer = x.timer /\ y.stream = str /\ IsSender(y)
  BY <1>2 DEF SenderInv, IsSender
<1> QED
  BY <1>3 DEF SenderInv, Keeps, KeepsWith, y

\* makeSynSeg() never marks a FIN: the window is 1 until the SYN is acknowledged, and the SYN
\* itself takes it up.
LEMMA MarkSynOnlySyn ==
  ASSUME NEW x, SenderInv(x), ~x.q.synAcked
  PROVE  /\ IsSender(MarkSyn(x)) /\ QueueInv(MarkSyn(x).q, x.stream.numRead)
         /\ MarkSyn(x).q = [x.q EXCEPT !.synSent = TRUE, !.nextSeqno = 1]
         /\ MarkSyn(x).stream = x.stream /\ MarkSyn(x).timer = x.timer
         /\ MarkSyn(x).segmentsOut = x.segmentsOut
<1> DEFINE q == [x.q EXCEPT !.synSent = TRUE, !.nextSeqno = 1]
           syn == [x EXCEPT !.q.synSent = TRUE, !.q.nextSeqno = IF x.q.synSent THEN @ ELSE @ + 1]
<1>1. /\ x = [q |-> x.q, timer |-> x.timer, isn |-> Isn, stream |-> x.stream,
              segmentsOut |-> x.segmentsOut]
      /\ x.q \in UnAckQueues /\ x.timer \in Timers /\ x.stream \in Streams(Nat)
  BY DEF SenderInv, IsSender
<1>2. QueueInv(x.q, x.stream.numRead) /\ x.q.winSize = 1
  BY DEF SenderInv
<1>3. /\ x.q.baseSqn = 0 /\ x.q.ends = <<>> /\ x.q.unAcked = <<>> /\ ~x.q.finSent /\ ~x.q.finAcked
      /\ Ascending(x.q.ends) /\ LastEnd(x.q) = x.q.baseSqn + Len(x.q.unAcked)
  BY <1>2 DEF QueueInv
<1>4. /\ x.q.nextSeqno = OneIf(x.q.synSent) /\ x.stream.numRead = 0
  <2> DEFINE out == OneIf(x.q.synSent)
             read == x.stream.numRead
  <2>1. x.q.nextSeqno = out + read + 0 /\ x.q.nextSeqno - 0 = out + 0 + 0
    BY <1>2, <1>3 DEF QueueInv, OneIf
  <2>2. read \in Nat /\ x.q.nextSeqno \in Nat
    BY <1>1 DEF Streams, UnAckQueues
  <2>3. out \in Nat
    BY DEF OneIf
  <2> HIDE DEF out, read
  <2>4. x.q.nextSeqno = out /\ read = 0
    BY <2>1, <2>2, <2>3, SMTT(30)
  <2> QED
    BY <2>4 DEF out, read
<1>5. (IF x.q.synSent THEN x.q.nextSeqno ELSE x.q.nextSeqno + 1) = 1
  BY <1>4, SMTT(30) DEF OneIf
<1>6. syn = [x EXCEPT !.q = q]
  BY <1>1, <1>5 DEF UnAckQueues
<1> HIDE DEF q, syn
<1>7. /\ q \in UnAckQueues /\ q.synSent /\ q.nextSeqno = 1 /\ q.baseSqn = 0 /\ q.winSize = 1
      /\ ~q.synAcked /\ ~q.finSent /\ ~q.finAcked /\ q.ends = <<>> /\ q.unAcked = <<>>
  BY <1>1, <1>2, <1>3 DEF q, UnAckQueues
<1>8. /\ syn = [q |-> q, timer |-> x.timer, isn |-> Isn, stream |-> x.stream,
                segmentsOut |-> x.segmentsOut]
      /\ syn.q = q
  BY <1>1, <1>6, SMTT(30)
<1>9. RemainSpace(syn) = 0
  <2>1. BytesInFlight(syn.q) = 1 - 0 /\ syn.q.winSize = 1
    BY <1>7, <1>8 DEF BytesInFlight
  <2>2. BytesInFlight(syn.q) = 1 /\ Difference(1, 1) = 0
    BY <2>1, DifferenceType, SMTT(30)
  <2> QED
    BY <2>1, <2>2 DEF RemainSpace
<1>10. MarkSyn(x) = syn
  BY <1>9, SMTT(30) DEF MarkSyn, syn
<1>11. QueueInv(q, x.stream.numRead)
  <2>1. Len(q.unAcked) = 0 /\ Ascending(q.ends) /\ LastEnd(q) = 0
    BY <1>3, <1>7, EmptyIsSeq DEF LastEnd
  <2>2. /\ OneIf(q.synSent) = 1 /\ OneIf(q.finSent) = 0
        /\ OneIf(q.synSent /\ ~q.synAcked) = 1 /\ OneIf(q.finSent /\ ~q.finAcked) = 0
    BY <1>7 DEF OneIf
  <2>3. 1 = 1 + 0 + 0 /\ 1 - 0 = 1 + 0 + 0 /\ 0 = 0 + 0
    BY SMTT(30)
  <2> QED
    BY <1>4, <1>7, <2>1, <2>2, <2>3 DEF QueueInv
<1> QED
  BY <1>1, <1>7, <1>8, <1>10, <1>11, SMTT(30) DEF IsSender, q

\* The queue and the stream of x were given q and str; nothing else has changed.
With(x, q, str) ==
  [q |-> q, timer |-> x.timer, isn |-> Isn, stream |-> str, segmentsOut |-> x.segmentsOut]

\* Bytes, or a FIN, go from the stream to the queue, and their segments are queued.
LEMMA SendKeeps ==
  ASSUME NEW x, SenderInv(x), x.q.synAcked,
         NEW data \in Seq(Nat), NEW fin \in BOOLEAN, x.q.finSent => data = <<>> /\ ~fin,
         NEW e \in Seq(Nat), Ascending(e),
         \/ e = x.q.ends /\ data = <<>>
         \/ e # <<>> /\ e[Len(e)] = LastEnd(x.q) + Len(data),
         NEW str \in Streams(Nat), str.numRead = x.stream.numRead + Len(data),
         str.numWritten = x.stream.numWritten, str.size = x.stream.size - Len(data),
         NEW segs, segs = <<>> <=> data = <<>> /\ ~fin
  PROVE  KeepsWith(x, FirstPush(With(x, Pushed(x.q, data, fin, e), str), segs), Pushed(x.q, data, fin, e))
<1> DEFINE q == Pushed(x.q, data, fin, e)
           y == With(x, q, str)
           z == FirstPush(y, segs)
<1>1. x.q \in UnAckQueues /\ x.timer \in Timers /\ x.stream \in Streams(Nat)
  BY DEF SenderInv, IsSender
<1>2. QueueInv(x.q, x.stream.numRead) /\ x.stream.numRead \in Nat /\ x.stream.size \in Nat
  BY <1>1 DEF SenderInv, Streams
<1>3. StartsAt(q, x.q.baseSqn, x.stream.numRead + Len(data))
  BY <1>1, <1>2, PushKeeps, SMTT(30)
<1>4. q.synAcked /\ q.nextSeqno = x.q.nextSeqno + Len(data) + (IF fin THEN 1 ELSE 0)
  BY <1>1 DEF Pushed, UnAckQueues
<1> HIDE DEF q
<1>10. q \in UnAckQueues /\ QueueInv(q, str.numRead) /\ q.baseSqn = x.q.baseSqn
  BY <1>3 DEF StartsAt
<1>5. IsSender(y) /\ y.q = q /\ y.stream = str /\ y.timer = x.timer
  BY <1>1, <1>10 DEF IsSender, With
<1> HIDE DEF y
<1>6. /\ IsSender(z) /\ z.q = q /\ z.stream = str
      /\ z.timer.isTimerRunning <=> segs # <<>> \/ x.timer.isTimerRunning
  BY <1>5, FirstPushStarts
<1> HIDE DEF z
<1>7. Len(data) \in Nat /\ (data = <<>> <=> Len(data) = 0)
  BY SeqIsFunction, EmptyIsSeq
<1>8. str.numWritten = str.numRead + str.size /\ str.numWritten <= StreamLen
  <2>1. /\ x.stream.numWritten = x.stream.numRead + x.stream.size
        /\ x.stream.numWritten <= StreamLen
    BY DEF SenderInv
  <2> QED
    BY <1>2, <1>7, <2>1, SMTT(30)
<1>9. z.timer.isTimerRunning <=> q.nextSeqno > q.baseSqn
  <2>1. x.timer.isTimerRunning <=> x.q.nextSeqno > x.q.baseSqn
    BY DEF SenderInv
  <2>2. x.q.nextSeqno \in Nat /\ x.q.baseSqn \in Nat /\ x.q.baseSqn <= x.q.nextSeqno
    BY <1>1, <1>2, EndsBounded DEF UnAckQueues
  <2>3. CASE segs = <<>>
    <3>1. Len(data) = 0 /\ ~fin
      BY <1>7, <2>3
    <3>2. q.nextSeqno = x.q.nextSeqno
      BY <1>4, <2>2, <3>1, SMTT(30)
    <3> QED
      BY <1>10, <1>6, <2>1, <2>3, <3>2
  <2>4. CASE segs # <<>>
    <3>1. Len(data) > 0 \/ fin
      BY <1>7, <2>4, SMTT(30)
    <3>2. q.nextSeqno > q.baseSqn
      BY <1>10, <1>4, <1>7, <2>2, <3>1, SMTT(30)
    <3> QED
      BY <1>6, <2>4, <3>2
  <2> QED
    BY <2>3, <2>4
<1> QED
  BY <1>10, <1>4, <1>6, <1>8, <1>9 DEF Keeps, KeepsWith, SenderInv, q, y, z

\* makeFirstFinSeg() and the firstPush() of it.
LEMMA FirstFinKeeps ==
  ASSUME NEW x, SenderInv(x), x.q.synAcked, ~x.q.finSent
  PROVE  Keeps(x, PushFirstFin(x)) /\ PushFirstFin(x).stream = x.stream /\ PushFirstFin(x).q.synAcked
         /\ PushFirstFin(x).q.finSent /\ PushFirstFin(x).q.nextSeqno = x.q.nextSeqno + 1
         /\ PushFirstFin(x) = FirstPush(With(x, [x.q EXCEPT !.finSent = TRUE, !.nextSeqno = x.q.nextSeqno + 1], x.stream),
                                        <<Segment(Wrap(x.q.nextSeqno, x.isn), FALSE, TRUE, <<>>)>>)
<1> DEFINE q == Pushed(x.q, <<>>, TRUE, x.q.ends)
           segs == <<Segment(Wrap(x.q.nextSeqno, x.isn), FALSE, TRUE, <<>>)>>
           fin == [x EXCEPT !.q.finSent = TRUE, !.q.nextSeqno = @ + 1]
           y == With(x, q, x.stream)
<1>1. /\ x = [q |-> x.q, timer |-> x.timer, isn |-> Isn, stream |-> x.stream,
              segmentsOut |-> x.segmentsOut]
      /\ x.q \in UnAckQueues /\ x.stream \in Streams(Nat) /\ x.timer \in Timers
  BY DEF SenderInv, IsSender
<1>2. <<>> \in Seq(Nat) /\ Len(<<>>) = 0 /\ x.q.unAcked \o <<>> = x.q.unAcked
  BY <1>1, EmptyIsSeq, ConcatEmpty DEF UnAckQueues
<1>3. q = [x.q EXCEPT !.finSent = TRUE, !.nextSeqno = x.q.nextSeqno + 1]
  <2>1. x.q.nextSeqno + Len(<<>>) + 1 = x.q.nextSeqno + 1 /\ (x.q.finSent \/ TRUE) = TRUE
    BY <1>1, <1>2, SMTT(30) DEF UnAckQueues
  <2>2. q = [x.q EXCEPT !.unAcked = x.q.unAcked, !.ends = x.q.ends, !.finSent = TRUE,
                        !.nextSeqno = x.q.nextSeqno + 1]
    BY <1>2, <2>1 DEF Pushed
  <2>3. [x.q EXCEPT !.unAcked = x.q.unAcked] = x.q /\ [x.q EXCEPT !.ends = x.q.ends] = x.q
    BY <1>1 DEF UnAckQueues
  <2> QED
    BY <2>2, <2>3
<1>4. fin = [x EXCEPT !.q = q]
  BY <1>1, <1>3 DEF UnAckQueues
<1> HIDE DEF q, fin
<1>5. fin = y
  BY <1>1, <1>4, SMTT(30) DEF With
<1>6. x.q.ends \in Seq(Nat) /\ Ascending(x.q.ends)
  BY <1>1 DEF UnAckQueues, SenderInv, QueueInv
<1>7. /\ x.stream.numRead = x.stream.numRead + Len(<<>>)
      /\ x.stream.size = x.stream.size - Len(<<>>)
  BY <1>1, <1>2, SMTT(30) DEF Streams
<1>8. segs # <<>>
  OBVIOUS
<1> HIDE DEF segs
<1>9. Keeps(x, FirstPush(y, segs))
  BY <1>1, <1>2, <1>6, <1>7, <1>8, SendKeeps DEF q, KeepsWith
<1>10. PushFirstFin(x) = FirstPush(y, segs)
  BY <1>5 DEF PushFirstFin, fin, segs
<1>11. /\ q \in UnAckQueues /\ q.synAcked = x.q.synAcked /\ q.finSent = TRUE
       /\ q.nextSeqno = x.q.nextSeqno + 1
  <2>1. x.q.nextSeqno + 1 \in Nat
    BY <1>1, SMTT(30) DEF UnAckQueues
  <2> QED
    BY <1>1, <1>3, <2>1 DEF UnAckQueues
<1>12. IsSender(y) /\ y.q = q /\ y.stream = x.stream
  BY <1>1, <1>11 DEF IsSender, With
<1>14. PushFirstFin(x) = FirstPush(With(x, [x.q EXCEPT !.finSent = TRUE, !.nextSeqno = x.q.nextSeqno + 1], x.stream),
                                   <<Segment(Wrap(x.q.nextSeqno, x.isn), FALSE, TRUE, <<>>)>>)
  BY <1>3, <1>10 DEF segs
<1> HIDE DEF y
<1>13. FirstPush(y, segs).q = q /\ FirstPush(y, segs).stream = x.stream
  BY <1>12, FirstPushStarts
<1> QED
  BY <1>1, <1>9, <1>10, <1>11, <1>13, <1>14

\* The loop of fill_window().
LEMMA PayloadKeeps ==
  ASSUME NEW x, SenderInv(x), x.q.synAcked, x.q.finSent => x.stream.size = 0
  PROVE  /\ Keeps(x, PushPayload(x))
         /\ PushPayload(x).q.nextSeqno <= x.q.nextSeqno + RemainSpace(x)
         /\ x.q.finSent => PushPayload(x).q.nextSeqno = x.q.nextSeqno
<1> DEFINE space == RemainSpace(x)
           n == Least(space, x.stream.size)
           fin == x.stream.isInputEnd /\ n = x.stream.size /\ space > n /\ ~x.q.finSent
           count == IF n = 0 /\ fin THEN 1 ELSE (n + MAX_PAYLOAD_SIZE - 1) \div MAX_PAYLOAD_SIZE
           EndOf(i) == Least(i * MAX_PAYLOAD_SIZE, n)
           segs == [i \in 1..count |->
                      Segment(Wrap(x.q.nextSeqno + (i - 1) * MAX_PAYLOAD_SIZE, x.isn), FALSE,
                              fin /\ i = count,
                              SubSeq(x.stream.buf, (i - 1) * MAX_PAYLOAD_SIZE + 1, EndOf(i)))]
           data == PeekOutput(x.stream, n)
           str == PopOutput(x.stream, n)
           e == x.q.ends \o [i \in 1..count |-> LastEnd(x.q) + EndOf(i)]
           r == [x.q EXCEPT !.unAcked = @ \o data,
                            !.ends = @ \o [i \in 1..count |-> LastEnd(x.q) + EndOf(i)],
                            !.finSent = @ \/ fin,
                            !.nextSeqno = @ + n + (IF fin THEN 1 ELSE 0)]
           y == [x EXCEPT !.stream = PopOutput(@, n), !.q = r]
<1>1. PushPayload(x) = FirstPush(y, segs)
  BY DEF PushPayload
<1>2. /\ x.q \in UnAckQueues /\ x.timer \in Timers /\ x.stream \in Streams(Nat)
      /\ QueueInv(x.q, x.stream.numRead) /\ x.stream.numRead \in Nat
  BY DEF SenderInv, IsSender, Streams
<1>3. x.stream.size \in Nat /\ space \in Nat
  <2>1. x.q.winSize \in Nat /\ x.q.nextSeqno \in Nat /\ x.q.baseSqn \in Nat
    <3>1. x.q \in UnAckQueues
      BY <1>2
    <3> QED
      BY <3>1 DEF UnAckQueues
  <2>2. BytesInFlight(x.q) \in Int
    BY <2>1, SMTT(30) DEF BytesInFlight
  <2>3. space \in Nat
    <3>1. x.q.winSize \in Int
      BY <2>1, SMTT(30)
    <3>2. Difference(x.q.winSize, BytesInFlight(x.q)) \in Nat
      BY <2>2, <3>1, DifferenceType
    <3> QED
      BY <3>2 DEF RemainSpace
  <2> QED
    BY <1>2, <2>3 DEF Streams
<1>4. fin \in BOOLEAN
  OBVIOUS
<1>5. n \in Nat /\ n <= x.stream.size
  BY <1>3, SMTT(30) DEF Least
<1> HIDE DEF space, n
<1> HIDE DEF fin
<1>6. count \in Nat /\ count * MAX_PAYLOAD_SIZE >= n /\ (count = 0 <=> n = 0 /\ ~fin)
  <2>1. CASE n = 0 /\ fin
    BY <2>1, SenderAssumption, SMTT(30)
  <2>2. CASE ~(n = 0 /\ fin)
    BY <1>5, <2>2, CountCovers
  <2> QED
    BY <2>1, <2>2
<1>7. /\ str \in Streams(Nat) /\ data \in Seq(Nat) /\ Len(data) = n
      /\ str.size = x.stream.size - Len(data) /\ str.numRead = x.stream.numRead + Len(data)
      /\ str.numWritten = x.stream.numWritten
  <2>1. x.stream.buf \in Seq(Nat) /\ n \in 0..Len(x.stream.buf)
    BY <1>2, <1>5, SMTT(30) DEF Streams
  <2>2. data = SubSeq(x.stream.buf, 1, n)
    BY <1>3, <1>5 DEF PeekOutput, Least
  <2>3. Len(data) = n
    BY <2>1, <2>2, PrefixType, SMTT(30)
  <2> QED
    BY <1>2, <1>5, <2>3, PopSplits
<1>8. /\ e \in Seq(Nat) /\ Ascending(e) /\ Len(e) = Len(x.q.ends) + count
      /\ count > 0 => e[Len(e)] = LastEnd(x.q) + n
  <2>1. e = x.q.ends \o EndsOf(LastEnd(x.q), n, count)
    BY DEF EndsOf
  <2>2. /\ x.q.ends \in Seq(Nat) /\ LastEnd(x.q) \in Nat /\ Ascending(x.q.ends)
        /\ \A i \in DOMAIN x.q.ends : x.q.ends[i] <= LastEnd(x.q)
    BY <1>2, EndsBounded DEF UnAckQueues, QueueInv
  <2> HIDE DEF e, count
  <2>3. Continues(e, x.q.ends, LastEnd(x.q), n, count)
    BY <1>5, <1>6, <2>1, <2>2, EndsContinue
  <2> QED
    BY <2>3 DEF Continues
<1>9. count = 0 => e = x.q.ends
  <2> SUFFICES ASSUME count = 0 PROVE e = x.q.ends
    OBVIOUS
  <2>1. [i \in 1..count |-> LastEnd(x.q) + EndOf(i)] = <<>>
    <3> HIDE DEF count, EndOf
    <3> QED BY SMTT(30)
  <2>2. x.q.ends \in Seq(Nat)
    BY <1>2 DEF UnAckQueues
  <2> HIDE DEF count
  <2> QED
    BY <2>1, <2>2, ConcatEmpty
<1>10. segs = <<>> <=> count = 0
  <2> HIDE DEF count, EndOf
  <2>1. DOMAIN segs = 1..count
    OBVIOUS
  <2>2. CASE count = 0
    BY <2>2, SMTT(30)
  <2>3. CASE count > 0
    <3>1. 1 \in DOMAIN segs
      BY <1>6, <2>1, <2>3, SMTT(30)
    <3> HIDE DEF segs
    <3> QED
      BY <2>3, <3>1, SMTT(30)
  <2>4. count = 0 \/ count > 0
    BY <1>6, SMTT(30)
  <2> QED
    BY <2>2, <2>3, <2>4
<1> DEFINE q == Pushed(x.q, data, fin, e)
<1>11. r = q
  BY <1>7 DEF Pushed
<1> HIDE DEF q, r
<1>12. y = [[x EXCEPT !.stream = str] EXCEPT !.q = q]
  BY <1>11
<1> HIDE DEF segs, count, EndOf, data, str, e, y
<1>13. y = With(x, q, str)
  <2>1. x = [q |-> x.q, timer |-> x.timer, isn |-> Isn, stream |-> x.stream,
             segmentsOut |-> x.segmentsOut]
    BY DEF SenderInv, IsSender
  <2> DEFINE popped == [x EXCEPT !.stream = str]
  <2>2. popped = With(x, x.q, str)
    BY <2>1, SMTT(30) DEF With
  <2>3. y = [popped EXCEPT !.q = q]
    BY <1>12
  <2> HIDE DEF popped
  <2> QED
    BY <2>2, <2>3 DEF With
<1>14. data = <<>> <=> n = 0
  BY <1>7, EmptyIsSeq
<1>15. /\ x.q.finSent => data = <<>> /\ ~fin
       /\ \/ e = x.q.ends /\ data = <<>>
          \/ e # <<>> /\ e[Len(e)] = LastEnd(x.q) + Len(data)
       /\ segs = <<>> <=> data = <<>> /\ ~fin
  <2>1. x.q.finSent => data = <<>> /\ ~fin
    BY <1>3, <1>5, <1>14, SMTT(30) DEF fin
  <2>2. CASE count = 0
    BY <1>6, <1>9, <1>10, <1>14, <2>1, <2>2
  <2>3. CASE count # 0
    <3>1. count > 0 /\ ~(n = 0 /\ ~fin)
      BY <1>6, <2>3, SMTT(30)
    <3>2. Len(e) # 0 /\ e # <<>>
      BY <1>2, <1>6, <1>8, <3>1, EmptyIsSeq, EndsBounded, SMTT(30)
    <3> QED
      BY <1>7, <1>8, <1>10, <1>14, <2>1, <2>3, <3>1, <3>2
  <2> QED
    BY <2>2, <2>3
<1>16. Keeps(x, PushPayload(x)) /\ PushPayload(x).q = q
  <2>1. KeepsWith(x, FirstPush(With(x, Pushed(x.q, data, fin, e), str), segs),
                  Pushed(x.q, data, fin, e))
    BY <1>4, <1>7, <1>8, <1>15, SendKeeps
  <2> QED
    BY <1>1, <1>13, <2>1 DEF q, KeepsWith
<1>17. q.nextSeqno = x.q.nextSeqno + n + (IF fin THEN 1 ELSE 0) /\ x.q.nextSeqno \in Nat
  BY <1>2, <1>7 DEF q, Pushed, UnAckQueues
<1>18. n + (IF fin THEN 1 ELSE 0) <= space
  <2>1. n <= space /\ (fin => space > n)
    BY <1>3, SMTT(30) DEF n, fin, Least
  <2> QED
    BY <1>3, <1>5, <2>1, SMTT(30)
<1>19. x.q.finSent => n = 0 /\ ~fin
  BY <1>14, <1>15
<1>20. q.nextSeqno <= x.q.nextSeqno + space
  BY <1>3, <1>5, <1>17, <1>18, SMTT(30)
<1>21. x.q.finSent => q.nextSeqno = x.q.nextSeqno
  BY <1>17, <1>19, SMTT(30)
<1> QED
  BY <1>16, <1>20, <1>21 DEF space

\* A SYN under way is all that was sent, and takes up the window.
LEMMA SynUnderWay ==
  ASSUME NEW x, SenderInv(x), x.q.synSent, ~x.q.synAcked
  PROVE  x.q.nextSeqno = 1 /\ x.q.baseSqn = 0 /\ x.q.winSize = 1 /\ RemainSpace(x) = 0
<1>1. x.q \in UnAckQueues /\ QueueInv(x.q, x.stream.numRead)
  BY DEF SenderInv, IsSender
<1>2. x.q.winSize = 1 /\ x.q.baseSqn = 0 /\ x.q.unAcked = <<>> /\ ~x.q.finSent
  BY <1>1 DEF QueueInv, SenderInv
<1>3. OneIf(x.q.synSent /\ ~x.q.synAcked) = 1 /\ OneIf(x.q.finSent /\ ~x.q.finAcked) = 0
  BY <1>2 DEF OneIf
<1>4. x.q.nextSeqno - x.q.baseSqn = 1 + Len(x.q.unAcked) + 0
  BY <1>1, <1>3 DEF QueueInv
<1>5. Len(x.q.unAcked) = 0 /\ x.q.nextSeqno \in Nat
  BY <1>1, <1>2, EmptyIsSeq DEF UnAckQueues
<1>6. x.q.nextSeqno = 1
  BY <1>2, <1>4, <1>5, SMTT(30)
<1>7. BytesInFlight(x.q) = 1 - 0
  BY <1>2, <1>6 DEF BytesInFlight
<1>8. BytesInFlight(x.q) = 1 /\ Difference(1, 1) = 0
  BY <1>7, DifferenceType, SMTT(30)
<1> QED
  BY <1>2, <1>6, <1>8 DEF RemainSpace

\* fill_window() as a whole.
LEMMA FillWindowKeeps ==
  ASSUME NEW x, SenderInv(x)
  PROVE  Keeps(x, FillWindow(x))
<1> DEFINE closed == IF Eof(x.stream) /\ RemainSpace(x) > 1 THEN PushFirstFin(x) ELSE x
<1>1. x.q \in UnAckQueues /\ QueueInv(x.q, x.stream.numRead) /\ Keeps(x, x)
  BY DEF SenderInv, IsSender, Keeps
<1>2. CASE x.q.finSent \/ x.q.finAcked
  <2>1. FillWindow(x) = x
    BY <1>2 DEF FillWindow
  <2> QED
    BY <1>1, <2>1
<1>3. CASE ~x.q.finSent /\ ~x.q.finAcked /\ ~x.q.synSent
  <2> DEFINE y == MarkSyn(x)
             segs == <<SynSeg(x)>>
             z == FirstPush(y, segs)
  <2>1. FillWindow(x) = z
    BY <1>3 DEF FillWindow
  <2>2. ~x.q.synAcked
    BY <1>1, <1>3 DEF QueueInv
  <2>3. x.q.winSize = 1 /\ x.q.baseSqn = 0
    BY <1>1, <2>2 DEF QueueInv, SenderInv
  <2>4. /\ IsSender(y) /\ QueueInv(y.q, x.stream.numRead)
        /\ y.q = [x.q EXCEPT !.synSent = TRUE, !.nextSeqno = 1]
        /\ y.stream = x.stream
    BY <2>2, MarkSynOnlySyn
  <2>5. y.q.nextSeqno = 1 /\ y.q.baseSqn = 0 /\ y.q.winSize = 1
    BY <1>1, <2>3, <2>4 DEF UnAckQueues
  <2>6. segs # <<>>
    OBVIOUS
  <2> HIDE DEF y, segs
  <2>7. IsSender(z) /\ z.q = y.q /\ z.stream = y.stream /\ z.timer.isTimerRunning
    BY <2>4, <2>6, FirstPushStarts
  <2> HIDE DEF z
  <2>8. z.q.nextSeqno > z.q.baseSqn
    BY <2>5, <2>7, SMTT(30)
  <2>9. QueueInv(z.q, z.stream.numRead) /\ z.q.winSize = 1 /\ z.q.baseSqn = x.q.baseSqn
    BY <2>3, <2>4, <2>5, <2>7
  <2>10. z.stream = x.stream
    BY <2>4, <2>7
  <2> QED
    BY <2>1, <2>7, <2>8, <2>9, <2>10 DEF Keeps, SenderInv
<1>4. CASE ~x.q.finSent /\ ~x.q.finAcked /\ x.q.synSent /\ ~x.q.synAcked
  <2>1. RemainSpace(x) = 0
    BY <1>4, SynUnderWay
  <2>2. ~(RemainSpace(x) > 1)
    BY <2>1, SMTT(30)
  <2>3. FillWindow(x) = x
    BY <1>4, <2>2 DEF FillWindow
  <2> QED
    BY <1>1, <2>3
<1>5. CASE ~x.q.finSent /\ ~x.q.finAcked /\ x.q.synSent /\ x.q.synAcked
  <2>1. FillWindow(x) = PushPayload(closed)
    BY <1>5 DEF FillWindow
  <2>2. CASE Eof(x.stream) /\ RemainSpace(x) > 1
    <3> DEFINE y == PushFirstFin(x)
    <3>1. Keeps(x, y) /\ y.stream = x.stream /\ y.q.synAcked
      BY <1>5, FirstFinKeeps
    <3>2. closed = y /\ x.stream.size = 0
      BY <2>2 DEF Eof
    <3> HIDE DEF y, closed
    <3>3. Keeps(y, PushPayload(y))
      BY <3>1, <3>2, PayloadKeeps DEF Keeps
    <3> QED
      BY <2>1, <3>1, <3>2, <3>3, SMTT(30) DEF Keeps
  <2>3. CASE ~(Eof(x.stream) /\ RemainSpace(x) > 1)
    <3>1. FillWindow(x) = PushPayload(x)
      BY <2>1, <2>3
    <3> QED
      BY <1>5, <3>1, PayloadKeeps
  <2> QED
    BY <2>2, <2>3
<1> QED
  BY <1>2, <1>3, <1>4, <1>5

\* What fill_window() sends stays inside the window the sender goes by, unless it was exceeded
\* before.
InWindow(x, y) ==
  x.q.nextSeqno <= x.q.baseSqn + x.q.winSize => y.q.nextSeqno <= x.q.baseSqn + x.q.winSize

\* fill_window() sends no more than _remainSpace() says.
LEMMA FillWindowInWindow ==
  ASSUME NEW x, SenderInv(x)
  PROVE  InWindow(x, FillWindow(x))
<1> SUFFICES ASSUME x.q.nextSeqno <= x.q.baseSqn + x.q.winSize
             PROVE  FillWindow(x).q.nextSeqno <= x.q.baseSqn + x.q.winSize
  BY DEF InWindow
<1>1. /\ x.q \in UnAckQueues /\ QueueInv(x.q, x.stream.numRead)
      /\ x.q.nextSeqno \in Nat /\ x.q.baseSqn \in Nat /\ x.q.winSize \in Nat
  BY DEF SenderInv, IsSender, UnAckQueues
<1>2. RemainSpace(x) \in Nat /\ x.q.nextSeqno + RemainSpace(x) <= x.q.baseSqn + x.q.winSize
  <2> DEFINE inFlight == x.q.nextSeqno - x.q.baseSqn
  <2>1. inFlight \in Int /\ x.q.winSize \in Int /\ inFlight <= x.q.winSize
    BY <1>1, SMTT(30)
  <2>2. RemainSpace(x) = Difference(x.q.winSize, inFlight)
    BY DEF RemainSpace, BytesInFlight
  <2> HIDE DEF inFlight
  <2>3. RemainSpace(x) \in Nat /\ RemainSpace(x) <= x.q.winSize - inFlight
    BY <2>1, <2>2, DifferenceType
  <2> QED
    BY <1>1, <2>3, SMTT(30) DEF inFlight
<1>3. CASE x.q.finSent \/ x.q.finAcked
  <2>1. FillWindow(x) = x
    BY <1>3 DEF FillWindow
  <2> QED
    BY <2>1
<1>4. CASE ~x.q.finSent /\ ~x.q.finAcked /\ ~x.q.synSent
  <2>1. ~x.q.synAcked
    BY <1>1, <1>4 DEF QueueInv
  <2>2. x.q.winSize = 1 /\ x.q.baseSqn = 0
    BY <1>1, <2>1 DEF QueueInv, SenderInv
  <2>3. FillWindow(x) = FirstPush(MarkSyn(x), <<SynSeg(x)>>)
    BY <1>4 DEF FillWindow
  <2>4. IsSender(MarkSyn(x)) /\ MarkSyn(x).q = [x.q EXCEPT !.synSent = TRUE, !.nextSeqno = 1]
    BY <2>1, MarkSynOnlySyn
  <2>5. FillWindow(x).q = MarkSyn(x).q
    <3>1. IsSender(MarkSyn(x))
      BY <2>4
    <3>2. FirstPush(MarkSyn(x), <<SynSeg(x)>>).q = MarkSyn(x).q
      BY <3>1, FirstPushStarts
    <3> QED
      BY <2>3, <3>2
  <2>6. MarkSyn(x).q.nextSeqno = 1
    BY <1>1, <2>4 DEF UnAckQueues
  <2> QED
    BY <2>2, <2>5, <2>6, SMTT(30)
<1>5. CASE ~x.q.finSent /\ ~x.q.finAcked /\ x.q.synSent /\ ~x.q.synAcked
  <2>1. ~(RemainSpace(x) > 1)
    BY <1>5, SynUnderWay, SMTT(30)
  <2>2. FillWindow(x) = x
    BY <1>5, <2>1 DEF FillWindow
  <2> QED
    BY <2>2
<1>6. CASE ~x.q.finSent /\ ~x.q.finAcked /\ x.q.synSent /\ x.q.synAcked
  <2>1. CASE Eof(x.stream) /\ RemainSpace(x) > 1
    <3> DEFINE y == PushFirstFin(x)
    <3>1. /\ SenderInv(y) /\ y.stream = x.stream /\ y.q.synAcked /\ y.q.finSent
          /\ y.q.nextSeqno = x.q.nextSeqno + 1
      BY <1>6, FirstFinKeeps DEF Keeps
    <3>2. FillWindow(x) = PushPayload(y) /\ x.stream.size = 0
      BY <1>6, <2>1 DEF FillWindow, Eof
    <3> HIDE DEF y
    <3>3. PushPayload(y).q.nextSeqno = y.q.nextSeqno
      BY <3>1, <3>2, PayloadKeeps
    <3> QED
      BY <1>1, <1>2, <2>1, <3>1, <3>2, <3>3, SMTT(30)
  <2>2. CASE ~(Eof(x.stream) /\ RemainSpace(x) > 1)
    <3>1. FillWindow(x) = PushPayload(x)
      BY <1>6, <2>2 DEF FillWindow
    <3>2. SenderInv(PushPayload(x)) /\ PushPayload(x).q.nextSeqno <= x.q.nextSeqno + RemainSpace(x)
      BY <1>6, PayloadKeeps DEF Keeps
    <3>3. PushPayload(x).q.nextSeqno \in Nat
      BY <3>2 DEF SenderInv, IsSender, UnAckQueues
    <3> QED
      BY <1>1, <1>2, <3>1, <3>2, <3>3, SMTT(30)
  <2> QED
    BY <2>1, <2>2
<1> QED
  BY <1>3, <1>4, <1>5, <1>6

\* A sender is in order when its queue and stream are those of one in order, up to the timer.
LEMMA RetimedKeeps ==
  ASSUME NEW x, SenderInv(x), NEW timer \in Timers, NEW out,
         timer.isTimerRunning <=> x.timer.isTimerRunning,
         NEW y, y = [q |-> x.q, timer |-> timer, isn |-> Isn, stream |-> x.stream, segmentsOut |-> out]
  PROVE  KeepsWith(x, y, x.q)
<1>1. y.q = x.q /\ y.timer = timer /\ y.stream = x.stream /\ IsSender(y)
  BY SMTT(30) DEF IsSender, SenderInv
<1> QED
  BY <1>1 DEF Keeps, KeepsWith, SenderInv

\* The segment that timeoutRetransmit() picks.
Picked(x) ==
  LET q == x.q
      syn == ~q.finSent /\ q.synSent /\ ~q.synAcked
  IN  CASE q.finSent /\ QueueEmpty(q) -> Segment(Wrap(q.nextSeqno - 1, x.isn), FALSE, TRUE, <<>>)
        [] syn -> SynSeg(x)
        [] ~syn /\ ~QueueEmpty(q) -> FrontSeg(q, x.isn)
        [] ~syn /\ ~q.finSent /\ QueueEmpty(q) -> Segment(0, FALSE, FALSE, <<>>)

\* timeoutRetransmit(), called while the timer runs: the segment is queued, and what it carries
\* had been sent before.
LEMMA TimeoutKeeps ==
  ASSUME NEW x, SenderInv(x), x.timer.isTimerRunning
  PROVE  /\ Keeps(x, TimeoutRetransmit(x)) /\ TimeoutRetransmit(x).q.nextSeqno = x.q.nextSeqno
         /\ ~x.q.finAcked => /\ TimeoutRetransmit(x).segmentsOut = Append(x.segmentsOut, Picked(x))
                             /\ TimeoutRetransmit(x).stream = x.stream /\ TimeoutRetransmit(x).q = x.q
<1> DEFINE q == x.q
           syn == ~q.finSent /\ q.synSent /\ ~q.synAcked
           seg == CASE q.finSent /\ QueueEmpty(q) -> Segment(Wrap(q.nextSeqno - 1, x.isn), FALSE, TRUE, <<>>)
                    [] syn -> SynSeg(x)
                    [] ~syn /\ ~QueueEmpty(q) -> FrontSeg(q, x.isn)
                    [] ~syn /\ ~q.finSent /\ QueueEmpty(q) -> Segment(0, FALSE, FALSE, <<>>)
           marked == IF syn THEN MarkSyn(x) ELSE x
           timer == [x.timer EXCEPT !.timeout = IF x.timer.doubleTimeout THEN @ * 2 ELSE @,
                                    !.msSinceBaseSegSent = 0,
                                    !.consecutiveRetransmissions = @ + 1]
           y == [marked EXCEPT !.segmentsOut = Append(@, seg), !.timer = timer]
<1>1. TimeoutRetransmit(x) = IF x.q.finAcked THEN x ELSE y
  BY DEF TimeoutRetransmit
<1>2. /\ x = [q |-> x.q, timer |-> x.timer, isn |-> Isn, stream |-> x.stream,
              segmentsOut |-> x.segmentsOut]
      /\ x.q \in UnAckQueues /\ x.timer \in Timers
      /\ QueueInv(x.q, x.stream.numRead)
  BY DEF SenderInv, IsSender
\* Marking the SYN again changes nothing.
<1>3. /\ SenderInv(marked) /\ marked.timer = x.timer
      /\ marked.q.baseSqn = x.q.baseSqn /\ marked.q.nextSeqno = x.q.nextSeqno
      /\ marked.q = x.q /\ marked.stream = x.stream /\ marked.segmentsOut = x.segmentsOut
  <2>1. CASE syn
    <3> DEFINE m == MarkSyn(x)
    <3>1. /\ IsSender(m) /\ QueueInv(m.q, x.stream.numRead)
          /\ m.q = [x.q EXCEPT !.synSent = TRUE, !.nextSeqno = 1]
          /\ m.stream = x.stream /\ m.timer = x.timer /\ m.segmentsOut = x.segmentsOut
      BY <2>1, MarkSynOnlySyn
    <3>2. marked = m
      BY <2>1
    <3> HIDE DEF m, marked
    <3>3. x.q.winSize = 1 /\ x.q.baseSqn = 0 /\ x.q.nextSeqno = 1
      BY <2>1, SynUnderWay
    <3>4. m.q.nextSeqno = 1 /\ m.q.baseSqn = 0 /\ m.q.winSize = 1
      BY <1>2, <3>1, <3>3 DEF UnAckQueues
    <3>5. m.q.nextSeqno > m.q.baseSqn
      BY <3>4, SMTT(30)
    <3>6. SenderInv(m)
      BY <3>1, <3>4, <3>5 DEF SenderInv
    <3>7. m.q = x.q
      <4>1. x.q.synSent = TRUE
        BY <1>2, <2>1 DEF UnAckQueues
      <4>2. [x.q EXCEPT !.synSent = x.q.synSent] = x.q /\ [x.q EXCEPT !.nextSeqno = x.q.nextSeqno] = x.q
        BY <1>2 DEF UnAckQueues
      <4>3. [x.q EXCEPT !.synSent = TRUE] = x.q /\ [x.q EXCEPT !.nextSeqno = 1] = x.q
        BY <3>3, <4>1, <4>2
      <4> QED
        BY <3>1, <4>3
    <3> QED
      BY <3>1, <3>2, <3>3, <3>4, <3>6, <3>7, SMTT(30)
  <2>2. CASE ~syn
    BY <2>2
  <2> QED
    BY <2>1, <2>2
<1>4. CASE ~x.q.finAcked
  <2> DEFINE out == Append(marked.segmentsOut, seg)
             queued == [marked EXCEPT !.segmentsOut = out]
  <2>1. timer \in Timers /\ (timer.isTimerRunning <=> x.timer.isTimerRunning)
    <3> DEFINE timeout == IF x.timer.doubleTimeout THEN x.timer.timeout * 2 ELSE x.timer.timeout
               again == x.timer.consecutiveRetransmissions + 1
    <3>1. timeout \in Nat \ {0} /\ again \in Nat
      BY <1>2, SMTT(30) DEF Timers
    <3>2. timer = [x.timer EXCEPT !.timeout = timeout, !.msSinceBaseSegSent = 0,
                                  !.consecutiveRetransmissions = again]
      OBVIOUS
    <3> HIDE DEF timeout, again, timer
    <3> QED
      BY <1>2, <3>1, <3>2 DEF Timers
  <2> HIDE DEF timer, seg, marked, out
  <2>2. marked = [q |-> marked.q, timer |-> x.timer, isn |-> Isn, stream |-> marked.stream,
                  segmentsOut |-> marked.segmentsOut]
    BY <1>3 DEF SenderInv, IsSender
  <2>3. queued = [q |-> marked.q, timer |-> x.timer, isn |-> Isn, stream |-> marked.stream,
                  segmentsOut |-> out]
    BY <2>2, SMTT(30)
  <2>4. y = [queued EXCEPT !.timer = timer]
    BY DEF out
  <2> HIDE DEF y, queued
  <2>6. y = [q |-> marked.q, timer |-> timer, isn |-> Isn, stream |-> marked.stream,
             segmentsOut |-> out]
    BY <2>3, <2>4, SMTT(30)
  <2>5. KeepsWith(marked, y, marked.q)
    BY <1>3, <2>1, <2>6, RetimedKeeps
  <2>7. y.q = x.q /\ y.stream = x.stream /\ y.segmentsOut = out
    BY <1>3, <2>6
  <2>8. out = Append(x.segmentsOut, Picked(x))
    BY <1>3 DEF out, seg, Picked
  <2>9. TimeoutRetransmit(x) = y
    BY <1>1, <1>4
  <2> QED
    BY <1>3, <1>4, <2>5, <2>7, <2>8, <2>9 DEF Keeps, KeepsWith
<1> QED
  BY <1>1, <1>4 DEF Keeps

\* tick(): time passes for the timer, and a timeout retransmits.
LEMMA TickKeeps ==
  ASSUME NEW x, SenderInv(x), NEW ms \in Nat
  PROVE  Keeps(x, SenderTick(x, ms)) /\ SenderTick(x, ms).q.nextSeqno = x.q.nextSeqno
<1> DEFINE later == [x EXCEPT !.timer.msSinceBaseSegSent = @ + ms]
           timer == [x.timer EXCEPT !.msSinceBaseSegSent = x.timer.msSinceBaseSegSent + ms]
<1>1. /\ x = [q |-> x.q, timer |-> x.timer, isn |-> Isn, stream |-> x.stream,
              segmentsOut |-> x.segmentsOut]
      /\ x.timer \in Timers
  BY DEF SenderInv, IsSender
<1>2. timer \in Timers /\ (timer.isTimerRunning <=> x.timer.isTimerRunning)
  BY <1>1, SMTT(30) DEF Timers
<1> HIDE DEF timer
<1>3. later = [q |-> x.q, timer |-> timer, isn |-> Isn, stream |-> x.stream,
               segmentsOut |-> x.segmentsOut]
  BY <1>1, SMTT(30) DEF timer
<1> HIDE DEF later
<1>4. KeepsWith(x, later, x.q) /\ later.timer = timer
  BY <1>2, <1>3, RetimedKeeps
<1>5. later.timer.isTimerRunning =>
        /\ Keeps(later, TimeoutRetransmit(later))
        /\ TimeoutRetransmit(later).q.nextSeqno = later.q.nextSeqno
  BY <1>4, TimeoutKeeps DEF Keeps, KeepsWith
<1>6. CASE ~x.timer.isTimerRunning
  BY <1>6 DEF SenderTick, Keeps
<1>7. CASE x.timer.isTimerRunning /\ later.timer.msSinceBaseSegSent < x.timer.timeout
  <2>1. ~(later.timer.msSinceBaseSegSent >= x.timer.timeout)
    BY <1>1, <1>2, <1>4, <1>7, SMTT(30) DEF Timers
  <2>2. SenderTick(x, ms) = later
    BY <1>7, <2>1 DEF SenderTick, later
  <2> QED
    BY <1>4, <2>2 DEF KeepsWith
<1>8. CASE x.timer.isTimerRunning /\ ~(later.timer.msSinceBaseSegSent < x.timer.timeout)
  <2>1. later.timer.msSinceBaseSegSent >= x.timer.timeout
    BY <1>1, <1>2, <1>4, <1>8, SMTT(30) DEF Timers
  <2>2. SenderTick(x, ms) = TimeoutRetransmit(later)
    BY <1>8, <2>1 DEF SenderTick, later
  <2> QED
    BY <1>2, <1>4, <1>5, <1>8, <2>2 DEF Keeps, KeepsWith
<1> QED
  BY <1>6, <1>7, <1>8

\* send_empty_segment() and the owner's draining of segments_out() leave the rest alone.
LEMMA QueuingKeeps ==
  ASSUME NEW x, SenderInv(x), NEW out
  PROVE  /\ Keeps(x, [x EXCEPT !.segmentsOut = out])
         /\ [x EXCEPT !.segmentsOut = out].segmentsOut = out
         /\ [x EXCEPT !.segmentsOut = out].q = x.q
         /\ [x EXCEPT !.segmentsOut = out].timer = x.timer
<1>1. /\ x = [q |-> x.q, timer |-> x.timer, isn |-> Isn, stream |-> x.stream,
              segmentsOut |-> x.segmentsOut]
      /\ x.timer \in Timers
  BY DEF SenderInv, IsSender
<1>2. [x EXCEPT !.segmentsOut = out]
        = [q |-> x.q, timer |-> x.timer, isn |-> Isn, stream |-> x.stream, segmentsOut |-> out]
  BY <1>1, SMTT(30)
<1>3. /\ [x EXCEPT !.segmentsOut = out].segmentsOut = out
      /\ [x EXCEPT !.segmentsOut = out].q = x.q
      /\ [x EXCEPT !.segmentsOut = out].timer = x.timer
  BY <1>2
<1> QED
  BY <1>1, <1>2, <1>3, RetimedKeeps DEF KeepsWith

\* What an ack that is no news leaves of x: the window may change, and with it whether the
\* timeout doubles.
OnlyWindowSet(x, y) ==
  /\ y.q = [x.q EXCEPT !.winSize = y.q.winSize]
  /\ y.timer = [x.timer EXCEPT !.doubleTimeout = y.timer.doubleTimeout]

\* set_window_size() keeps the types and does no more than that.
LEMMA WindowSet ==
  ASSUME NEW x, SenderInv(x), NEW size \in Nat, NEW w, w = SetWindowSize(x, size)
  PROVE  IsSender(w) /\ OnlyWindowSet(x, w) /\ w.stream = x.stream /\ w.segmentsOut = x.segmentsOut
<1> DEFINE win == IF size > 0 THEN size ELSE 1
           double == (size # 0)
           q == [x.q EXCEPT !.winSize = win]
           timer == [x.timer EXCEPT !.doubleTimeout = double]
           half == [x EXCEPT !.timer.doubleTimeout = double]
<1>1. /\ x = [q |-> x.q, timer |-> x.timer, isn |-> Isn, stream |-> x.stream,
              segmentsOut |-> x.segmentsOut]
      /\ x.q \in UnAckQueues /\ x.timer \in Timers /\ x.stream \in Streams(Nat)
  BY DEF SenderInv, IsSender
<1>2. win \in Nat \ {0} /\ double \in BOOLEAN
  BY SMTT(30)
<1>3. w = [half EXCEPT !.q.winSize = win]
  BY DEF SetWindowSize
<1> HIDE DEF win, double
<1>4. q \in UnAckQueues /\ q.winSize = win /\ timer \in Timers /\ timer.doubleTimeout = double
  BY <1>1, <1>2 DEF UnAckQueues, Timers
<1>5. half = [q |-> x.q, timer |-> timer, isn |-> Isn, stream |-> x.stream,
              segmentsOut |-> x.segmentsOut]
  BY <1>1, SMTT(30)
<1> HIDE DEF half, timer
<1>6. w = [q |-> q, timer |-> timer, isn |-> Isn, stream |-> x.stream,
           segmentsOut |-> x.segmentsOut]
  BY <1>3, <1>5
<1> HIDE DEF q
<1>7. /\ w.q = q /\ w.timer = timer /\ w.stream = x.stream /\ IsSender(w)
      /\ w.segmentsOut = x.segmentsOut
  BY <1>1, <1>4, <1>6, SMTT(30) DEF IsSender
<1>8. /\ w.q = [x.q EXCEPT !.winSize = w.q.winSize]
      /\ w.timer = [x.timer EXCEPT !.doubleTimeout = w.timer.doubleTimeout]
  BY <1>4, <1>7 DEF q, timer
<1> QED
  BY <1>7, <1>8 DEF OnlyWindowSet

\* An ackno at most Half away from baseSqn is read as what it is.
LEMMA AcknoRead ==
  ASSUME NEW x, SenderInv(x), NEW a \in Nat, a <= x.q.nextSeqno
  PROVE  x.q.baseSqn \in Nat /\ Unwrap(Wrap(a, x.isn), x.isn, x.q.baseSqn) = a
<1>1. /\ x = [q |-> x.q, timer |-> x.timer, isn |-> Isn, stream |-> x.stream,
              segmentsOut |-> x.segmentsOut]
      /\ x.q \in UnAckQueues /\ x.stream \in Streams(Nat)
      /\ QueueInv(x.q, x.stream.numRead)
  BY DEF SenderInv, IsSender
<1>2. x.isn = Isn /\ Isn \in Int
  BY <1>1, SpecAssumption, SeqModAssumption, SMTT(30)
<1>3. x.stream.numRead \in Nat /\ x.stream.size \in Nat
  BY <1>1 DEF Streams
<1>4. x.q.baseSqn \in Nat /\ x.q.nextSeqno \in Nat /\ x.q.baseSqn <= x.q.nextSeqno
  BY <1>1, <1>3, EndsBounded DEF UnAckQueues
<1>5. x.q.nextSeqno <= StreamLen + 2
  <2> DEFINE syn == OneIf(x.q.synSent)
             fin == OneIf(x.q.finSent)
  <2>1. x.q.nextSeqno = syn + x.stream.numRead + fin
    BY <1>1 DEF QueueInv
  <2>2. syn \in 0..1 /\ fin \in 0..1
    BY SMTT(30) DEF OneIf
  <2>3. x.stream.numWritten = x.stream.numRead + x.stream.size /\ x.stream.numWritten <= StreamLen
    BY DEF SenderInv
  <2> HIDE DEF syn, fin
  <2> QED
    BY <1>3, <2>1, <2>2, <2>3, SpecAssumption, SMTT(30)
<1>6. x.q.baseSqn - a < Half /\ a - x.q.baseSqn <= Half
  BY <1>4, <1>5, SpecAssumption, HalfOfSeqMod, SMTT(30)
<1> QED
  BY <1>2, <1>4, <1>6, UnwrapNear

\* The window is not among what ties the queue together.
LEMMA WindowFree ==
  ASSUME NEW q \in UnAckQueues, NEW read \in Nat, QueueInv(q, read),
         NEW win \in Nat \ {0}, NEW r, r = [q EXCEPT !.winSize = win]
  PROVE  /\ r \in UnAckQueues /\ QueueInv(r, read)
         /\ r.baseSqn = q.baseSqn /\ r.nextSeqno = q.nextSeqno /\ r.ends = q.ends
         /\ r.synSent = q.synSent /\ r.synAcked = q.synAcked
<1>1. r \in UnAckQueues
  BY DEF UnAckQueues
<1>2. /\ r.unAcked = q.unAcked /\ r.ends = q.ends /\ r.synSent = q.synSent /\ r.synAcked = q.synAcked
      /\ r.finSent = q.finSent /\ r.finAcked = q.finAcked
      /\ r.baseSqn = q.baseSqn /\ r.nextSeqno = q.nextSeqno
  BY DEF UnAckQueues
<1>3. LastEnd(r) = LastEnd(q)
  BY <1>2, SMTT(30) DEF LastEnd
<1>4. QueueInv(r, read)
  BY <1>2, <1>3 DEF QueueInv
<1> QED
  BY <1>1, <1>2, <1>4

\* ack_received() of an ackno up to baseSqn, late or repeated.
LEMMA OldAckKeeps ==
  ASSUME NEW x, SenderInv(x), NEW a \in Nat, a >= 1, a <= x.q.baseSqn, NEW win \in Nat,
         NEW y, y = AckReceived(x, Wrap(a, x.isn), win)
  PROVE  Keeps(x, y) /\ OnlyWindowSet(x, y) /\ y.stream = x.stream /\ y.segmentsOut = x.segmentsOut
<1> DEFINE w == SetWindowSize(x, win)
<1>1. /\ x.q \in UnAckQueues /\ x.timer \in Timers /\ x.stream \in Streams(Nat)
      /\ QueueInv(x.q, x.stream.numRead)
  BY DEF SenderInv, IsSender
<1>2. x.stream.numRead \in Nat
  BY <1>1 DEF Streams
<1>3. x.q.baseSqn \in Nat /\ x.q.nextSeqno \in Nat /\ x.q.baseSqn <= x.q.nextSeqno
  BY <1>1, <1>2, EndsBounded DEF UnAckQueues
<1>4. Unwrap(Wrap(a, x.isn), x.isn, x.q.baseSqn) = a
  BY <1>3, AcknoRead, SMTT(30)
<1>5. a < x.q.baseSqn \/ a = x.q.baseSqn
  BY <1>3, SMTT(30)
<1>6. y = w
  BY <1>4, <1>5 DEF AckReceived
<1>7. /\ IsSender(w) /\ w.stream = x.stream /\ w.segmentsOut = x.segmentsOut
      /\ w.q = [x.q EXCEPT !.winSize = w.q.winSize]
      /\ w.timer = [x.timer EXCEPT !.doubleTimeout = w.timer.doubleTimeout]
  BY WindowSet, SMTT(30) DEF OnlyWindowSet
<1> HIDE DEF w
<1>8. w.q.winSize \in Nat \ {0}
  BY <1>7 DEF IsSender, UnAckQueues
<1>9. /\ QueueInv(w.q, x.stream.numRead) /\ w.q.baseSqn = x.q.baseSqn /\ w.q.nextSeqno = x.q.nextSeqno
      /\ w.q.synAcked = x.q.synAcked
  BY <1>1, <1>2, <1>7, <1>8, WindowFree, SMTT(30)
<1>10. x.q.synAcked
  <2>1. x.q.baseSqn # 0
    BY <1>3, SMTT(30)
  <2> QED
    BY <1>1, <2>1 DEF QueueInv
<1>11. w.timer.isTimerRunning = x.timer.isTimerRunning
  BY <1>1, <1>7 DEF Timers
<1>12. Keeps(x, w)
  BY <1>7, <1>9, <1>10, <1>11 DEF Keeps, SenderInv
<1> QED
  BY <1>6, <1>7, <1>12 DEF OnlyWindowSet

\* The queue of y is the one of x after updateBase(), whatever the window.
BaseUpdated(x, a, y) == \E win \in Nat \ {0} : y.q = UpdateBase([x.q EXCEPT !.winSize = win], a)

\* ack_received() of an ackno past baseSqn, the end of a segment under way.
LEMMA NewAckKeeps ==
  ASSUME NEW x, SenderInv(x), x.q.synSent,
         NEW a \in Nat, a > x.q.baseSqn, a <= x.q.nextSeqno, NEW win \in Nat,
         a = x.q.nextSeqno \/ \E k \in DOMAIN x.q.ends : x.q.ends[k] = a,
         NEW y, y = AckReceived(x, Wrap(a, x.isn), win)
  PROVE  /\ SenderInv(y) /\ y.q.baseSqn = a /\ y.q.nextSeqno = x.q.nextSeqno
         /\ y.stream = x.stream /\ y.segmentsOut = x.segmentsOut
         /\ y.timer.consecutiveRetransmissions = 0
         /\ BaseUpdated(x, a, y)
<1> DEFINE w == SetWindowSize(x, win)
           q == UpdateBase(w.q, a)
           outstanding == ~QueueEmpty(q) \/ (q.finSent /\ ~q.finAcked)
           timer == IF outstanding THEN StartTimer(w.timer) ELSE StopTimer(w.timer)
<1>1. /\ x.q \in UnAckQueues /\ x.timer \in Timers /\ x.stream \in Streams(Nat)
      /\ QueueInv(x.q, x.stream.numRead)
  BY DEF SenderInv, IsSender
<1>2. x.stream.numRead \in Nat /\ x.q.baseSqn \in Nat /\ x.q.nextSeqno \in Nat
  BY <1>1 DEF Streams, UnAckQueues
<1>3. Unwrap(Wrap(a, x.isn), x.isn, x.q.baseSqn) = a
  BY AcknoRead
<1>4. ~(a > x.q.nextSeqno) /\ a # 0 /\ ~(a < x.q.baseSqn) /\ a # x.q.baseSqn
  BY <1>2, SMTT(30)
<1>5. y = [w EXCEPT !.q = q, !.timer = timer]
  BY <1>3, <1>4 DEF AckReceived
<1>6. /\ IsSender(w) /\ w.stream = x.stream /\ w.segmentsOut = x.segmentsOut
      /\ w.q = [x.q EXCEPT !.winSize = w.q.winSize]
      /\ w = [q |-> w.q, timer |-> w.timer, isn |-> Isn, stream |-> x.stream,
              segmentsOut |-> w.segmentsOut]
  <2>1. IsSender(w) /\ OnlyWindowSet(x, w) /\ w.stream = x.stream /\ w.segmentsOut = x.segmentsOut
    BY WindowSet
  <2> HIDE DEF w
  <2> QED
    BY <2>1 DEF OnlyWindowSet, IsSender
<1> HIDE DEF w
<1>7. w.q.winSize \in Nat \ {0} /\ w.timer \in Timers
  BY <1>6 DEF IsSender, UnAckQueues
<1>8. /\ w.q \in UnAckQueues /\ QueueInv(w.q, x.stream.numRead) /\ w.q.synSent
      /\ w.q.baseSqn = x.q.baseSqn /\ w.q.nextSeqno = x.q.nextSeqno /\ w.q.ends = x.q.ends
  BY <1>1, <1>2, <1>6, <1>7, WindowFree, SMTT(30)
<1>9. StartsAt(q, a, x.stream.numRead)
  <2>1. a > w.q.baseSqn /\ (a = w.q.nextSeqno \/ \E k \in DOMAIN w.q.ends : w.q.ends[k] = a)
    BY <1>8
  <2> QED
    BY <1>2, <1>8, <2>1, UpdateBaseKeeps, SMTT(30)
<1>17. q.nextSeqno = x.q.nextSeqno
  BY <1>8, AckSendsNothing
<1>18. \E win0 \in Nat \ {0} : q = UpdateBase([x.q EXCEPT !.winSize = win0], a)
  BY <1>6, <1>7
<1> HIDE DEF q
<1>10. q \in UnAckQueues /\ QueueInv(q, x.stream.numRead) /\ q.baseSqn = a /\ q.synAcked
  BY <1>9 DEF StartsAt
<1>11. outstanding <=> q.nextSeqno > q.baseSqn
  BY <1>2, <1>10, OutstandingIsInFlight
<1> HIDE DEF outstanding
<1>12. timer \in Timers /\ (timer.isTimerRunning <=> outstanding)
  BY <1>7, TimerTypes
<1>19. timer.consecutiveRetransmissions = 0
  BY <1>7 DEF Timers, StartTimer, StopTimer
<1> HIDE DEF timer
<1> DEFINE half == [w EXCEPT !.q = q]
<1>13. half = [q |-> q, timer |-> w.timer, isn |-> Isn, stream |-> x.stream,
               segmentsOut |-> w.segmentsOut]
  BY <1>6, SMTT(30)
<1>14. y = [half EXCEPT !.timer = timer]
  BY <1>5
<1> HIDE DEF half
<1>15. y = [q |-> q, timer |-> timer, isn |-> Isn, stream |-> x.stream,
            segmentsOut |-> w.segmentsOut]
  BY <1>13, <1>14, SMTT(30)
<1>16. y.q = q /\ y.timer = timer /\ y.stream = x.stream /\ IsSender(y)
  BY <1>1, <1>10, <1>12, <1>15, SMTT(30) DEF IsSender
<1>20. y.segmentsOut = x.segmentsOut
  BY <1>6, <1>15, SMTT(30)
<1>21. SenderInv(y) /\ y.q.baseSqn = a
  BY <1>10, <1>11, <1>12, <1>16, <1>17 DEF SenderInv
<1>22. BaseUpdated(x, a, y)
  BY <1>16, <1>18 DEF BaseUpdated
<1> QED
  BY <1>16, <1>17, <1>19, <1>20, <1>21, <1>22

(* The specification *)

\* A call that keeps the sender in order, and does not move baseSqn, keeps the invariant if
\* the peer is not involved.
LEMMA CallKeeps ==
  ASSUME Inv, NEW t, Keeps(s, t), Call(t), UNCHANGED <<peer, late>>
  PROVE  Inv'
<1>1. SenderInv(t) /\ t.q.baseSqn = s.q.baseSqn
  BY DEF Keeps
<1>2. SenderInv(s') /\ s'.segmentsOut = <<>> /\ s'.q.baseSqn = t.q.baseSqn
  BY <1>1, QueuingKeeps DEF Call, Keeps
<1> QED
  BY <1>1, <1>2 DEF Inv, SenderInv, IsSender

\* The states a TCPSender starts in.
LEMMA InitInv == Init => Inv
<1> SUFFICES ASSUME Init PROVE Inv
  OBVIOUS
<1>1. /\ s.q = NewUnAckQueue /\ s.timer = NewTimer /\ s.stream = NewByteStream(Capacity)
      /\ s.segmentsOut = <<>>
      /\ s = [q |-> s.q, timer |-> s.timer, isn |-> Isn, stream |-> s.stream,
              segmentsOut |-> s.segmentsOut]
  BY DEF Init, NewTCPSender
<1>2. <<>> \in Seq(Nat) /\ Len(<<>>) = 0
  BY EmptyIsSeq
<1>3. s.q \in UnAckQueues
  BY <1>1, <1>2, SMTT(30) DEF NewUnAckQueue, UnAckQueues
<1>4. s.timer \in Timers
  BY <1>1, SenderAssumption, SMTT(30) DEF NewTimer, Timers
<1>5. s.stream \in Streams(Nat)
  BY <1>1, <1>2, SpecAssumption, SMTT(30) DEF NewByteStream, Streams
<1>6. QueueInv(s.q, 0)
  BY <1>1, <1>2, SMTT(30) DEF QueueInv, NewUnAckQueue, LastEnd, OneIf, Ascending
<1>7. s.stream.numRead = 0 /\ s.stream.numWritten = 0 /\ s.stream.size = 0
  BY <1>1, SMTT(30) DEF NewByteStream
<1>8. s.q.winSize = 1 /\ s.q.baseSqn = 0 /\ s.q.nextSeqno = 0 /\ ~s.timer.isTimerRunning
  BY <1>1, SMTT(30) DEF NewUnAckQueue, NewTimer
<1>9. IsSender(s)
  BY <1>1, <1>3, <1>4, <1>5 DEF IsSender
<1>10. SenderInv(s)
  BY <1>6, <1>7, <1>8, <1>9, SpecAssumption, SMTT(30) DEF SenderInv
<1> QED
  BY <1>1, <1>8, <1>10 DEF Init, Inv

\* ack_received() for an ack of something that is in flight, or of nothing new.
LEMMA AcceptableAck ==
  ASSUME Inv, s.q.synSent, NEW ackno \in Acceptable, ackno >= 1, NEW win \in Nat,
         NEW t, t = AckReceived(s, Wrap(ackno, s.isn), win)
  PROVE  /\ SenderInv(t) /\ t.q.baseSqn = ackno /\ t.q.nextSeqno = s.q.nextSeqno
         /\ ackno \in Nat /\ ackno >= s.q.baseSqn
<1>1. /\ SenderInv(s) /\ s.stream \in Streams(Nat) /\ s.q \in UnAckQueues
      /\ QueueInv(s.q, s.stream.numRead) /\ peer.ackno = s.q.baseSqn
  BY DEF Inv, SenderInv, IsSender
<1>2. s.stream.numRead \in Nat
  BY <1>1 DEF Streams
<1>3. /\ s.q.baseSqn \in Nat /\ s.q.nextSeqno \in Nat /\ s.q.baseSqn <= s.q.nextSeqno
      /\ \A k \in DOMAIN s.q.ends : s.q.ends[k] \in Nat /\ s.q.ends[k] <= s.q.nextSeqno
  <2>1. /\ LastEnd(s.q) \in Nat /\ LastEnd(s.q) <= s.q.nextSeqno
        /\ s.q.baseSqn <= s.q.nextSeqno
        /\ \A k \in DOMAIN s.q.ends : s.q.ends[k] \in Nat /\ s.q.ends[k] <= LastEnd(s.q)
    BY <1>1, <1>2, EndsBounded
  <2>2. s.q.baseSqn \in Nat /\ s.q.nextSeqno \in Nat
    BY <1>1 DEF UnAckQueues
  <2> QED
    BY <2>1, <2>2, SMTT(30)
<1>4. /\ ackno >= s.q.baseSqn
      /\ \/ ackno = s.q.baseSqn
         \/ ackno = s.q.nextSeqno
         \/ \E k \in DOMAIN s.q.ends : s.q.ends[k] = ackno
  BY <1>1 DEF Acceptable
<1>5. ackno \in Nat /\ ackno <= s.q.nextSeqno
  BY <1>3, <1>4, SMTT(30)
<1>6. CASE ackno = s.q.baseSqn
  <2>1. Keeps(s, t) /\ OnlyWindowSet(s, t)
    BY <1>1, <1>3, <1>5, <1>6, OldAckKeeps, SMTT(30)
  <2>2. t.q.nextSeqno = s.q.nextSeqno
    BY <1>1, <2>1 DEF OnlyWindowSet, UnAckQueues
  <2> QED
    BY <1>4, <1>5, <1>6, <2>1, <2>2 DEF Keeps
<1>7. CASE ackno > s.q.baseSqn
  <2>1. ackno = s.q.nextSeqno \/ \E k \in DOMAIN s.q.ends : s.q.ends[k] = ackno
    BY <1>3, <1>4, <1>5, <1>7, SMTT(30)
  <2> QED
    BY <1>1, <1>4, <1>5, <1>7, <2>1, NewAckKeeps, SMTT(30)
<1> QED
  BY <1>3, <1>4, <1>5, <1>6, <1>7, SMTT(30)

\* Every step keeps the invariant.
LEMMA NextInv == Inv /\ [Next]_vars => Inv'
<1> SUFFICES ASSUME Inv, [Next]_vars PROVE Inv'
  OBVIOUS
<1>1. /\ SenderInv(s) /\ IsSender(s) /\ s.stream \in Streams(Nat) /\ s.q \in UnAckQueues
      /\ QueueInv(s.q, s.stream.numRead) /\ s.segmentsOut = <<>>
  BY DEF Inv, SenderInv, IsSender
<1>2. /\ s.stream.numRead \in Nat /\ s.stream.size \in Nat /\ s.stream.numWritten \in Nat
      /\ s.stream.numWritten = s.stream.numRead + s.stream.size /\ s.stream.numWritten <= StreamLen
  BY <1>1 DEF Streams, SenderInv
<1>3. ASSUME NEW len \in 1..StreamLen, AppWrite(len)
      PROVE  Inv'
  <2> DEFINE data == [i \in 1..len |-> s.stream.numWritten + i]
             n == ToWrite(s.stream, data)
             str == Write(s.stream, data)
  <2>1. len \in Nat /\ \A i \in 1..len : s.stream.numWritten + i \in Nat
    BY <1>2, SpecAssumption, SMTT(30)
  <2>2. data \in Seq(Nat) /\ Len(data) = len
    BY <2>1, FunctionIsSeq
  <2> HIDE DEF data
  <2>3. n \in 0..len
    BY <1>1, <2>2, ToWriteFits, SMTT(30)
  <2>4. str \in Streams(Nat)
    BY <1>1, <2>2, WriteAppends
  <2>5. /\ str.numRead = s.stream.numRead /\ str.size = s.stream.size + n
        /\ str.numWritten = s.stream.numWritten + n
    BY <1>1, <2>2, WriteCounts
  <2> HIDE DEF n, str
  <2>6. s.stream.numWritten + len <= StreamLen
    BY <1>3 DEF AppWrite
  <2>7. str.numWritten = str.numRead + str.size /\ str.numWritten <= StreamLen
    BY <1>2, <2>1, <2>3, <2>5, <2>6, SpecAssumption, SMTT(30)
  <2>8. KeepsWith(s, [s EXCEPT !.stream = str], s.q)
    BY <1>1, <2>4, <2>5, <2>7, StreamKeeps
  <2>9. Call([s EXCEPT !.stream = str]) /\ UNCHANGED <<peer, late>>
    BY <1>3 DEF AppWrite, str, data
  <2> QED
    BY <2>8, <2>9, CallKeeps DEF KeepsWith
<1>4. CASE AppEndInput
  <2> DEFINE str == EndInput(s.stream)
  <2>1. /\ str \in Streams(Nat) /\ str.numRead = s.stream.numRead /\ str.size = s.stream.size
        /\ str.numWritten = s.stream.numWritten
    BY <1>1 DEF EndInput, Streams
  <2>2. Call([s EXCEPT !.stream = str]) /\ UNCHANGED <<peer, late>>
    BY <1>4 DEF AppEndInput
  <2> HIDE DEF str
  <2>3. KeepsWith(s, [s EXCEPT !.stream = str], s.q)
    BY <1>1, <1>2, <2>1, StreamKeeps
  <2> QED
    BY <2>2, <2>3, CallKeeps DEF KeepsWith
<1>5. CASE CallFillWindow
  BY <1>1, <1>5, FillWindowKeeps, CallKeeps DEF CallFillWindow
<1>6. CASE CallSendEmptySegment
  <2>1. Keeps(s, SendEmptySegment(s))
    BY <1>1, QueuingKeeps DEF SendEmptySegment
  <2> QED
    BY <1>6, <2>1, CallKeeps DEF CallSendEmptySegment
<1>7. CASE CallTick
  <2>1. Keeps(s, SenderTick(s, 1))
    BY <1>1, TickKeeps
  <2> QED
    BY <1>7, <2>1, CallKeeps DEF CallTick
<1>8. ASSUME NEW ackno \in Acceptable, NEW win \in 0..MaxWin, ArriveAck(ackno, win)
      PROVE  Inv'
  <2> DEFINE t == AckReceived(s, Wrap(ackno, s.isn), win)
  <2>1. /\ s.q.synSent /\ ackno >= 1 /\ peer' = [ackno |-> ackno, win |-> win] /\ Call(t)
        /\ late' = late \/ late' = late \cup {peer'}
    BY <1>8 DEF ArriveAck
  <2>2. s.q.baseSqn \in Nat
    BY <1>1 DEF UnAckQueues
  <2>3. win \in Nat
    BY SpecAssumption, SMTT(30)
  <2>4. SenderInv(t) /\ t.q.baseSqn = ackno /\ ackno \in Nat /\ ackno >= s.q.baseSqn
    BY <2>1, <2>3, AcceptableAck
  <2> HIDE DEF t
  <2>5. SenderInv(t) /\ t.q.baseSqn = ackno
    BY <2>4
  <2>6. SenderInv(s') /\ s'.segmentsOut = <<>> /\ s'.q.baseSqn = ackno
    BY <2>1, <2>5, QueuingKeeps DEF Call, Keeps
  <2>7. peer'.ackno = ackno /\ peer'.win = win
    BY <2>1
  <2>8. \A ack \in late' : ack.ackno \in 1..s'.q.baseSqn /\ ack.win \in Nat
    <3> TAKE ack \in late'
    <3>1. CASE ack \in late
      <4>1. ack.ackno \in 1..s.q.baseSqn /\ ack.win \in Nat
        BY <3>1 DEF Inv
      <4> QED
        BY <2>1, <2>2, <2>4, <2>6, <4>1, SMTT(30)
    <3>2. CASE ack = peer'
      <4>1. ack.ackno = ackno /\ ack.win = win
        BY <2>7, <3>2
      <4> QED
        BY <2>1, <2>3, <2>4, <2>6, <4>1, SMTT(30)
    <3> QED
      BY <2>1, <3>1, <3>2
  <2> QED
    BY <2>6, <2>7, <2>8 DEF Inv, SenderInv, IsSender
<1>9. ASSUME NEW ack \in late, ArriveLateAck(ack)
      PROVE  Inv'
  <2>1. ack.ackno \in 1..s.q.baseSqn /\ ack.win \in Nat /\ s.q.baseSqn \in Nat
    BY <1>1 DEF Inv, UnAckQueues
  <2>2. Keeps(s, AckReceived(s, Wrap(ack.ackno, s.isn), ack.win))
    BY <1>1, <2>1, OldAckKeeps, SMTT(30)
  <2> QED
    BY <1>9, <2>2, CallKeeps DEF ArriveLateAck
<1>10. CASE UNCHANGED vars
  BY <1>10 DEF vars, Inv, SenderInv, IsSender
<1> QED
  BY <1>3, <1>4, <1>5, <1>6, <1>7, <1>8, <1>9, <1>10 DEF Next

\* The invariant holds in every state of every behaviour.
LEMMA SpecInv == Spec => []Inv
<1> QED
  BY InitInv, NextInv, PTL DEF Spec

\* The members of TCPSender's queue, timer and stream have their types, its window is never
\* taken to be 0, nothing is erased past the end of a deque, and the stream stays within its
\* capacity: for every capacity, payload size, timeout and initial sequence number.
THEOREM SenderTypes == Spec => []TypeOK
<1>1. Inv => TypeOK
  <2> SUFFICES ASSUME Inv PROVE TypeOK
    OBVIOUS
  <2>1. IsSender(s) /\ s.segmentsOut = <<>>
    BY DEF Inv, SenderInv
  <2>2. s.isn = Isn
    BY <2>1, SMTT(30) DEF IsSender
  <2> QED
    BY <2>1, <2>2 DEF TypeOK, IsSender
<1> QED
  BY <1>1, SpecInv, PTL

\* _next_seqno, _baseSqn, the unacknowledged bytes and the recorded sizes account for the same
\* sequence numbers after any run of calls and acks: no byte is lost or counted twice between
\* the stream and the queue.
THEOREM SenderAccounts == Spec => []SequenceSpaceAccounted
<1>1. Inv => SequenceSpaceAccounted
  BY DEF Inv, SenderInv, IsSender, QueueInv, UnAckQueues, SequenceSpaceAccounted
<1> QED
  BY <1>1, SpecInv, PTL

\* The retransmission timer runs exactly while something is outstanding, whatever window the
\* peer advertises and whichever acks come late.
THEOREM SenderTimer == Spec => []TimerRunsWhileOutstanding
<1>1. Inv => TimerRunsWhileOutstanding
  BY DEF Inv, SenderInv, TimerRunsWhileOutstanding
<1> QED
  BY <1>1, SpecInv, PTL

\* An ack that arrives late takes nothing back: unwrap() reads it as the old number it is.
THEOREM SenderLateAcks == Spec => LateAckMovesNothing
<1>1. ASSUME Inv, NEW ack \in late, ack.ackno < s.q.baseSqn, ArriveLateAck(ack)
      PROVE  /\ s'.q = [s.q EXCEPT !.winSize = s'.q.winSize]
             /\ s'.timer = [s.timer EXCEPT !.doubleTimeout = s'.timer.doubleTimeout]
  <2> DEFINE t == AckReceived(s, Wrap(ack.ackno, s.isn), ack.win)
  <2>1. SenderInv(s) /\ ack.ackno \in 1..s.q.baseSqn /\ ack.win \in Nat /\ s.q.baseSqn \in Nat
    BY <1>1 DEF Inv, SenderInv, IsSender, UnAckQueues
  <2>2. SenderInv(t) /\ OnlyWindowSet(s, t)
    BY <2>1, OldAckKeeps, SMTT(30) DEF Keeps
  <2>3. s' = [t EXCEPT !.segmentsOut = <<>>]
    BY <1>1 DEF ArriveLateAck, Call
  <2> HIDE DEF t
  <2>4. s'.q = t.q /\ s'.timer = t.timer
    BY <2>2, <2>3, QueuingKeeps
  <2> QED
    BY <2>2, <2>4 DEF OnlyWindowSet
<1>2. Inv /\ [Next]_vars =>
        [(\E ack \in late : ack.ackno < s.q.baseSqn /\ ArriveLateAck(ack)) =>
           /\ s'.q = [s.q EXCEPT !.winSize = s'.q.winSize]
           /\ s'.timer = [s.timer EXCEPT !.doubleTimeout = s'.timer.doubleTimeout]]_vars
  BY <1>1
<1> QED
  BY <1>2, SpecInv, PTL DEF Spec, LateAckMovesNothing

\* No window is outrun: while the window that the sender goes by holds all that is in flight,
\* fill_window() sends nothing past its right edge, and no other call sends anything new.
THEOREM SenderStaysInWindow == Spec => StaysInNewestWindow
<1> DEFINE Edge == peer.ackno + s.q.winSize
           Stays == (s.q.nextSeqno <= Edge /\ s'.q.nextSeqno > s.q.nextSeqno) => s'.q.nextSeqno <= Edge
<1>1. ASSUME Inv, [Next]_vars
      PROVE  Stays
  <2>1. /\ SenderInv(s) /\ IsSender(s) /\ s.q \in UnAckQueues /\ peer.ackno = s.q.baseSqn
        /\ s.q.nextSeqno \in Nat
    BY <1>1 DEF Inv, SenderInv, IsSender, UnAckQueues
  <2>2. ASSUME NEW t, SenderInv(t), Call(t)
        PROVE  s'.q.nextSeqno = t.q.nextSeqno
    BY <2>2, QueuingKeeps DEF Call
  <2>3. s'.q.nextSeqno = s.q.nextSeqno => Stays
    BY <2>1
  <2>4. ASSUME NEW str, Call([s EXCEPT !.stream = str])
        PROVE  Stays
    BY <2>1, <2>3, <2>4 DEF Call, IsSender
  <2>5. CASE CallFillWindow
    <3>1. SenderInv(FillWindow(s)) /\ InWindow(s, FillWindow(s))
      BY <2>1, FillWindowKeeps, FillWindowInWindow DEF Keeps
    <3>2. Call(FillWindow(s))
      BY <2>5 DEF CallFillWindow
    <3>3. s'.q.nextSeqno = FillWindow(s).q.nextSeqno
      BY <2>2, <3>1, <3>2
    <3> QED
      BY <2>1, <3>1, <3>3 DEF InWindow
  <2>6. CASE CallSendEmptySegment
    <3>1. SenderInv(SendEmptySegment(s)) /\ SendEmptySegment(s).q = s.q
      BY <2>1, QueuingKeeps DEF SendEmptySegment, Keeps
    <3> QED
      BY <2>2, <2>3, <2>6, <3>1 DEF CallSendEmptySegment
  <2>7. CASE CallTick
    <3>1. SenderInv(SenderTick(s, 1)) /\ SenderTick(s, 1).q.nextSeqno = s.q.nextSeqno
      BY <2>1, TickKeeps DEF Keeps
    <3> QED
      BY <2>2, <2>3, <2>7, <3>1 DEF CallTick
  <2>8. ASSUME NEW ackno \in Acceptable, NEW win \in 0..MaxWin, ArriveAck(ackno, win)
        PROVE  Stays
    <3> DEFINE t == AckReceived(s, Wrap(ackno, s.isn), win)
    <3>1. s.q.synSent /\ ackno >= 1 /\ Call(t) /\ win \in Nat
      BY <2>8, SpecAssumption, SMTT(30) DEF ArriveAck
    <3>2. SenderInv(t) /\ t.q.nextSeqno = s.q.nextSeqno
      BY <1>1, <3>1, AcceptableAck
    <3> HIDE DEF t
    <3> QED
      BY <2>2, <2>3, <3>1, <3>2
  <2>9. ASSUME NEW ack \in late, ArriveLateAck(ack)
        PROVE  Stays
    <3> DEFINE t == AckReceived(s, Wrap(ack.ackno, s.isn), ack.win)
    <3>1. ack.ackno \in 1..s.q.baseSqn /\ ack.win \in Nat /\ s.q.baseSqn \in Nat /\ Call(t)
      BY <1>1, <2>1, <2>9 DEF Inv, UnAckQueues, ArriveLateAck
    <3>2. SenderInv(t) /\ OnlyWindowSet(s, t)
      BY <2>1, <3>1, OldAckKeeps, SMTT(30) DEF Keeps
    <3> HIDE DEF t
    <3>3. t.q.nextSeqno = s.q.nextSeqno
      BY <2>1, <3>2 DEF OnlyWindowSet, UnAckQueues
    <3> QED
      BY <2>2, <2>3, <3>1, <3>2, <3>3, SMTT(30)
  <2>10. CASE UNCHANGED vars
    BY <2>3, <2>10 DEF vars
  <2> HIDE DEF Stays
  <2>11. CASE Next
    <3>1. ASSUME NEW len \in 1..StreamLen, AppWrite(len)
          PROVE  Stays
      BY <2>4, <3>1 DEF AppWrite
    <3>2. CASE AppEndInput
      BY <2>4, <3>2 DEF AppEndInput
    <3> QED
      BY <2>5, <2>6, <2>7, <2>8, <2>9, <2>11, <3>1, <3>2 DEF Next
  <2> QED
    BY <1>1, <2>10, <2>11, SMTT(30)
<1>2. Inv /\ [Next]_vars =>
        [LET edge == peer.ackno + NewestWindow
         IN  (s.q.winSize = NewestWindow /\ s.q.nextSeqno <= edge
                /\ s'.q.nextSeqno > s.q.nextSeqno) =>
               s'.q.nextSeqno <= edge]_vars
  BY <1>1
<1> QED
  BY <1>2, SpecInv, PTL DEF Spec, StaysInNewestWindow

(* The bytes *)

\* q holds the bytes with sequence numbers first, first + 1, ...
Run(q, first) == \A j \in 1..Len(q) : q[j] = first + j - 1

\* A run of bytes behind another is one run.
LEMMA RunConcat ==
  ASSUME NEW a \in Seq(Nat), NEW b \in Seq(Nat), NEW n \in Nat, Run(a, n), NEW m \in Nat, m = n + Len(a), Run(b, m)
  PROVE  Run(a \o b, n)
<1> SUFFICES ASSUME NEW j \in 1..Len(a \o b) PROVE (a \o b)[j] = n + j - 1
  BY DEF Run
<1>1. Len(a) \in Nat /\ Len(b) \in Nat /\ Len(a \o b) = Len(a) + Len(b)
  BY SeqIsFunction, ConcatElements
<1>2. CASE j <= Len(a)
  <2>1. j \in 1..Len(a) /\ (a \o b)[j] = a[j]
    BY <1>1, <1>2, ConcatElements, SMTT(30)
  <2> QED
    BY <2>1 DEF Run
<1>3. CASE j > Len(a)
  <2> DEFINE i == j - Len(a)
  <2>1. i \in 1..Len(b) /\ (a \o b)[j] = b[i]
    BY <1>1, <1>3, ConcatElements, SMTT(30)
  <2>2. b[i] = m + i - 1
    BY <2>1 DEF Run
  <2>3. m + i - 1 = n + j - 1
    BY <1>1, SMTT(30)
  <2> QED
    BY <2>1, <2>2, <2>3
<1> QED
  BY <1>1, <1>2, <1>3, SMTT(30)

\* A part of a run is a run.
LEMMA RunPart ==
  ASSUME NEW q \in Seq(Nat), NEW n \in Nat, Run(q, n), NEW m \in Nat, NEW k \in 0..Len(q)
  PROVE  /\ SubSeq(q, m + 1, k) \in Seq(Nat) /\ Run(SubSeq(q, m + 1, k), n + m)
         /\ Len(SubSeq(q, m + 1, k)) = IF m <= k THEN k - m ELSE 0
<1>1. Len(q) \in Nat /\ \A i \in m + 1..k : q[i] \in Nat
  BY SeqIsFunction, ElementType, SMTT(30)
<1> DEFINE p == SubSeq(q, m + 1, k)
<1>2. p \in Seq(Nat) /\ Len(p) = IF m + 1 <= k THEN k - (m + 1) + 1 ELSE 0
  BY <1>1, SubSeqElements, SMTT(30)
<1>3. \A j \in 1..Len(p) : p[j] = q[m + 1 + j - 1]
  BY <1>1, SubSeqElements, SMTT(30)
<1> HIDE DEF p
<1>4. Len(p) = IF m <= k THEN k - m ELSE 0
  BY <1>1, <1>2, SMTT(30)
<1>5. ASSUME NEW j \in 1..Len(p) PROVE p[j] = n + m + j - 1
  <2>1. m + j \in 1..Len(q) /\ m + 1 + j - 1 = m + j
    BY <1>1, <1>4, SMTT(30)
  <2>2. q[m + j] = n + (m + j) - 1
    BY <2>1 DEF Run
  <2> QED
    BY <1>3, <2>1, <2>2, SMTT(30)
<1>6. Run(p, n + m)
  BY <1>5 DEF Run
<1> QED
  BY <1>2, <1>4, <1>6 DEF p

Segments ==
  [seqno : Nat, syn : BOOLEAN, fin : BOOLEAN, rst : {FALSE}, ack : {FALSE},
   ackno : {0}, win : {0}, payload : Seq(Nat)]

\* A segment that starts at n and belongs to stream str.
CarriesFrom(seg, n, str) ==
  /\ seg.seqno = Wrap(n, Isn) /\ Run(seg.payload, n)
  /\ seg.syn => n = 0
  /\ seg.fin => str.isInputEnd /\ n + Len(seg.payload) + OneIf(seg.syn) = str.numWritten + 1

Carried(str) == {seg \in Segments : \E n \in 0..StreamLen + 2 : CarriesFrom(seg, n, str)}

\* A segment whose payload is the run at its number carries the stream.
LEMMA SegmentCarried ==
  ASSUME NEW str, NEW n \in 0..StreamLen + 2, NEW syn \in BOOLEAN, NEW fin \in BOOLEAN, NEW payload \in Seq(Nat),
         Run(payload, n), syn => n = 0,
         fin => str.isInputEnd /\ n + Len(payload) + OneIf(syn) = str.numWritten + 1
  PROVE  Segment(Wrap(n, Isn), syn, fin, payload) \in Carried(str)
<1> DEFINE seqno == Wrap(n, Isn)
           seg == Segment(seqno, syn, fin, payload)
<1>1. seqno \in Nat
  <2>1. Isn + n \in Int
    BY SpecAssumption, SeqModAssumption, SMTT(30)
  <2> QED
    BY <2>1, ModRange, SeqModAssumption, SMTT(30) DEF Wrap
<1> HIDE DEF seqno
<1>2. seg \in Segments
  BY <1>1 DEF Segment, Segments
<1>3. seg.seqno = seqno /\ seg.payload = payload
  BY DEF Segment
<1>4. seg.syn = syn
  BY DEF Segment
<1>5. seg.fin = fin
  BY DEF Segment
<1> HIDE DEF seg
<1>6. CarriesFrom(seg, n, str)
  BY <1>3, <1>4, <1>5 DEF CarriesFrom, seqno
<1>7. seg \in Carried(str)
  BY <1>2, <1>6 DEF Carried
<1> QED
  BY <1>7 DEF seg, seqno

\* The bytes under way start at baseSqn, the ones that wait follow them, a FIN was sent behind
\* the last byte only, and every segment queued is one of the stream.
Content(t) ==
  /\ Run(t.q.unAcked, t.q.baseSqn) /\ Run(t.stream.buf, t.stream.numRead + 1)
  /\ t.q.finSent => Eof(t.stream)
  /\ t.segmentsOut \in Seq(Carried(t.stream))

\* Carried() depends on the end of the stream alone.
LEMMA CarriedSame ==
  ASSUME NEW a, NEW b, a.isInputEnd = b.isInputEnd, a.numWritten = b.numWritten
  PROVE  Carried(a) = Carried(b)
BY DEF Carried, CarriesFrom

\* The call sends segments of the stream, and none of them is a retransmission.
Sends(x, y) ==
  Content(y) /\ y.timer.consecutiveRetransmissions <= x.timer.consecutiveRetransmissions

Queues(q, timer, str, out, segs, y) ==
  /\ y.q = q /\ y.stream = str /\ y.segmentsOut = out \o segs
  /\ y.timer.consecutiveRetransmissions <= timer.consecutiveRetransmissions

\* firstPush() queues the segments.
LEMMA FirstPushQueues ==
  ASSUME NEW q, NEW timer, NEW str, NEW out, NEW segs, NEW x,
         x = [q |-> q, timer |-> timer, isn |-> Isn, stream |-> str, segmentsOut |-> out], timer \in Timers
  PROVE  Queues(q, timer, str, out, segs, FirstPush(x, segs))
<1> DEFINE t == IF segs = <<>> \/ x.timer.isTimerRunning THEN x.timer ELSE StartTimer(x.timer)
           all == out \o segs
           y == [x EXCEPT !.segmentsOut = all]
<1>1. FirstPush(x, segs) = [[x EXCEPT !.segmentsOut = x.segmentsOut \o segs] EXCEPT !.timer = t]
  BY DEF FirstPush
<1>2. x.segmentsOut = out
  OBVIOUS
<1>3. FirstPush(x, segs) = [y EXCEPT !.timer = t]
  BY <1>1, <1>2
<1>5. t.consecutiveRetransmissions <= timer.consecutiveRetransmissions
  <2>1. CASE t = timer
    BY <2>1, SMTT(30) DEF Timers
  <2>2. CASE t = StartTimer(timer)
    <3>1. StartTimer(timer).consecutiveRetransmissions = 0
      BY DEF StartTimer, Timers
    <3> QED
      BY <2>2, <3>1, SMTT(30) DEF Timers
  <2>3. x.timer = timer
    OBVIOUS
  <2> HIDE DEF t
  <2>4. t = timer \/ t = StartTimer(timer)
    BY <2>3 DEF t
  <2> QED
    BY <2>1, <2>2, <2>4
<1> HIDE DEF t, all
<1>4. y = [q |-> q, timer |-> timer, isn |-> Isn, stream |-> str, segmentsOut |-> all]
  BY SMTT(30)
<1> HIDE DEF y
<1>6. LET z == FirstPush(x, segs)
      IN  z.q = q /\ z.stream = str /\ z.segmentsOut = all /\ z.timer = t
  BY <1>3, <1>4
<1> QED
  BY <1>5, <1>6 DEF all, Queues

\* write() appends the accepted prefix to the buffer.
LEMMA WriteBytes ==
  ASSUME NEW B, NEW str \in Streams(B), NEW data \in Seq(B)
  PROVE  Write(str, data).buf = str.buf \o SubSeq(data, 1, ToWrite(str, data))
<1> DEFINE n == ToWrite(str, data)
           w == Write(str, data)
           all == str.buf \o SubSeq(data, 1, n)
<1>1. w = [str EXCEPT !.buf = all, !.size = str.size + n, !.numWritten = str.numWritten + n]
  BY WriteAppends
<1> HIDE DEF n, w, all
<1>2. w.buf = all
  BY <1>1 DEF Streams
<1> QED
  BY <1>2, SMTT(30) DEF w, all, n

\* The loop of fill_window(), as a push() of n bytes of the stream and of their segments.
PayloadSegs(x, n, fin, count) ==
  [i \in 1..count |->
     Segment(Wrap(x.q.nextSeqno + (i - 1) * MAX_PAYLOAD_SIZE, x.isn), FALSE, fin /\ i = count,
             SubSeq(x.stream.buf, (i - 1) * MAX_PAYLOAD_SIZE + 1, Least(i * MAX_PAYLOAD_SIZE, n)))]

\* The loop takes n bytes, and a FIN if fin, in count segments that end at e.
PayloadOf(x, n, fin, count, e) ==
  /\ n \in Nat /\ n = Least(RemainSpace(x), x.stream.size) /\ n <= x.stream.size
  /\ fin = (x.stream.isInputEnd /\ n = x.stream.size /\ RemainSpace(x) > n /\ ~x.q.finSent)
  /\ count = IF n = 0 /\ fin THEN 1 ELSE (n + MAX_PAYLOAD_SIZE - 1) \div MAX_PAYLOAD_SIZE
  /\ e = x.q.ends \o EndsOf(LastEnd(x.q), n, count)

\* With() replaces the queue and the stream of a sender.
LEMMA WithReplaces ==
  ASSUME NEW x, IsSender(x), NEW q, NEW str
  PROVE  [[x EXCEPT !.stream = str] EXCEPT !.q = q] = With(x, q, str)
<1> DEFINE a == x.q
           b == x.timer
           c == x.stream
           out == x.segmentsOut
           old == [q |-> a, timer |-> b, isn |-> Isn, stream |-> c, segmentsOut |-> out]
<1>1. x = old
  BY SMTT(30) DEF IsSender
<1>2. With(x, q, str) = [q |-> q, timer |-> b, isn |-> Isn, stream |-> str, segmentsOut |-> out]
  BY DEF With
<1> HIDE DEF a, b, c, out
<1> DEFINE popped == [q |-> a, timer |-> b, isn |-> Isn, stream |-> str, segmentsOut |-> out]
<1>3. [old EXCEPT !.stream = str] = popped
  BY SMTT(30)
<1>4. [popped EXCEPT !.q = q] = [q |-> q, timer |-> b, isn |-> Isn, stream |-> str, segmentsOut |-> out]
  BY SMTT(30)
<1> HIDE DEF old, popped
<1> QED
  BY <1>1, <1>2, <1>3, <1>4

\* peek_output() of no more than there is gives the first bytes of the buffer.
LEMMA PeekTakes ==
  ASSUME NEW str \in Streams(Nat), NEW n \in Nat, n <= str.size
  PROVE  PeekOutput(str, n) = SubSeq(str.buf, 1, n) /\ Len(PeekOutput(str, n)) = n
<1> DEFINE buf == str.buf
<1>1. buf \in Seq(Nat) /\ str.size = Len(buf)
  BY DEF Streams
<1>2. PeekOutput(str, n) = SubSeq(buf, 1, n)
  BY DEF PeekOutput, Least
<1> HIDE DEF buf
<1>3. n \in 0..Len(buf)
  BY <1>1, SeqIsFunction, SMTT(30)
<1>4. Len(SubSeq(buf, 1, n)) = n
  BY <1>1, <1>3, PrefixType
<1> QED
  BY <1>2, <1>4 DEF buf

\* What fill_window() sends from the stream, with its pieces named.
LEMMA PayloadIs ==
  ASSUME NEW x, SenderInv(x), NEW n, NEW fin, NEW count, NEW e, PayloadOf(x, n, fin, count, e)
  PROVE  /\ Len(PeekOutput(x.stream, n)) = n /\ PeekOutput(x.stream, n) = SubSeq(x.stream.buf, 1, n)
         /\ PushPayload(x) = FirstPush(With(x, Pushed(x.q, PeekOutput(x.stream, n), fin, e), PopOutput(x.stream, n)),
                                       PayloadSegs(x, n, fin, count))
<1> DEFINE data == PeekOutput(x.stream, n)
           str == PopOutput(x.stream, n)
           more == [i \in 1..count |-> LastEnd(x.q) + Least(i * MAX_PAYLOAD_SIZE, n)]
           r == [x.q EXCEPT !.unAcked = @ \o data, !.ends = @ \o more, !.finSent = @ \/ fin,
                            !.nextSeqno = @ + n + (IF fin THEN 1 ELSE 0)]
           segs == PayloadSegs(x, n, fin, count)
<1>1. PushPayload(x) = FirstPush([x EXCEPT !.stream = PopOutput(@, n), !.q = r], segs)
  BY DEF PushPayload, PayloadSegs, PayloadOf
<1>2. x.stream \in Streams(Nat) /\ n \in Nat /\ n <= x.stream.size
  BY DEF SenderInv, IsSender, PayloadOf
<1>3. data = SubSeq(x.stream.buf, 1, n) /\ Len(data) = n
  BY <1>2, PeekTakes
<1>4. e = x.q.ends \o more
  BY DEF EndsOf, PayloadOf
<1> DEFINE q == Pushed(x.q, data, fin, e)
<1> HIDE DEF more
<1>5. r = q
  BY <1>3, <1>4 DEF Pushed
<1> HIDE DEF q, r, data, segs
<1>6. [x EXCEPT !.stream = PopOutput(@, n), !.q = r] = [[x EXCEPT !.stream = str] EXCEPT !.q = q]
  BY <1>5, SMTT(30)
<1> HIDE DEF str
<1>7. [[x EXCEPT !.stream = str] EXCEPT !.q = q] = With(x, q, str)
  BY WithReplaces DEF SenderInv
<1>8. PushPayload(x) = FirstPush(With(x, q, str), segs)
  BY <1>1, <1>6, <1>7
<1> QED
  BY <1>3, <1>8 DEF q, data, str, segs

\* What accounts for the bytes under way, once the SYN is acknowledged.
LEMMA NextByte ==
  ASSUME NEW x, SenderInv(x), x.q.synAcked
  PROVE  /\ x.q.baseSqn \in Nat /\ x.q.nextSeqno \in Nat /\ Len(x.q.unAcked) \in Nat /\ x.stream.numRead \in Nat
         /\ x.stream.size \in Nat /\ x.stream.numWritten = x.stream.numRead + x.stream.size
         /\ x.stream.numWritten <= StreamLen
         /\ x.q.nextSeqno = 1 + x.stream.numRead + OneIf(x.q.finSent)
         /\ LastEnd(x.q) = x.q.baseSqn + Len(x.q.unAcked)
         /\ ~x.q.finAcked => x.q.baseSqn + Len(x.q.unAcked) = x.stream.numRead + 1
<1> DEFINE len == Len(x.q.unAcked)
           read == x.stream.numRead
           fin == OneIf(x.q.finSent)
           finOut == OneIf(x.q.finSent /\ ~x.q.finAcked)
<1>1. x.q \in UnAckQueues /\ x.stream \in Streams(Nat) /\ QueueInv(x.q, read)
  BY DEF SenderInv, IsSender
<1>2. read \in Nat /\ x.stream.size \in Nat /\ x.q.baseSqn \in Nat /\ x.q.nextSeqno \in Nat
  BY <1>1 DEF Streams, UnAckQueues
<1>3. len \in Nat
  BY <1>1, <1>2, EndsBounded
<1>4. OneIf(x.q.synSent) = 1 /\ OneIf(x.q.synSent /\ ~x.q.synAcked) = 0
  BY <1>1 DEF QueueInv, OneIf
<1>5. x.q.nextSeqno = 1 + read + fin /\ x.q.nextSeqno - x.q.baseSqn = 0 + len + finOut
  BY <1>1, <1>4 DEF QueueInv
<1>6. fin \in Nat /\ finOut \in Nat /\ (~x.q.finAcked => fin = finOut)
  BY DEF OneIf
<1>7. LastEnd(x.q) = x.q.baseSqn + len
  BY <1>1 DEF QueueInv
<1>8. x.stream.numWritten = read + x.stream.size /\ x.stream.numWritten <= StreamLen
  BY DEF SenderInv
<1> HIDE DEF len, read, fin, finOut
<1>9. ~x.q.finAcked => x.q.baseSqn + len = read + 1
  BY <1>2, <1>3, <1>5, <1>6, SMTT(30)
<1> QED
  BY <1>2, <1>3, <1>5, <1>7, <1>8, <1>9 DEF len, read, fin

\* So many segments, and no more: the last one starts before byte n.
LEMMA CountNeeded ==
  ASSUME NEW n \in Nat, NEW count, count = (n + MAX_PAYLOAD_SIZE - 1) \div MAX_PAYLOAD_SIZE, NEW i \in 1..count
  PROVE  /\ (i - 1) * MAX_PAYLOAD_SIZE \in Nat /\ i * MAX_PAYLOAD_SIZE = (i - 1) * MAX_PAYLOAD_SIZE + MAX_PAYLOAD_SIZE
         /\ (i - 1) * MAX_PAYLOAD_SIZE < n
<1> DEFINE M == MAX_PAYLOAD_SIZE
<1>1. M \in Nat \ {0}
  BY SenderAssumption
<1>2. count \in Nat /\ count * M <= n + M - 1
  BY <1>1, SMTT(30)
<1> HIDE DEF M
<1>3. (i - 1) * M \in Nat /\ i * M = (i - 1) * M + M /\ i * M <= count * M
  BY <1>1, <1>2, SMTT(30)
<1>4. (i - 1) * M < n
  <2> DEFINE a == (i - 1) * M
             b == i * M
             c == count * M
  <2>1. a \in Nat /\ b = a + M /\ b <= c /\ c <= n + M - 1 /\ c \in Nat
    BY <1>1, <1>2, <1>3, SMTT(30)
  <2> HIDE DEF a, b, c
  <2>2. a < n
    BY <1>1, <2>1, SMTT(30)
  <2> QED
    BY <2>2 DEF a
<1> QED
  BY <1>3, <1>4 DEF M

\* The segments that the loop makes are segments of the stream.
LEMMA PayloadCarried ==
  ASSUME NEW x, SenderInv(x), Content(x), x.q.synAcked, ~x.q.finSent, NEW n \in Nat, n <= x.stream.size,
         NEW fin \in BOOLEAN, fin => x.stream.isInputEnd /\ n = x.stream.size,
         NEW count, count = IF n = 0 /\ fin THEN 1 ELSE (n + MAX_PAYLOAD_SIZE - 1) \div MAX_PAYLOAD_SIZE
  PROVE  PayloadSegs(x, n, fin, count) \in Seq(Carried(x.stream))
<1> DEFINE M == MAX_PAYLOAD_SIZE
           next == x.q.nextSeqno
           read == x.stream.numRead
           buf == x.stream.buf
           written == x.stream.numWritten
           size == x.stream.size
<1>1. /\ next \in Nat /\ read \in Nat /\ size \in Nat /\ next = 1 + read /\ written = read + size
      /\ written <= StreamLen /\ M \in Nat \ {0} /\ StreamLen \in Nat /\ n <= size
  BY NextByte, SenderAssumption, SpecAssumption, SMTT(30) DEF OneIf
<1>2. buf \in Seq(Nat) /\ Len(buf) = size /\ x.isn = Isn
  BY SMTT(30) DEF SenderInv, IsSender, Streams
<1>3. Run(buf, read + 1)
  BY DEF Content
<1>4. count \in Nat /\ count * M >= n
  <2>1. CASE n = 0 /\ fin
    BY <1>1, <2>1, SMTT(30)
  <2>2. CASE ~(n = 0 /\ fin)
    BY <2>2, CountCovers
  <2> QED
    BY <2>1, <2>2
<1>5. ASSUME NEW i \in 1..count
      PROVE  Segment(Wrap(next + (i - 1) * M, x.isn), FALSE, fin /\ i = count,
                     SubSeq(buf, (i - 1) * M + 1, Least(i * M, n))) \in Carried(x.stream)
  <2> DEFINE from == (i - 1) * M
             to == Least(i * M, n)
             p == SubSeq(buf, from + 1, to)
             last == (fin /\ i = count)
  <2>1. from \in Nat /\ i * M = from + M /\ from <= n
    <3>1. CASE n = 0 /\ fin
      <4>1. i = 1
        BY <3>1, SMTT(30)
      <4> QED
        BY <1>1, <3>1, <4>1, SMTT(30)
    <3>2. CASE ~(n = 0 /\ fin)
      BY <3>2, CountNeeded, SMTT(30)
    <3> QED
      BY <3>1, <3>2
  <2>2. to \in Nat /\ from <= to /\ to <= n /\ (last => to = n)
    <3>1. last => i * M >= n
      BY <1>4
    <3> HIDE DEF from, last
    <3> QED
      BY <1>1, <2>1, <3>1, SMTT(30) DEF Least
  <2>3. last \in BOOLEAN /\ (last => x.stream.isInputEnd /\ n = size)
    OBVIOUS
  <2> HIDE DEF from, to, last, size, read, buf, written, next, M
  <2>4. to \in 0..Len(buf) /\ read + 1 \in Nat
    BY <1>1, <1>2, <2>2, SMTT(30)
  <2>5. p \in Seq(Nat) /\ Run(p, (read + 1) + from) /\ Len(p) = to - from
    BY <1>2, <1>3, <2>1, <2>2, <2>4, RunPart
  <2> HIDE DEF p
  <2> DEFINE at == next + from
  <2>6. at = (read + 1) + from /\ at \in 0..StreamLen + 2
    BY <1>1, <2>1, SMTT(30)
  <2>7. last => x.stream.isInputEnd /\ at + Len(p) + OneIf(FALSE) = written + 1
    BY <1>1, <2>1, <2>2, <2>3, <2>5, SMTT(30) DEF OneIf
  <2> HIDE DEF at
  <2>8. Segment(Wrap(at, Isn), FALSE, last, p) \in Carried(x.stream)
    BY <2>3, <2>5, <2>6, <2>7, SegmentCarried DEF written
  <2> QED
    BY <1>2, <2>8 DEF at, p, last, from, to, buf, next, M
<1>6. PayloadSegs(x, n, fin, count) =
        [i \in 1..count |-> Segment(Wrap(next + (i - 1) * M, x.isn), FALSE, fin /\ i = count,
                                    SubSeq(buf, (i - 1) * M + 1, Least(i * M, n)))]
  BY DEF PayloadSegs
<1> DEFINE Seg(i) == Segment(Wrap(next + (i - 1) * M, x.isn), FALSE, fin /\ i = count,
                             SubSeq(buf, (i - 1) * M + 1, Least(i * M, n)))
<1>7. \A i \in 1..count : Seg(i) \in Carried(x.stream)
  BY <1>5
<1>8. PayloadSegs(x, n, fin, count) = [i \in 1..count |-> Seg(i)]
  BY <1>6
<1> HIDE DEF Seg
<1> QED
  BY <1>4, <1>7, <1>8, FunctionIsSeq, SMTT(30)

\* The room in the window is never negative.
LEMMA SpaceType ==
  ASSUME NEW x, SenderInv(x)
  PROVE  RemainSpace(x) \in Nat
<1>1. x.q \in UnAckQueues
  BY DEF SenderInv, IsSender
<1>2. x.q.winSize \in Nat /\ x.q.nextSeqno \in Nat /\ x.q.baseSqn \in Nat
  BY <1>1 DEF UnAckQueues
<1>3. BytesInFlight(x.q) \in Int
  BY <1>2, SMTT(30) DEF BytesInFlight
<1>4. x.q.winSize \in Int
  BY <1>2, SMTT(30)
<1> QED
  BY <1>3, <1>4, DifferenceType DEF RemainSpace

\* The loop of fill_window() sends bytes of the stream and keeps the others.
LEMMA PayloadContent ==
  ASSUME NEW x, SenderInv(x), Content(x), x.q.synAcked
  PROVE  Sends(x, PushPayload(x))
<1> DEFINE space == RemainSpace(x)
           size == x.stream.size
           n == Least(space, size)
           fin == x.stream.isInputEnd /\ n = size /\ space > n /\ ~x.q.finSent
           count == IF n = 0 /\ fin THEN 1 ELSE (n + MAX_PAYLOAD_SIZE - 1) \div MAX_PAYLOAD_SIZE
           e == x.q.ends \o EndsOf(LastEnd(x.q), n, count)
           data == PeekOutput(x.stream, n)
           q == Pushed(x.q, data, fin, e)
           str == PopOutput(x.stream, n)
           segs == PayloadSegs(x, n, fin, count)
           y == PushPayload(x)
<1>1. /\ x.q.baseSqn \in Nat /\ Len(x.q.unAcked) \in Nat /\ x.stream.numRead \in Nat /\ size \in Nat
      /\ x.q \in UnAckQueues /\ x.stream \in Streams(Nat) /\ x.q.nextSeqno \in Nat
      /\ x.q.unAcked \in Seq(Nat) /\ x.q.ends \in Seq(Nat) /\ x.stream.buf \in Seq(Nat)
      /\ LastEnd(x.q) = x.q.baseSqn + Len(x.q.unAcked)
      /\ x.q.finAcked => x.q.finSent
  BY NextByte DEF SenderInv, IsSender, UnAckQueues, Streams, QueueInv
<1>2. space \in Nat /\ n \in Nat /\ n <= size /\ n <= space
  <2>2. space \in Nat
    BY SpaceType
  <2> HIDE DEF space
  <2> QED
    BY <1>1, <2>2, SMTT(30) DEF Least
<1>3. x.q.finSent => n = 0 /\ ~fin /\ size = 0
  BY <1>1, <1>2, SMTT(30) DEF Content, Eof
<1>4. fin \in BOOLEAN /\ (fin => x.stream.isInputEnd /\ n = size)
  OBVIOUS
<1>5. fin = (x.stream.isInputEnd /\ n = size /\ RemainSpace(x) > n /\ ~x.q.finSent)
  OBVIOUS
<1>6. n = Least(RemainSpace(x), x.stream.size)
  OBVIOUS
<1> HIDE DEF n, fin, space
<1>7. /\ Len(data) = n /\ data = SubSeq(x.stream.buf, 1, n)
      /\ y = FirstPush(With(x, q, str), segs)
  <2>1. n \in Nat /\ n <= x.stream.size
    BY <1>2
  <2>2. /\ count = IF n = 0 /\ fin THEN 1 ELSE (n + MAX_PAYLOAD_SIZE - 1) \div MAX_PAYLOAD_SIZE
        /\ e = x.q.ends \o EndsOf(LastEnd(x.q), n, count)
    OBVIOUS
  <2> HIDE DEF count, e
  <2>3. PayloadOf(x, n, fin, count, e)
    BY <1>2, <1>5, <1>6, <2>1, <2>2 DEF PayloadOf
  <2> QED
    BY <2>3, PayloadIs
<1>8. /\ str.buf = SubSeq(x.stream.buf, n + 1, Len(x.stream.buf)) /\ str.numRead = x.stream.numRead + n
      /\ str.isInputEnd = x.stream.isInputEnd /\ str.numWritten = x.stream.numWritten /\ str.size = size - n
  <2>1. Least(n, x.stream.size) = n
    BY <1>1, <1>2 DEF Least
  <2> QED
    BY <1>1, <2>1 DEF PopOutput, Streams
<1>9. /\ q.unAcked = x.q.unAcked \o data /\ q.baseSqn = x.q.baseSqn /\ q.ends = e
  BY <1>1 DEF Pushed, UnAckQueues
<1>10. q.finSent = (x.q.finSent \/ fin)
  BY <1>1 DEF Pushed, UnAckQueues
<1>11. segs \in Seq(Carried(x.stream))
  <2>1. CASE x.q.finSent
    <3>1. n = 0 /\ ~fin
      BY <1>3, <2>1
    <3>2. count = 0
      BY <3>1, CountCovers
    <3> HIDE DEF count
    <3>3. segs = <<>>
      BY <3>2, SMTT(30) DEF PayloadSegs
    <3> QED
      BY <3>3, EmptyIsSeq
  <2>2. CASE ~x.q.finSent
    BY <1>2, <1>4, <2>2, PayloadCarried
  <2> QED
    BY <2>1, <2>2
<1> HIDE DEF q, segs, y, str, data, e, count
<1>12. /\ y.q = q /\ y.stream = str /\ y.segmentsOut = x.segmentsOut \o segs
       /\ y.timer.consecutiveRetransmissions <= x.timer.consecutiveRetransmissions
  <2> DEFINE z == With(x, q, str)
  <2>1. z = [q |-> q, timer |-> x.timer, isn |-> Isn, stream |-> str, segmentsOut |-> x.segmentsOut]
    BY DEF With
  <2> HIDE DEF z
  <2>3. x.timer \in Timers
    BY DEF SenderInv, IsSender
  <2>2. Queues(q, x.timer, str, x.segmentsOut, segs, FirstPush(z, segs))
    BY <2>1, <2>3, FirstPushQueues
  <2> QED
    BY <1>7, <2>2 DEF z, Queues
<1>13. /\ Run(x.q.unAcked, x.q.baseSqn) /\ Run(x.stream.buf, x.stream.numRead + 1)
       /\ x.q.finSent => Eof(x.stream)
       /\ x.segmentsOut \in Seq(Carried(x.stream))
  BY DEF Content
<1>14. Len(x.stream.buf) = size /\ n \in 0..Len(x.stream.buf) /\ x.stream.numRead + 1 \in Nat
  BY <1>1, <1>2, SMTT(30) DEF Streams
<1>15. Run(y.stream.buf, y.stream.numRead + 1)
  <2> DEFINE a == x.stream.buf
             first == x.stream.numRead + 1
  <2>1. a \in Seq(Nat) /\ first \in Nat /\ Run(a, first) /\ n \in Nat /\ Len(a) \in 0..Len(a)
    BY <1>1, <1>2, <1>13, <1>14, SMTT(30)
  <2>2. str.buf = SubSeq(a, n + 1, Len(a)) /\ str.numRead + 1 = first + n
    BY <1>1, <1>2, <1>8, SMTT(30)
  <2> HIDE DEF a, first
  <2>3. Run(str.buf, first + n)
    BY <2>1, <2>2, RunPart
  <2> QED
    BY <1>12, <2>2, <2>3
<1>16. Run(y.q.unAcked, y.q.baseSqn)
  <2>1. data \in Seq(Nat) /\ Run(data, x.stream.numRead + 1)
    <3>1. SubSeq(x.stream.buf, 0 + 1, n) \in Seq(Nat) /\ Run(SubSeq(x.stream.buf, 0 + 1, n), (x.stream.numRead + 1) + 0)
      BY <1>1, <1>13, <1>14, RunPart
    <3>2. 0 + 1 = 1 /\ (x.stream.numRead + 1) + 0 = x.stream.numRead + 1
      BY <1>1, SMTT(30)
    <3> QED
      BY <1>7, <3>1, <3>2
  <2>2. Run(data, x.q.baseSqn + Len(x.q.unAcked))
    <3>1. CASE x.q.finSent
      <4>1. Len(data) = 0
        BY <1>3, <1>7, <3>1
      <4> QED
        BY <4>1, SMTT(30) DEF Run
    <3>2. CASE ~x.q.finSent
      <4>1. x.q.baseSqn + Len(x.q.unAcked) = x.stream.numRead + 1
        BY <1>1, <3>2, NextByte
      <4> QED
        BY <2>1, <4>1
    <3> QED
      BY <3>1, <3>2
  <2>3. Run(x.q.unAcked \o data, x.q.baseSqn)
    <3> DEFINE a == x.q.unAcked
               base == x.q.baseSqn
    <3>1. a \in Seq(Nat) /\ base \in Nat /\ Run(a, base) /\ base + Len(a) \in Nat
      BY <1>1, <1>13, SMTT(30)
    <3>2. Run(data, base + Len(a)) /\ data \in Seq(Nat)
      BY <2>1, <2>2
    <3> HIDE DEF a, base
    <3>3. Run(a \o data, base)
      BY <3>1, <3>2, RunConcat
    <3> QED
      BY <3>3 DEF a, base
  <2> QED
    BY <1>9, <1>12, <2>3
<1>17. y.q.finSent => Eof(y.stream)
  <2>1. CASE x.q.finSent
    BY <1>1, <1>3, <1>8, <1>12, <1>13, <2>1, SMTT(30) DEF Eof
  <2>2. CASE fin
    BY <1>1, <1>2, <1>4, <1>8, <1>12, <2>2, SMTT(30) DEF Eof
  <2> QED
    BY <1>10, <1>12, <2>1, <2>2
<1>18. y.segmentsOut \in Seq(Carried(y.stream))
  <2>1. Carried(y.stream) = Carried(x.stream)
    BY <1>8, <1>12, CarriedSame
  <2> QED
    BY <1>11, <1>12, <1>13, <2>1, ConcatElements, SMTT(30)
<1> QED
  BY <1>12, <1>15, <1>16, <1>17, <1>18 DEF Sends, Content, y

\* makeFirstFinSeg() sends a FIN behind the last byte.
LEMMA FirstFinContent ==
  ASSUME NEW x, SenderInv(x), Content(x), x.q.synAcked, ~x.q.finSent, Eof(x.stream)
  PROVE  Sends(x, PushFirstFin(x))
<1> DEFINE q == [x.q EXCEPT !.finSent = TRUE, !.nextSeqno = x.q.nextSeqno + 1]
           seg == Segment(Wrap(x.q.nextSeqno, x.isn), FALSE, TRUE, <<>>)
           y == PushFirstFin(x)
           z == With(x, q, x.stream)
<1>1. /\ x.q \in UnAckQueues /\ x.timer \in Timers /\ x.isn = Isn
      /\ x.q.nextSeqno = 1 + x.stream.numRead /\ x.stream.numWritten = x.stream.numRead + x.stream.size
      /\ x.stream.numRead \in Nat /\ x.stream.size \in Nat /\ x.stream.numWritten <= StreamLen
  BY NextByte, SMTT(30) DEF SenderInv, IsSender, OneIf
<1>2. y = FirstPush(z, <<seg>>)
  BY FirstFinKeeps
<1>3. z = [q |-> q, timer |-> x.timer, isn |-> Isn, stream |-> x.stream, segmentsOut |-> x.segmentsOut]
  BY DEF With
<1>4. q.unAcked = x.q.unAcked /\ q.baseSqn = x.q.baseSqn
  BY <1>1 DEF UnAckQueues
<1>5. seg \in Carried(x.stream)
  <2> DEFINE at == x.q.nextSeqno
             none == <<>>
  <2>1. at \in 0..StreamLen + 2
    BY <1>1, SpecAssumption, SMTT(30)
  <2>2. none \in Seq(Nat) /\ Run(none, at) /\ Len(none) = 0
    BY EmptyIsSeq, SMTT(30) DEF Run
  <2>3. x.stream.isInputEnd /\ at + 0 + OneIf(FALSE) = x.stream.numWritten + 1
    BY <1>1, SMTT(30) DEF Eof, OneIf
  <2> HIDE DEF at, none
  <2>4. Segment(Wrap(at, Isn), FALSE, TRUE, none) \in Carried(x.stream)
    BY <2>1, <2>2, <2>3, SegmentCarried
  <2> QED
    BY <1>1, <2>4 DEF at, none
<1> HIDE DEF q, seg, y, z
<1>6. /\ y.q = q /\ y.stream = x.stream /\ y.segmentsOut = x.segmentsOut \o <<seg>>
      /\ y.timer.consecutiveRetransmissions <= x.timer.consecutiveRetransmissions
  <2> DEFINE timer == x.timer
             str == x.stream
             out == x.segmentsOut
             segs == <<seg>>
  <2>1. timer \in Timers
    BY <1>1
  <2>2. z = [q |-> q, timer |-> timer, isn |-> Isn, stream |-> str, segmentsOut |-> out]
    BY <1>3
  <2> HIDE DEF timer, str, out, segs
  <2>3. Queues(q, timer, str, out, segs, FirstPush(z, segs))
    BY <2>1, <2>2, FirstPushQueues
  <2> QED
    BY <1>2, <2>3 DEF timer, str, out, segs, Queues
<1>7. y.segmentsOut \in Seq(Carried(x.stream))
  <2>1. <<seg>> \in Seq(Carried(x.stream)) /\ x.segmentsOut \in Seq(Carried(x.stream))
    BY <1>5, SMTT(30) DEF Content
  <2> QED
    BY <1>6, <2>1, ConcatElements
<1> QED
  BY <1>4, <1>6, <1>7 DEF Sends, Content, y

\* makeSynSeg() and the firstPush() of the SYN.
LEMMA SynCarried ==
  ASSUME NEW x, SenderInv(x), ~x.q.synAcked
  PROVE  SynSeg(x) \in Carried(x.stream) /\ SynSeg(x).seqno = Wrap(0, Isn)
<1> DEFINE none == <<>>
<1>1. x.isn = Isn /\ MarkSyn(x).q.finSent = FALSE
  <2>1. x.q \in UnAckQueues /\ x.isn = Isn /\ QueueInv(x.q, x.stream.numRead)
    BY SMTT(30) DEF SenderInv, IsSender
  <2>3. ~x.q.finSent
    BY <2>1 DEF QueueInv
  <2>2. MarkSyn(x).q = [x.q EXCEPT !.synSent = TRUE, !.nextSeqno = 1]
    BY MarkSynOnlySyn
  <2> QED
    BY <2>1, <2>2, <2>3 DEF UnAckQueues
<1>2. none \in Seq(Nat) /\ Run(none, 0) /\ 0 \in 0..StreamLen + 2
  BY EmptyIsSeq, SpecAssumption, SMTT(30) DEF Run
<1>3. SynSeg(x) = Segment(Wrap(0, Isn), TRUE, FALSE, none)
  BY <1>1 DEF SynSeg
<1> HIDE DEF none
<1>4. Segment(Wrap(0, Isn), TRUE, FALSE, none) \in Carried(x.stream)
  BY <1>2, SegmentCarried
<1> QED
  BY <1>3, <1>4, SMTT(30) DEF Segment

\* fill_window() as a whole.
LEMMA FillWindowContent ==
  ASSUME NEW x, SenderInv(x), Content(x)
  PROVE  Sends(x, FillWindow(x))
<1>1. x.q \in UnAckQueues /\ x.timer \in Timers /\ QueueInv(x.q, x.stream.numRead)
  BY DEF SenderInv, IsSender
<1>2. Sends(x, x)
  BY <1>1, SMTT(30) DEF Sends, Timers
<1>3. CASE x.q.finSent \/ x.q.finAcked
  BY <1>2, <1>3 DEF FillWindow
<1>4. CASE ~x.q.finSent /\ ~x.q.finAcked /\ ~x.q.synSent
  <2> DEFINE m == MarkSyn(x)
             seg == SynSeg(x)
             y == FirstPush(m, <<seg>>)
  <2>1. ~x.q.synAcked
    BY <1>1, <1>4 DEF QueueInv
  <2>2. FillWindow(x) = y
    BY <1>4 DEF FillWindow
  <2>3. /\ IsSender(m) /\ m.q = [x.q EXCEPT !.synSent = TRUE, !.nextSeqno = 1]
        /\ m.stream = x.stream /\ m.timer = x.timer /\ m.segmentsOut = x.segmentsOut
    BY <2>1, MarkSynOnlySyn
  <2>4. seg \in Carried(x.stream)
    BY <2>1, SynCarried
  <2> HIDE DEF m, seg
  <2>5. /\ y.q = m.q /\ y.stream = x.stream /\ y.segmentsOut = x.segmentsOut \o <<seg>>
        /\ y.timer.consecutiveRetransmissions <= x.timer.consecutiveRetransmissions
    <3>1. IsSender(m)
      BY <2>3
    <3>2. /\ y.q = m.q /\ y.stream = m.stream /\ y.segmentsOut = m.segmentsOut \o <<seg>>
          /\ y.timer.consecutiveRetransmissions <= m.timer.consecutiveRetransmissions
      BY <3>1, FirstPushStarts
    <3>3. m.stream = x.stream /\ m.timer = x.timer /\ m.segmentsOut = x.segmentsOut
      BY <2>3
    <3> HIDE DEF y
    <3> QED
      BY <3>2, <3>3
  <2> HIDE DEF y
  <2>6. m.q.unAcked = x.q.unAcked /\ m.q.baseSqn = x.q.baseSqn
    BY <1>1, <2>3 DEF UnAckQueues
  <2>7. ~m.q.finSent
    BY <1>1, <1>4, <2>3 DEF UnAckQueues
  <2>8. y.segmentsOut \in Seq(Carried(x.stream))
    <3>1. <<seg>> \in Seq(Carried(x.stream)) /\ x.segmentsOut \in Seq(Carried(x.stream))
      BY <2>4, SMTT(30) DEF Content
    <3> QED
      BY <2>5, <3>1, ConcatElements
  <2> QED
    BY <2>2, <2>5, <2>6, <2>7, <2>8 DEF Sends, Content
<1>5. CASE ~x.q.finSent /\ ~x.q.finAcked /\ x.q.synSent /\ ~x.q.synAcked
  <2>1. ~(RemainSpace(x) > 1)
    BY <1>5, SynUnderWay, SMTT(30)
  <2> QED
    BY <1>2, <1>5, <2>1 DEF FillWindow
<1>6. CASE ~x.q.finSent /\ ~x.q.finAcked /\ x.q.synSent /\ x.q.synAcked
  <2>1. CASE Eof(x.stream) /\ RemainSpace(x) > 1
    <3> DEFINE y == PushFirstFin(x)
    <3>1. SenderInv(y) /\ y.q.synAcked /\ Sends(x, y)
      BY <1>6, <2>1, FirstFinKeeps, FirstFinContent DEF Keeps
    <3>2. FillWindow(x) = PushPayload(y)
      BY <1>6, <2>1 DEF FillWindow
    <3> HIDE DEF y
    <3>3. Sends(y, PushPayload(y)) /\ SenderInv(PushPayload(y))
      <4>1. y.q.finSent => y.stream.size = 0
        BY <3>1 DEF Sends, Content, Eof
      <4> QED
        BY <3>1, <4>1, PayloadContent, PayloadKeeps DEF Sends, Keeps
    <3>4. /\ y.timer.consecutiveRetransmissions \in Nat
          /\ PushPayload(y).timer.consecutiveRetransmissions \in Nat
      BY <3>1, <3>3 DEF SenderInv, IsSender, Timers
    <3> QED
      BY <1>1, <3>1, <3>2, <3>3, <3>4, SMTT(30) DEF Sends, Timers
  <2>2. CASE ~(Eof(x.stream) /\ RemainSpace(x) > 1)
    <3>1. FillWindow(x) = PushPayload(x)
      BY <1>6, <2>2 DEF FillWindow
    <3> QED
      BY <1>6, <3>1, PayloadContent
  <2> QED
    BY <2>1, <2>2
<1> QED
  BY <1>3, <1>4, <1>5, <1>6

(* Retransmission *)

\* The numbers in use are those of the SYN, the stream and the FIN.
LEMMA SequenceBounds ==
  ASSUME NEW x, SenderInv(x)
  PROVE  /\ x.q.baseSqn \in Nat /\ x.q.nextSeqno \in Nat /\ x.q.baseSqn <= x.q.nextSeqno
         /\ x.q.nextSeqno <= StreamLen + 2 /\ x.isn = Isn /\ StreamLen \in Nat
<1>1. /\ x.q \in UnAckQueues /\ x.stream \in Streams(Nat) /\ x.isn = Isn
      /\ QueueInv(x.q, x.stream.numRead) /\ x.stream.numRead \in Nat /\ x.stream.size \in Nat
  BY SMTT(30) DEF SenderInv, IsSender, Streams
<1>2. x.q.baseSqn \in Nat /\ x.q.nextSeqno \in Nat /\ x.q.baseSqn <= x.q.nextSeqno
  BY <1>1, EndsBounded DEF UnAckQueues
<1> DEFINE syn == OneIf(x.q.synSent)
           fin == OneIf(x.q.finSent)
<1>3. x.q.nextSeqno = syn + x.stream.numRead + fin
  BY <1>1 DEF QueueInv
<1>4. syn \in 0..1 /\ fin \in 0..1
  BY SMTT(30) DEF OneIf
<1>5. x.stream.numWritten = x.stream.numRead + x.stream.size /\ x.stream.numWritten <= StreamLen
  BY DEF SenderInv
<1> HIDE DEF syn, fin
<1> QED
  BY <1>1, <1>2, <1>3, <1>4, <1>5, SpecAssumption, SMTT(30)

\* frontSeg() of a queue that holds bytes: they start at baseSqn, there are enough of them, and a
\* FIN goes with the last one.
LEMMA FrontCarried ==
  ASSUME NEW x, SenderInv(x), Content(x), ~x.q.finAcked, x.q.unAcked # <<>>
  PROVE  /\ FrontSeg(x.q, x.isn) \in Carried(x.stream)
         /\ FrontSeg(x.q, x.isn).seqno = Wrap(x.q.baseSqn, Isn)
<1> DEFINE base == x.q.baseSqn
           next == x.q.nextSeqno
           bytes == x.q.unAcked
           toSend == x.q.ends[1] - base
           n == IF toSend >= 0 THEN toSend ELSE 0
           fin == (x.q.finSent /\ next - 1 = base + toSend)
           p == [i \in 1..toSend |-> IF i <= Len(bytes) THEN bytes[i] ELSE Garbage]
<1>1. /\ x.q \in UnAckQueues /\ QueueInv(x.q, x.stream.numRead) /\ x.stream.numRead \in Nat
      /\ bytes \in Seq(Nat)
  BY DEF SenderInv, IsSender, Streams, UnAckQueues
<1>2. base \in Nat /\ next \in Nat /\ base <= next /\ next <= StreamLen + 2 /\ x.isn = Isn
  BY SequenceBounds
<1>3. x.q.synAcked
  BY <1>1 DEF QueueInv
<1>4. /\ Len(bytes) \in Nat /\ Len(bytes) # 0 /\ DOMAIN x.q.ends = 1..Len(x.q.ends) /\ Len(x.q.ends) \in Nat
      /\ x.q.ends = <<>> <=> Len(x.q.ends) = 0
      /\ \A i \in DOMAIN x.q.ends : x.q.ends[i] \in Nat /\ x.q.ends[i] <= LastEnd(x.q)
  BY <1>1, EndsBounded
<1>5. LastEnd(x.q) = base + Len(bytes)
  BY <1>1 DEF QueueInv
<1>6. x.q.ends # <<>>
  BY <1>2, <1>4, <1>5, SMTT(30) DEF LastEnd
<1>7. x.q.ends[1] \in Nat /\ x.q.ends[1] <= base + Len(bytes)
  BY <1>4, <1>5, <1>6, SMTT(30)
<1>8. toSend \in Int /\ toSend <= Len(bytes)
  BY <1>2, <1>4, <1>7, SMTT(30)
<1>9. x.q.finSent => next - 1 = x.stream.numWritten + 1 /\ next > base /\ x.stream.isInputEnd
  <2> SUFFICES ASSUME x.q.finSent PROVE next - 1 = x.stream.numWritten + 1 /\ next > base /\ x.stream.isInputEnd
    OBVIOUS
  <2>1. Eof(x.stream)
    BY DEF Content
  <2>2. next = 1 + x.stream.numRead + 1 /\ x.stream.numWritten = x.stream.numRead + x.stream.size
    BY <1>3, NextByte DEF OneIf
  <2>3. x.stream.size = 0 /\ x.stream.isInputEnd
    BY <2>1 DEF Eof
  <2>4. base + Len(bytes) = x.stream.numRead + 1
    BY <1>3, NextByte
  <2> HIDE DEF base, next, bytes
  <2> QED
    BY <1>1, <1>2, <1>4, <2>2, <2>3, <2>4, SMTT(30)
<1>10. fin \in BOOLEAN /\ (fin => x.q.finSent /\ next - 1 = base + toSend)
  OBVIOUS
<1>11. FrontSeg(x.q, x.isn) = Segment(Wrap(base, Isn), FALSE, fin, p)
  BY <1>2 DEF FrontSeg
<1>12. Run(bytes, base)
  BY DEF Content
<1> HIDE DEF toSend, fin, base, next, bytes
<1>13. n \in Nat /\ 1..toSend = 1..n /\ n <= Len(bytes)
  BY <1>4, <1>8, SMTT(30)
<1>14. \A i \in 1..n : i <= Len(bytes) /\ i \in 1..Len(bytes) /\ bytes[i] \in Nat
  BY <1>1, <1>4, <1>13, ElementType, SeqIsFunction, SMTT(30)
<1>15. p = [i \in 1..n |-> bytes[i]]
  BY <1>13, <1>14
<1> HIDE DEF p, n
<1>16. p \in Seq(Nat) /\ Len(p) = n
  BY <1>13, <1>14, <1>15, FunctionIsSeq
<1>17. Run(p, base)
  BY <1>12, <1>14, <1>15, <1>16 DEF Run
<1>18. fin => x.stream.isInputEnd /\ base + Len(p) + OneIf(FALSE) = x.stream.numWritten + 1
  <2>1. fin => toSend >= 0
    BY <1>2, <1>8, <1>9, <1>10, SMTT(30)
  <2>2. fin => n = toSend
    BY <2>1 DEF n
  <2>3. OneIf(FALSE) = 0
    BY DEF OneIf
  <2> DEFINE end == x.stream.numWritten + 1
  <2>4. fin => x.stream.isInputEnd /\ next - 1 = end
    BY <1>9, <1>10
  <2> HIDE DEF end
  <2>5. fin => base + Len(p) + 0 = end
    BY <1>2, <1>8, <1>10, <1>16, <2>2, <2>4, SMTT(30)
  <2> QED
    BY <2>3, <2>4, <2>5 DEF end
<1>19. base \in 0..StreamLen + 2
  BY <1>2, SpecAssumption, SMTT(30)
<1>20. Segment(Wrap(base, Isn), FALSE, fin, p) \in Carried(x.stream)
  BY <1>10, <1>16, <1>17, <1>18, <1>19, SegmentCarried
<1>21. Segment(Wrap(base, Isn), FALSE, fin, p).seqno = Wrap(base, Isn)
  BY DEF Segment
<1> QED
  BY <1>11, <1>20, <1>21 DEF base

\* What timeoutRetransmit() picks while the timer runs is a segment of the stream, the oldest.
LEMMA PickedOldest ==
  ASSUME NEW x, SenderInv(x), Content(x), x.timer.isTimerRunning
  PROVE  /\ ~x.q.finAcked /\ Picked(x) \in Carried(x.stream)
         /\ Picked(x).seqno = Wrap(x.q.baseSqn, Isn)
<1> DEFINE base == x.q.baseSqn
           next == x.q.nextSeqno
           syn == ~x.q.finSent /\ x.q.synSent /\ ~x.q.synAcked
           synOut == OneIf(x.q.synSent /\ ~x.q.synAcked)
           finOut == OneIf(x.q.finSent /\ ~x.q.finAcked)
           len == Len(x.q.unAcked)
<1>1. /\ x.q \in UnAckQueues /\ QueueInv(x.q, x.stream.numRead) /\ x.stream.numRead \in Nat
      /\ x.q.overrun = FALSE /\ next > base
  BY DEF SenderInv, IsSender, Streams, UnAckQueues
<1>2. base \in Nat /\ next \in Nat /\ base <= next /\ next <= StreamLen + 2 /\ x.isn = Isn
  BY SequenceBounds
<1>3. next - base = synOut + len + finOut /\ len \in Nat /\ (x.q.unAcked = <<>> <=> len = 0)
  BY <1>1, EndsBounded DEF QueueInv
<1>4. QueueEmpty(x.q) <=> x.q.unAcked = <<>>
  BY <1>1 DEF QueueEmpty
<1>5. ~x.q.finAcked
  <2> SUFFICES ASSUME x.q.finAcked PROVE FALSE
    OBVIOUS
  <2>1. x.q.finSent /\ x.q.unAcked = <<>> /\ x.q.synAcked
    BY <1>1 DEF QueueInv
  <2>2. synOut = 0 /\ finOut = 0
    BY <2>1 DEF OneIf
  <2> HIDE DEF synOut, finOut, len, base, next
  <2> QED
    BY <1>1, <1>2, <1>3, <2>1, <2>2, SMTT(30)
<1>6. CASE x.q.finSent /\ QueueEmpty(x.q)
  <2> DEFINE none == <<>>
  <2>1. x.q.synAcked /\ synOut = 0 /\ finOut = 1
    <3>1. x.q.synAcked
      BY <1>1, <1>6 DEF QueueInv
    <3> QED
      BY <1>5, <1>6, <3>1 DEF OneIf
  <2>2. len = 0
    BY <1>3, <1>4, <1>6
  <2>3. next - 1 = base
    <3> HIDE DEF synOut, finOut, len, base, next
    <3> QED
      BY <1>2, <1>3, <2>1, <2>2, SMTT(30)
  <2>4. Picked(x) = Segment(Wrap(base, Isn), FALSE, TRUE, none)
    <3>1. Picked(x) = Segment(Wrap(next - 1, x.isn), FALSE, TRUE, none)
      BY <1>6, <2>1 DEF Picked
    <3> QED
      BY <1>2, <2>3, <3>1
  <2>5. base + 0 + OneIf(FALSE) = x.stream.numWritten + 1 /\ x.stream.isInputEnd
    <3>1. Eof(x.stream)
      BY <1>6 DEF Content
    <3>2. next = 1 + x.stream.numRead + 1 /\ x.stream.numWritten = x.stream.numRead + x.stream.size
      BY <1>6, <2>1, NextByte DEF OneIf
    <3>3. OneIf(FALSE) = 0
      BY DEF OneIf
    <3>4. x.stream.size = 0 /\ x.stream.isInputEnd
      BY <3>1 DEF Eof
    <3> DEFINE read == x.stream.numRead
               written == x.stream.numWritten
    <3>5. next = 1 + read + 1 /\ written = read + 0 /\ read \in Nat
      BY <1>1, <3>2, <3>4
    <3> HIDE DEF base, next, read, written
    <3>6. base + 0 + 0 = written + 1
      BY <1>2, <2>3, <3>5, SMTT(30)
    <3> QED
      BY <3>3, <3>4, <3>6 DEF written
  <2>6. none \in Seq(Nat) /\ Run(none, base) /\ Len(none) = 0 /\ base \in 0..StreamLen + 2
    BY <1>2, EmptyIsSeq, SpecAssumption, SMTT(30) DEF Run
  <2> HIDE DEF none, base
  <2>7. Segment(Wrap(base, Isn), FALSE, TRUE, none) \in Carried(x.stream)
    BY <2>5, <2>6, SegmentCarried
  <2>8. Segment(Wrap(base, Isn), FALSE, TRUE, none).seqno = Wrap(base, Isn)
    BY DEF Segment
  <2> QED
    BY <1>5, <2>4, <2>7, <2>8 DEF base
<1>7. CASE syn
  <2>1. Picked(x) = SynSeg(x)
    BY <1>7 DEF Picked
  <2>2. base = 0
    BY <1>7, SynUnderWay
  <2> QED
    BY <1>5, <1>7, <2>1, <2>2, SynCarried
<1>8. CASE ~syn /\ ~QueueEmpty(x.q)
  <2>1. Picked(x) = FrontSeg(x.q, x.isn)
    BY <1>8 DEF Picked
  <2>2. x.q.unAcked # <<>>
    BY <1>4, <1>8
  <2> QED
    BY <1>5, <2>1, <2>2, FrontCarried
<1>9. CASE ~syn /\ ~x.q.finSent /\ QueueEmpty(x.q)
  <2>1. synOut = 0 /\ finOut = 0
    BY <1>9 DEF OneIf
  <2>2. len = 0
    BY <1>3, <1>4, <1>9
  <2> HIDE DEF synOut, finOut, len, base, next
  <2> QED
    BY <1>1, <1>2, <1>3, <2>1, <2>2, SMTT(30)
<1> QED
  BY <1>6, <1>7, <1>8, <1>9

\* tick(): either no timeout was reached, or the oldest segment goes out once more.
LEMMA TickContent ==
  ASSUME NEW x, SenderInv(x), Content(x), x.segmentsOut = <<>>, NEW ms \in Nat
  PROVE  /\ Content(SenderTick(x, ms))
         /\ \/ Sends(x, SenderTick(x, ms))
            \/ /\ Len(SenderTick(x, ms).segmentsOut) = 1
               /\ SenderTick(x, ms).segmentsOut[1].seqno = Wrap(x.q.baseSqn, x.isn)
<1> DEFINE later == [x EXCEPT !.timer.msSinceBaseSegSent = @ + ms]
           timer == [x.timer EXCEPT !.msSinceBaseSegSent = x.timer.msSinceBaseSegSent + ms]
           y == TimeoutRetransmit(later)
<1>1. /\ x = [q |-> x.q, timer |-> x.timer, isn |-> Isn, stream |-> x.stream,
              segmentsOut |-> x.segmentsOut]
      /\ x.timer \in Timers
  BY DEF SenderInv, IsSender
<1>2. /\ timer \in Timers /\ (timer.isTimerRunning <=> x.timer.isTimerRunning)
      /\ timer.consecutiveRetransmissions = x.timer.consecutiveRetransmissions
  BY <1>1, SMTT(30) DEF Timers
<1> HIDE DEF timer
<1>3. later = [q |-> x.q, timer |-> timer, isn |-> Isn, stream |-> x.stream,
               segmentsOut |-> x.segmentsOut]
  BY <1>1, SMTT(30) DEF timer
<1> HIDE DEF later
<1>4. KeepsWith(x, later, x.q)
  BY <1>2, <1>3, RetimedKeeps
<1>5. /\ later.q = x.q /\ later.stream = x.stream /\ later.segmentsOut = x.segmentsOut
      /\ later.timer = timer
  BY <1>3
<1>6. SenderInv(later) /\ Content(later)
  BY <1>4, <1>5 DEF KeepsWith, Keeps, Content
<1>7. Sends(x, x) /\ Sends(x, later)
  BY <1>1, <1>2, <1>5, <1>6, SMTT(30) DEF Sends, Timers
<1>8. CASE ~x.timer.isTimerRunning
  <2>1. SenderTick(x, ms) = x
    BY <1>8 DEF SenderTick
  <2> QED
    BY <1>7, <2>1
<1>9. CASE x.timer.isTimerRunning /\ later.timer.msSinceBaseSegSent < x.timer.timeout
  <2>1. ~(later.timer.msSinceBaseSegSent >= x.timer.timeout)
    BY <1>1, <1>2, <1>5, <1>9, SMTT(30) DEF Timers
  <2>2. SenderTick(x, ms) = later
    BY <1>9, <2>1 DEF SenderTick, later
  <2> QED
    BY <1>6, <1>7, <2>2
<1>10. CASE x.timer.isTimerRunning /\ ~(later.timer.msSinceBaseSegSent < x.timer.timeout)
  <2>1. later.timer.msSinceBaseSegSent >= x.timer.timeout
    BY <1>1, <1>2, <1>5, <1>10, SMTT(30) DEF Timers
  <2>2. SenderTick(x, ms) = y
    BY <1>10, <2>1 DEF SenderTick, later
  <2>3. later.timer.isTimerRunning
    BY <1>2, <1>5, <1>10
  <2>4. /\ ~later.q.finAcked /\ Picked(later) \in Carried(x.stream)
        /\ Picked(later).seqno = Wrap(x.q.baseSqn, Isn)
    BY <1>5, <1>6, <2>3, PickedOldest, SMTT(30)
  <2>5. y.segmentsOut = Append(<<>>, Picked(later)) /\ y.stream = x.stream /\ y.q = x.q
    BY <1>5, <1>6, <2>3, <2>4, TimeoutKeeps
  <2> HIDE DEF y
  <2> DEFINE seg == Picked(later)
  <2> HIDE DEF seg
  <2>6. y.segmentsOut = <<seg>> /\ seg \in Carried(x.stream)
    BY <2>4, <2>5, SMTT(30) DEF seg
  <2>7. y.segmentsOut \in Seq(Carried(x.stream)) /\ Len(y.segmentsOut) = 1 /\ y.segmentsOut[1] = seg
    BY <2>6, SMTT(30)
  <2>8. Content(y)
    BY <2>5, <2>7 DEF Content
  <2>9. x.isn = Isn
    BY <1>1, SMTT(30)
  <2> QED
    BY <2>2, <2>4, <2>7, <2>8, <2>9 DEF seg
<1> QED
  BY <1>8, <1>9, <1>10

(* Acks *)

\* erase() drops as many bytes as it moves baseSqn.
LEMMA EraseDrops ==
  ASSUME NEW q \in UnAckQueues, NEW ackno, NEW r, r = Erase(q, ackno)
  PROVE  /\ r.unAcked = SubSeq(q.unAcked, (r.baseSqn - q.baseSqn) + 1, Len(q.unAcked))
         /\ r.finSent = q.finSent
<1>1. \E base, ends : r = EraseBytes([q EXCEPT !.baseSqn = base, !.ends = ends], base - q.baseSqn)
  BY DEF Erase
<1>2. PICK base, ends : r = EraseBytes([q EXCEPT !.baseSqn = base, !.ends = ends], base - q.baseSqn)
  BY <1>1
<1> DEFINE n == base - q.baseSqn
           w == [q EXCEPT !.baseSqn = base, !.ends = ends]
<1>3. w.unAcked = q.unAcked /\ w.baseSqn = base /\ w.finSent = q.finSent /\ DOMAIN w = DOMAIN q
  BY DEF UnAckQueues
<1>4. {"unAcked", "baseSqn", "finSent", "overrun"} \subseteq DOMAIN q
  BY DEF UnAckQueues
<1>5. r = EraseBytes(w, n)
  BY <1>2
<1> HIDE DEF w, n
<1>6. r.unAcked = SubSeq(w.unAcked, n + 1, Len(w.unAcked)) /\ r.baseSqn = w.baseSqn /\ r.finSent = w.finSent
  BY <1>3, <1>4, <1>5 DEF EraseBytes
<1> QED
  BY <1>3, <1>6 DEF n

\* updateBase() leaves the bytes after the new baseSqn.
LEMMA UpdateBaseRuns ==
  ASSUME NEW q \in UnAckQueues, NEW read \in Nat, QueueInv(q, read), q.synSent,
         NEW ackno \in Nat, ackno > q.baseSqn,
         ackno = q.nextSeqno \/ \E k \in DOMAIN q.ends : q.ends[k] = ackno,
         NEW r, r = UpdateBase(q, ackno), Run(q.unAcked, q.baseSqn)
  PROVE  Run(r.unAcked, r.baseSqn) /\ r.finSent = q.finSent
<1> DEFINE b == Rebase(q, q.baseSqn + 1)
           forFin == q.finSent /\ ackno = q.nextSeqno
<1>1. r.baseSqn = ackno /\ q.baseSqn \in Nat /\ q.unAcked \in Seq(Nat)
  BY UpdateBaseKeeps DEF StartsAt, UnAckQueues
<1>2. b.unAcked = q.unAcked /\ b.finSent = q.finSent /\ DOMAIN b = DOMAIN q
  BY DEF Rebase, UnAckQueues
<1>3. {"unAcked", "baseSqn", "finSent", "overrun"} \subseteq DOMAIN q
  BY DEF UnAckQueues
<1>4. r.unAcked = <<>> => Run(r.unAcked, r.baseSqn)
  BY EmptyIsSeq, SMTT(30) DEF Run
<1>5. CASE ackno = 1
  <2>1. r = [b EXCEPT !.synAcked = TRUE]
    BY <1>5 DEF UpdateBase
  <2> HIDE DEF b
  <2>2. r.unAcked = q.unAcked /\ r.finSent = q.finSent
    BY <1>2, <1>3, <2>1
  <2>3. ~(q.baseSqn >= 1)
    BY <1>1, <1>5, SMTT(30)
  <2>4. q.unAcked = <<>>
    BY <2>3 DEF QueueInv
  <2> QED
    BY <1>4, <2>2, <2>4
<1>6. CASE ackno # 1 /\ forFin /\ ~QueueEmpty(q)
  <2>1. r = [q EXCEPT !.finAcked = TRUE, !.baseSqn = ackno, !.unAcked = <<>>, !.ends = <<>>,
                      !.overrun = FALSE]
    BY <1>6 DEF UpdateBase
  <2>2. r.unAcked = <<>> /\ r.finSent = q.finSent
    BY <2>1 DEF UnAckQueues
  <2> QED
    BY <1>4, <2>2
<1>7. CASE ackno # 1 /\ forFin /\ QueueEmpty(q)
  <2>1. r = [b EXCEPT !.finAcked = TRUE]
    BY <1>7 DEF UpdateBase
  <2> HIDE DEF b
  <2>2. r.unAcked = q.unAcked /\ r.finSent = q.finSent
    BY <1>2, <1>3, <2>1
  <2> QED
    BY <1>4, <1>7, <2>2 DEF QueueEmpty
<1>8. CASE ackno # 1 /\ ~forFin /\ QueueEmpty(q)
  <2>1. r = q
    BY <1>8 DEF UpdateBase
  <2> QED
    BY <2>1
<1>9. CASE ackno # 1 /\ ~forFin /\ ~QueueEmpty(q)
  <2>1. r = Erase(q, ackno)
    BY <1>9 DEF UpdateBase
  <2> DEFINE n == r.baseSqn - q.baseSqn
             bytes == q.unAcked
             base == q.baseSqn
  <2>2. r.unAcked = SubSeq(bytes, n + 1, Len(bytes)) /\ r.finSent = q.finSent
    BY <2>1, EraseDrops, SMTT(30)
  <2>3. n \in Nat /\ base + n = r.baseSqn /\ Len(bytes) \in 0..Len(bytes) /\ base \in Nat /\ bytes \in Seq(Nat)
    BY <1>1, SeqIsFunction, SMTT(30)
  <2>4. Run(bytes, base)
    OBVIOUS
  <2> HIDE DEF n, bytes, base
  <2>5. Run(r.unAcked, base + n)
    BY <2>2, <2>3, <2>4, RunPart, SMTT(30)
  <2> QED
    BY <2>2, <2>3, <2>5
<1> QED
  BY <1>5, <1>6, <1>7, <1>8, <1>9

\* ack_received() of an ackno that is new.
LEMMA NewAckContent ==
  ASSUME NEW x, SenderInv(x), Content(x), x.q.synSent,
         NEW a \in Nat, a > x.q.baseSqn, a <= x.q.nextSeqno, NEW win \in Nat,
         a = x.q.nextSeqno \/ \E k \in DOMAIN x.q.ends : x.q.ends[k] = a,
         NEW y, y = AckReceived(x, Wrap(a, x.isn), win)
  PROVE  Sends(x, y) /\ y.segmentsOut = x.segmentsOut
<1>1. /\ y.stream = x.stream /\ y.segmentsOut = x.segmentsOut
      /\ y.timer.consecutiveRetransmissions = 0
      /\ BaseUpdated(x, a, y)
  BY NewAckKeeps, SMTT(30)
<1>2. PICK win0 \in Nat \ {0} : y.q = UpdateBase([x.q EXCEPT !.winSize = win0], a)
  BY <1>1 DEF BaseUpdated
<1> DEFINE r == [x.q EXCEPT !.winSize = win0]
<1>3. /\ x.q \in UnAckQueues /\ x.timer \in Timers /\ x.stream.numRead \in Nat
      /\ QueueInv(x.q, x.stream.numRead)
  BY DEF SenderInv, IsSender, Streams
<1>4. r = [x.q EXCEPT !.winSize = win0]
  OBVIOUS
<1>5. r.unAcked = x.q.unAcked /\ r.finSent = x.q.finSent
  BY <1>3 DEF UnAckQueues
<1>6. y.q = UpdateBase(r, a)
  BY <1>2
<1> HIDE DEF r
<1>7. /\ r \in UnAckQueues /\ QueueInv(r, x.stream.numRead) /\ r.baseSqn = x.q.baseSqn
      /\ r.nextSeqno = x.q.nextSeqno /\ r.ends = x.q.ends /\ r.synSent = x.q.synSent
  <2> DEFINE q == x.q
             read == x.stream.numRead
  <2>1. /\ q \in UnAckQueues /\ read \in Nat /\ QueueInv(q, read) /\ win0 \in Nat \ {0}
        /\ r = [q EXCEPT !.winSize = win0]
    BY <1>3, <1>4
  <2> HIDE DEF q, read
  <2>2. /\ r \in UnAckQueues /\ QueueInv(r, read) /\ r.baseSqn = q.baseSqn
        /\ r.nextSeqno = q.nextSeqno /\ r.ends = q.ends /\ r.synSent = q.synSent
    BY <2>1, WindowFree, SMTT(30)
  <2> QED
    BY <2>2 DEF q, read
<1>8. /\ Run(r.unAcked, r.baseSqn) /\ r.synSent /\ a > r.baseSqn
      /\ a = r.nextSeqno \/ \E k \in DOMAIN r.ends : r.ends[k] = a
  BY <1>7, <1>5 DEF Content
<1>9. Run(y.q.unAcked, y.q.baseSqn) /\ y.q.finSent = x.q.finSent
  BY <1>3, <1>7, <1>5, <1>6, <1>8, UpdateBaseRuns, SMTT(30)
<1>10. Content(y)
  BY <1>1, <1>9 DEF Content
<1> QED
  BY <1>1, <1>3, <1>10, SMTT(30) DEF Sends, Timers

\* ack_received() of an ackno that is not.
LEMMA OldAckContent ==
  ASSUME NEW x, SenderInv(x), Content(x), NEW a \in Nat, a >= 1, a <= x.q.baseSqn, NEW win \in Nat,
         NEW y, y = AckReceived(x, Wrap(a, x.isn), win)
  PROVE  Sends(x, y) /\ y.segmentsOut = x.segmentsOut
<1>1. /\ Keeps(x, y) /\ OnlyWindowSet(x, y) /\ y.stream = x.stream /\ y.segmentsOut = x.segmentsOut
  BY OldAckKeeps, SMTT(30)
<1>2. x.q \in UnAckQueues /\ x.timer \in Timers
  BY DEF SenderInv, IsSender
<1>3. y.q.unAcked = x.q.unAcked /\ y.q.baseSqn = x.q.baseSqn /\ y.q.finSent = x.q.finSent
  <2> DEFINE win0 == y.q.winSize
  <2>1. y.q = [x.q EXCEPT !.winSize = win0]
    BY <1>1 DEF OnlyWindowSet
  <2> HIDE DEF win0
  <2> QED
    BY <1>2, <2>1 DEF UnAckQueues
<1>4. y.timer.consecutiveRetransmissions = x.timer.consecutiveRetransmissions
  <2> DEFINE double == y.timer.doubleTimeout
  <2>1. y.timer = [x.timer EXCEPT !.doubleTimeout = double]
    BY <1>1, SMTT(30) DEF OnlyWindowSet
  <2> HIDE DEF double
  <2> QED
    BY <1>2, <2>1 DEF Timers
<1>5. Content(y)
  BY <1>1, <1>3 DEF Content
<1> QED
  BY <1>1, <1>2, <1>4, <1>5, SMTT(30) DEF Sends, Timers

(* The specification, with what the segments carry *)

\* What holds between calls: the sender holds the bytes of the stream in order, and the segments
\* of the last call were segments of that stream.
Inv2 == Inv /\ Content(s) /\ wire \in Seq(Carried(s.stream))

\* What a call that leaves t means for the specification.
LEMMA CallSends ==
  ASSUME NEW t, SenderInv(t), Content(t), Call(t)
  PROVE  /\ Content(s') /\ wire' \in Seq(Carried(s'.stream)) /\ wire' = t.segmentsOut
         /\ s'.timer = t.timer
<1>1. t = [q |-> t.q, timer |-> t.timer, isn |-> Isn, stream |-> t.stream, segmentsOut |-> t.segmentsOut]
  BY DEF SenderInv, IsSender
<1>2. s' = [t EXCEPT !.segmentsOut = <<>>] /\ wire' = t.segmentsOut
  BY DEF Call
<1>3. s'.q = t.q /\ s'.timer = t.timer /\ s'.stream = t.stream /\ s'.segmentsOut = <<>>
  BY <1>1, <1>2
<1>4. s'.segmentsOut \in Seq(Carried(s'.stream))
  BY <1>3, EmptyIsSeq
<1> QED
  BY <1>2, <1>3, <1>4 DEF Content

\* A timeout sends one segment, the oldest.
Oldest == Len(wire') = 1 /\ wire'[1].seqno = Wrap(s.q.baseSqn, s.isn)

\* A step sends segments of the stream, and the retransmissions in a row only grow when the
\* oldest segment is sent again.
StepSends ==
  /\ Content(s') /\ wire' \in Seq(Carried(s'.stream))
  /\ s'.timer.consecutiveRetransmissions <= s.timer.consecutiveRetransmissions \/ Oldest

\* The stream was written to or ended.
LEMMA StreamSends ==
  ASSUME Inv2, NEW str, str \in Streams(Nat), str.numRead = s.stream.numRead,
         str.numWritten = str.numRead + str.size, str.numWritten <= StreamLen,
         Run(str.buf, str.numRead + 1), s.q.finSent => Eof(str),
         Call([s EXCEPT !.stream = str])
  PROVE  StepSends
<1> DEFINE t == [s EXCEPT !.stream = str]
<1>1. /\ SenderInv(s) /\ Content(s) /\ s.segmentsOut = <<>> /\ s.timer \in Timers
      /\ s = [q |-> s.q, timer |-> s.timer, isn |-> Isn, stream |-> s.stream, segmentsOut |-> s.segmentsOut]
  BY DEF Inv2, Inv, SenderInv, IsSender
<1>2. SenderInv(t)
  BY <1>1, StreamKeeps DEF KeepsWith, Keeps
<1>3. t.q = s.q /\ t.stream = str /\ t.segmentsOut = <<>> /\ t.timer = s.timer
  BY <1>1
<1>4. Call(t)
  OBVIOUS
<1> HIDE DEF t
<1>5. t.segmentsOut \in Seq(Carried(t.stream))
  BY <1>3, EmptyIsSeq
<1>6. Content(t)
  BY <1>1, <1>3, <1>5 DEF Content
<1> QED
  BY <1>1, <1>2, <1>3, <1>4, <1>6, CallSends, SMTT(30) DEF StepSends, Timers

\* A call that sends.
LEMMA CallStep ==
  ASSUME NEW t, SenderInv(t), Sends(s, t), Call(t)
  PROVE  StepSends
BY CallSends DEF StepSends, Sends

\* The constructor establishes the invariant.
LEMMA InitContent == Init => Inv2
<1> SUFFICES ASSUME Init PROVE Inv2
  OBVIOUS
<1>1. /\ s.q = NewUnAckQueue /\ s.stream = NewByteStream(Capacity) /\ s.segmentsOut = <<>> /\ wire = <<>>
  BY DEF Init, NewTCPSender
<1>2. s.q.unAcked = <<>> /\ ~s.q.finSent /\ s.stream.buf = <<>>
  BY <1>1, SMTT(30) DEF NewUnAckQueue, NewByteStream
<1>3. Run(s.q.unAcked, s.q.baseSqn) /\ Run(s.stream.buf, s.stream.numRead + 1)
  BY <1>2, EmptyIsSeq, SMTT(30) DEF Run
<1>4. wire \in Seq(Carried(s.stream)) /\ s.segmentsOut \in Seq(Carried(s.stream))
  BY <1>1, EmptyIsSeq
<1> QED
  BY <1>2, <1>3, <1>4, InitInv DEF Inv2, Content

\* Every step sends segments of the stream.
LEMMA NextSends == Inv2 /\ Next => StepSends
<1> SUFFICES ASSUME Inv2, Next PROVE StepSends
  OBVIOUS
<1>1. /\ Inv /\ SenderInv(s) /\ IsSender(s) /\ s.stream \in Streams(Nat) /\ s.q \in UnAckQueues /\ s.timer \in Timers
      /\ QueueInv(s.q, s.stream.numRead) /\ s.segmentsOut = <<>> /\ Content(s)
  BY DEF Inv2, Inv, SenderInv, IsSender
<1>2. /\ s.stream.numRead \in Nat /\ s.stream.size \in Nat /\ s.stream.numWritten \in Nat
      /\ s.stream.numWritten = s.stream.numRead + s.stream.size /\ s.stream.numWritten <= StreamLen
      /\ s.stream.buf \in Seq(Nat) /\ Len(s.stream.buf) = s.stream.size
  BY <1>1 DEF Streams, SenderInv
<1>3. Run(s.stream.buf, s.stream.numRead + 1) /\ (s.q.finSent => Eof(s.stream))
  BY <1>1 DEF Content
<1>4. ASSUME NEW len \in 1..StreamLen, AppWrite(len)
      PROVE  StepSends
  <2> DEFINE from == s.stream.numWritten
             data == [i \in 1..len |-> from + i]
             n == ToWrite(s.stream, data)
             str == Write(s.stream, data)
             new == SubSeq(data, 1, n)
             old == s.stream.buf
             read == s.stream.numRead
  <2>1. len \in Nat /\ \A i \in 1..len : from + i \in Nat
    BY <1>2, SpecAssumption, SMTT(30)
  <2>2. data \in Seq(Nat) /\ Len(data) = len
    BY <2>1, FunctionIsSeq
  <2>3. Run(data, from + 1)
    <3>1. \A j \in 1..len : data[j] = from + 1 + j - 1
      BY <1>2, <2>1, SMTT(30)
    <3> HIDE DEF data
    <3> QED
      BY <2>2, <3>1 DEF Run
  <2>4. Call([s EXCEPT !.stream = str]) /\ from + len <= StreamLen
    BY <1>4 DEF AppWrite
  <2> HIDE DEF data
  <2>5. n \in 0..len /\ (s.stream.isInputEnd => n = 0)
    BY <1>1, <2>2, ToWriteFits, SMTT(30)
  <2>6. str \in Streams(Nat) /\ str.buf = old \o new
    BY <1>1, <2>2, WriteAppends, WriteBytes
  <2>7. /\ str.numRead = read /\ str.size = s.stream.size + n /\ str.numWritten = from + n
        /\ str.isInputEnd = s.stream.isInputEnd
    BY <1>1, <2>2, WriteCounts
  <2> HIDE DEF n, str
  <2>8. str.numWritten = str.numRead + str.size /\ str.numWritten <= StreamLen
    <3> DEFINE size == s.stream.size
    <3>1. from = read + size /\ from \in Nat /\ read \in Nat /\ size \in Nat
      BY <1>2
    <3>2. str.numWritten = from + n /\ str.numRead = read /\ str.size = size + n /\ from + len <= StreamLen
      BY <2>4, <2>7
    <3> HIDE DEF from, read, size
    <3> QED
      BY <2>1, <2>5, <3>1, <3>2, SpecAssumption, SMTT(30)
  <2>9. Run(str.buf, str.numRead + 1)
    <3> DEFINE first == read + 1
    <3>1. new \in Seq(Nat) /\ Run(new, from + 1)
      <4>1. from + 1 \in Nat /\ n \in 0..Len(data) /\ 0 + 1 = 1 /\ (from + 1) + 0 = from + 1
        BY <1>2, <2>2, <2>5, SMTT(30)
      <4> HIDE DEF from
      <4>2. SubSeq(data, 0 + 1, n) \in Seq(Nat) /\ Run(SubSeq(data, 0 + 1, n), (from + 1) + 0)
        BY <2>2, <2>3, <4>1, RunPart
      <4> QED
        BY <4>1, <4>2
    <3>2. /\ old \in Seq(Nat) /\ first \in Nat /\ Run(old, first)
          /\ from + 1 \in Nat /\ from + 1 = first + Len(old)
      <4> DEFINE size == s.stream.size
      <4>1. old \in Seq(Nat) /\ Run(old, first)
        BY <1>2, <1>3
      <4>2. from = read + size /\ read \in Nat /\ size \in Nat /\ Len(old) = size
        BY <1>2
      <4> HIDE DEF from, read, size, old
      <4> QED
        BY <4>1, <4>2, SMTT(30)
    <3> HIDE DEF old, first, new, from
    <3>3. Run(old \o new, first)
      BY <3>1, <3>2, RunConcat
    <3> QED
      BY <2>6, <2>7, <3>3 DEF first
  <2>10. s.q.finSent => Eof(str)
    <3>1. s.q.finSent => s.stream.size = 0 /\ s.stream.isInputEnd
      BY <1>3 DEF Eof
    <3> QED
      BY <2>5, <2>7, <3>1, SMTT(30) DEF Eof
  <2>11. str.numRead = s.stream.numRead
    BY <2>7
  <2> QED
    BY <2>4, <2>6, <2>8, <2>9, <2>10, <2>11, StreamSends
<1>5. CASE AppEndInput
  <2> DEFINE str == EndInput(s.stream)
  <2>1. /\ str \in Streams(Nat) /\ str.numRead = s.stream.numRead /\ str.size = s.stream.size
        /\ str.numWritten = s.stream.numWritten /\ str.buf = s.stream.buf
    BY <1>1 DEF EndInput, Streams
  <2>2. str.isInputEnd
    BY <1>1 DEF EndInput, Streams
  <2>3. Call([s EXCEPT !.stream = str])
    BY <1>5 DEF AppEndInput
  <2> HIDE DEF str
  <2>4. s.q.finSent => Eof(str)
    BY <1>3, <2>1, <2>2 DEF Eof
  <2> QED
    BY <1>2, <1>3, <2>1, <2>3, <2>4, StreamSends
<1>6. CASE CallFillWindow
  <2>1. SenderInv(FillWindow(s)) /\ Sends(s, FillWindow(s))
    BY <1>1, FillWindowKeeps, FillWindowContent DEF Keeps
  <2> QED
    BY <1>6, <2>1, CallStep, SMTT(30) DEF CallFillWindow
<1>7. CASE CallSendEmptySegment
  <2> DEFINE at == s.q.nextSeqno
             none == <<>>
             seg == Segment(Wrap(at, Isn), FALSE, FALSE, none)
             t == [s EXCEPT !.segmentsOut = <<seg>>]
  <2>1. at \in 0..StreamLen + 2 /\ s.isn = Isn
    BY <1>1, SequenceBounds, SMTT(30)
  <2>2. none \in Seq(Nat) /\ Run(none, at)
    BY EmptyIsSeq, SMTT(30) DEF Run
  <2>3. seg \in Carried(s.stream)
    <3> HIDE DEF none, at
    <3> QED
      BY <2>1, <2>2, SegmentCarried
  <2>4. SendEmptySegment(s) = t
    BY <1>1, <2>1, SMTT(30) DEF SendEmptySegment
  <2>5. Call(t)
    BY <1>7, <2>4 DEF CallSendEmptySegment
  <2> HIDE DEF seg
  <2>6. t.q = s.q /\ t.stream = s.stream /\ t.timer = s.timer /\ t.segmentsOut = <<seg>>
    BY <1>1 DEF IsSender
  <2>7. SenderInv(t)
    BY <1>1, QueuingKeeps DEF Keeps
  <2> HIDE DEF t
  <2>8. t.segmentsOut \in Seq(Carried(t.stream))
    BY <2>3, <2>6, SMTT(30)
  <2>9. Sends(s, t)
    BY <1>1, <2>6, <2>8, SMTT(30) DEF Sends, Content, Timers
  <2> QED
    BY <2>5, <2>7, <2>9, CallStep, SMTT(30)
<1>8. CASE CallTick
  <2> DEFINE t == SenderTick(s, 1)
  <2>1. SenderInv(t) /\ Call(t)
    BY <1>1, <1>8, TickKeeps, SMTT(30) DEF CallTick, Keeps
  <2>2. /\ Content(t)
        /\ \/ Sends(s, t)
           \/ Len(t.segmentsOut) = 1 /\ t.segmentsOut[1].seqno = Wrap(s.q.baseSqn, s.isn)
    BY <1>1, TickContent
  <2> HIDE DEF t
  <2>3. CASE Sends(s, t)
    BY <2>1, <2>3, CallStep, SMTT(30)
  <2>4. CASE Len(t.segmentsOut) = 1 /\ t.segmentsOut[1].seqno = Wrap(s.q.baseSqn, s.isn)
    BY <2>1, <2>2, <2>4, CallSends, SMTT(30) DEF StepSends, Oldest
  <2> QED
    BY <2>2, <2>3, <2>4
<1>9. ASSUME NEW ackno \in Acceptable, NEW win \in 0..MaxWin, ArriveAck(ackno, win)
      PROVE  StepSends
  <2> DEFINE t == AckReceived(s, Wrap(ackno, s.isn), win)
  <2>1. s.q.synSent /\ ackno >= 1 /\ Call(t) /\ win \in Nat
    BY <1>9, SpecAssumption, SMTT(30) DEF ArriveAck
  <2>2. SenderInv(t) /\ ackno \in Nat /\ ackno >= s.q.baseSqn
    BY <1>1, <2>1, AcceptableAck
  <2>3. s.q.baseSqn \in Nat /\ s.q.nextSeqno \in Nat /\ s.q.baseSqn <= s.q.nextSeqno
    BY <1>1, SequenceBounds, SMTT(30)
  <2>4. \/ ackno = s.q.baseSqn
        \/ ackno = s.q.nextSeqno
        \/ \E k \in DOMAIN s.q.ends : s.q.ends[k] = ackno
    BY <1>1 DEF Acceptable, Inv
  <2>5. ackno <= s.q.nextSeqno
    <3>1. \A k \in DOMAIN s.q.ends : s.q.ends[k] \in Nat /\ s.q.ends[k] <= LastEnd(s.q)
      BY <1>1, <1>2, EndsBounded, SMTT(30)
    <3>2. LastEnd(s.q) \in Nat /\ LastEnd(s.q) <= s.q.nextSeqno
      BY <1>1, <1>2, EndsBounded
    <3> QED
      BY <2>3, <2>4, <3>1, <3>2, SMTT(30)
  <2>6. Sends(s, t)
    <3>1. CASE ackno = s.q.baseSqn
      <4>1. ackno <= s.q.baseSqn
        BY <2>3, <3>1, SMTT(30)
      <4> QED
        BY <1>1, <2>1, <2>2, <4>1, OldAckContent, SMTT(30)
    <3>2. CASE ackno # s.q.baseSqn
      <4>1. ackno > s.q.baseSqn
        BY <2>2, <2>3, <3>2, SMTT(30)
      <4> QED
        BY <1>1, <2>1, <2>2, <2>4, <2>5, <3>2, <4>1, NewAckContent, SMTT(30)
    <3> QED
      BY <3>1, <3>2, SMTT(30)
  <2> HIDE DEF t
  <2> QED
    BY <2>1, <2>2, <2>6, CallStep
<1>10. ASSUME NEW ack \in late, ArriveLateAck(ack)
       PROVE  StepSends
  <2> DEFINE a == ack.ackno
             t == AckReceived(s, Wrap(a, s.isn), ack.win)
  <2>1. a \in Nat /\ a >= 1 /\ a <= s.q.baseSqn /\ ack.win \in Nat
    <3>1. a \in 1..s.q.baseSqn /\ ack.win \in Nat /\ s.q.baseSqn \in Nat
      BY <1>1 DEF Inv, UnAckQueues
    <3> HIDE DEF a
    <3> QED
      BY <3>1, SMTT(30)
  <2>2. Call(t)
    BY <1>10 DEF ArriveLateAck
  <2>3. SenderInv(t) /\ Sends(s, t)
    BY <1>1, <2>1, OldAckKeeps, OldAckContent DEF Keeps
  <2> HIDE DEF t
  <2> QED
    BY <2>2, <2>3, CallStep
<1> QED
  BY <1>4, <1>5, <1>6, <1>7, <1>8, <1>9, <1>10, SMTT(30) DEF Next

\* No call breaks the invariant.
LEMMA NextContent == Inv2 /\ [Next]_vars => Inv2'
<1> SUFFICES ASSUME Inv2, [Next]_vars PROVE Inv2'
  OBVIOUS
<1>1. Inv'
  BY NextInv DEF Inv2
<1>2. CASE Next
  BY <1>1, <1>2, NextSends, SMTT(30) DEF Inv2, StepSends, Content, Carried, CarriesFrom
<1>3. CASE UNCHANGED vars
  BY <1>1, <1>3 DEF vars, Inv2, Content, Carried, CarriesFrom
<1> QED
  BY <1>2, <1>3

\* Inv2 is an invariant of the specification.
LEMMA SpecContent == Spec => []Inv2
<1> QED
  BY InitContent, NextContent, PTL DEF Spec

\* Every segment that goes out, at first or again, carries the bytes that the application wrote at
\* its sequence number, and a FIN only behind the last byte of a stream that was ended: after any
\* run of writes, acks, late acks and timeouts, for every size of window, payload and stream.
THEOREM SenderCarries == Spec => []SegmentsCarryTheStream
<1>1. Inv2 => SegmentsCarryTheStream
  <2> SUFFICES ASSUME Inv2, NEW k \in DOMAIN wire
               PROVE  LET seg == wire[k]
                          first == Unwrap(seg.seqno, s.isn, s.q.baseSqn)
                      IN  /\ \A j \in DOMAIN seg.payload : seg.payload[j] = first + j - 1
                          /\ seg.syn => first = 0
                          /\ seg.fin => /\ s.stream.isInputEnd
                                        /\ first + Len(seg.payload) + OneIf(seg.syn) = s.stream.numWritten + 1
    BY DEF SegmentsCarryTheStream
  <2> DEFINE seg == wire[k]
             first == Unwrap(seg.seqno, s.isn, s.q.baseSqn)
  <2>1. seg \in Carried(s.stream)
    BY SeqIsFunction, ElementType DEF Inv2
  <2>2. PICK n \in 0..StreamLen + 2 : CarriesFrom(seg, n, s.stream)
    BY <2>1 DEF Carried
  <2>3. seg.payload \in Seq(Nat)
    BY <2>1 DEF Carried, Segments
  <2>4. /\ s.q.baseSqn \in Nat /\ s.q.baseSqn <= StreamLen + 2 /\ s.isn = Isn /\ StreamLen \in Nat
    <3>1. SenderInv(s)
      BY DEF Inv2, Inv
    <3>2. /\ s.q.baseSqn \in Nat /\ s.q.nextSeqno \in Nat /\ s.q.baseSqn <= s.q.nextSeqno
          /\ s.q.nextSeqno <= StreamLen + 2 /\ s.isn = Isn /\ StreamLen \in Nat
      BY <3>1, SequenceBounds
    <3> QED
      BY <3>2, SMTT(30)
  <2>5. first = n
    <3> DEFINE base == s.q.baseSqn
    <3>1. n \in Nat /\ base \in Nat /\ Isn \in Int /\ base - n < Half /\ n - base <= Half
      BY <2>4, SpecAssumption, SeqModAssumption, HalfOfSeqMod, SMTT(30)
    <3>2. first = Unwrap(Wrap(n, Isn), Isn, base)
      BY <2>2, <2>4, SMTT(30) DEF CarriesFrom
    <3> HIDE DEF base, first
    <3> QED
      BY <3>1, <3>2, UnwrapNear
  <2> HIDE DEF first
  <2>6. \A j \in DOMAIN seg.payload : seg.payload[j] = first + j - 1
    <3>1. DOMAIN seg.payload = 1..Len(seg.payload)
      BY <2>3, SeqIsFunction
    <3> QED
      BY <2>2, <2>5, <3>1 DEF CarriesFrom, Run
  <2>7. /\ seg.syn => first = 0
        /\ seg.fin => /\ s.stream.isInputEnd
                      /\ first + Len(seg.payload) + OneIf(seg.syn) = s.stream.numWritten + 1
    BY <2>2, <2>5 DEF CarriesFrom
  <2> QED
    BY <2>6, <2>7, SMTT(30) DEF first
<1> QED
  BY <1>1, SpecContent, PTL

\* A retransmission is of the oldest segment: whenever the count of retransmissions in a row goes
\* up, tick() has sent exactly one segment, and it starts at baseSqn.
THEOREM SenderRetransmits == Spec => RetransmitsOldest
<1>1. Inv2 /\ [Next]_vars =>
        [s'.timer.consecutiveRetransmissions > s.timer.consecutiveRetransmissions =>
           Len(wire') = 1 /\ wire'[1].seqno = Wrap(s.q.baseSqn, s.isn)]_vars
  <2> SUFFICES ASSUME Inv2, Next,
                      s'.timer.consecutiveRetransmissions > s.timer.consecutiveRetransmissions
               PROVE  Oldest
    BY DEF Oldest
  <2>1. StepSends /\ Inv'
    BY NextSends, NextInv DEF Inv2
  <2>2. s.timer.consecutiveRetransmissions \in Nat
    BY DEF Inv2, Inv, SenderInv, IsSender, Timers
  <2>3. s'.timer.consecutiveRetransmissions \in Nat
    BY <2>1 DEF Inv, SenderInv, IsSender, Timers
  <2> QED
    BY <2>1, <2>2, <2>3, SMTT(30) DEF StepSends
<1> QED
  BY <1>1, SpecContent, PTL DEF Spec, RetransmitsOldest
==========================================================================
