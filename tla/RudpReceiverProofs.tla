------------------------- MODULE RudpReceiverProofs -------------------------
(***************************************************************************)
(* What one call of process_segment does to the receiver, for a stream w   *)
(* of packets numbered from 0.  Used by RudpConnectionProofs with the      *)
(* packets the sender has made.  The facts about Min, Max, intervals,      *)
(* integer division and subsequences that come first serve all the proofs  *)
(* about the transport.                                                    *)
(***************************************************************************)
EXTENDS RudpReceiver, FiniteSetTheorems, SequenceTheorems, TLAPS

\* Every nonempty set of naturals has a least element, which Min names.  The
\* intervals 0..x, x in S, are finite sets, and strict inclusion of finite sets
\* is well-founded.
LEMMA LeastElement ==
    ASSUME NEW S \in SUBSET Nat, S # {}
    PROVE  /\ Min(S) \in S
           /\ \A x \in S : Min(S) <= x
<1> DEFINE T == {0..x : x \in S}
<1>1. T \subseteq FiniteSubsetsOf(Nat)
  <2> SUFFICES ASSUME NEW x \in S
               PROVE  0..x \in FiniteSubsetsOf(Nat)
    BY Zenon
  <2>1. x \in Nat
    OBVIOUS
  <2>2. IsFiniteSet(0..x)
    BY <2>1, FS_Interval
  <2> QED BY <2>1, <2>2 DEF FiniteSubsetsOf
<1>2. T # {}
  OBVIOUS
<1>3. PICK t \in T : \A u \in T : ~ (<<u, t>> \in StrictSubsetOrdering(Nat))
  BY <1>1, <1>2, FS_StrictSubsetOrderingWellFounded, WFMin, Zenon
<1>4. PICK m \in S : t = 0..m
  OBVIOUS
<1>5. ASSUME NEW y \in S, y < m PROVE FALSE
  <2>1. /\ 0..y \subseteq 0..m
        /\ 0..y # 0..m
        /\ 0..y \in SUBSET Nat
        /\ 0..m \in SUBSET Nat
    BY <1>5
  <2>2. 0..y \in T
    OBVIOUS
  <2>3. <<0..y, 0..m>> \in StrictSubsetOrdering(Nat)
    BY <2>1, Zenon DEF StrictSubsetOrdering
  <2> QED BY <2>2, <2>3, <1>3, <1>4, Zenon
<1>6. \A y \in S : m <= y
  BY <1>5
<1> QED BY <1>6 DEF Min

\* Every nonempty set of naturals with an upper bound has a greatest element.
LEMMA GreatestElement ==
    ASSUME NEW b \in Nat, NEW S \in SUBSET (0..b), S # {}
    PROVE  /\ Max(S) \in S
           /\ \A x \in S : x <= Max(S)
<1> DEFINE T == {b - x : x \in S}
<1>1. T \in SUBSET Nat
  <2> SUFFICES ASSUME NEW x \in S PROVE b - x \in Nat
    BY Zenon
  <2> QED OBVIOUS
<1>2. T # {}
  BY Zenon
<1>3. Min(T) \in T /\ \A y \in T : Min(T) <= y
  BY <1>1, <1>2, LeastElement
<1>4. PICK m \in S : Min(T) = b - m
  BY <1>3
<1>5. \A x \in S : x <= m
  BY <1>3, <1>4
<1> QED BY <1>5 DEF Max

\* A set of integers strictly between a and a + n has fewer than n elements.
LEMMA OpenIntervalBound ==
    ASSUME NEW a \in Int, NEW n \in Nat \ {0}, NEW S,
           \A x \in S : x \in Int /\ x > a /\ x < a + n
    PROVE  IsFiniteSet(S) /\ Cardinality(S) \in 0..(n - 1)
<1>1. S \in SUBSET ((a + 1)..(a + n - 1))
  OBVIOUS
<1>2. /\ IsFiniteSet((a + 1)..(a + n - 1))
      /\ Cardinality((a + 1)..(a + n - 1)) = n - 1
  BY FS_Interval
<1>3. IsFiniteSet(S) /\ Cardinality(S) <= n - 1
  BY <1>1, <1>2, FS_Subset
<1> QED BY <1>3, FS_CardinalityType

\* Integer division by a positive number.
LEMMA Division ==
    ASSUME NEW a \in Nat, NEW d \in Nat \ {0}
    PROVE  /\ a \div d \in Nat
           /\ d * (a \div d) <= a
           /\ a < d * (a \div d) + d
  BY SMTT(30)

\* The first k elements of a sequence.
LEMMA PrefixElements ==
    ASSUME NEW S, NEW s \in Seq(S), NEW k \in 0..Len(s)
    PROVE  /\ SubSeq(s, 1, k) \in Seq(S)
           /\ Len(SubSeq(s, 1, k)) = k
           /\ \A i \in 1..k : SubSeq(s, 1, k)[i] = s[i]
  OBVIOUS

\* What remains of a sequence after its first k elements.
LEMMA SuffixElements ==
    ASSUME NEW S, NEW s \in Seq(S), NEW k \in 0..Len(s)
    PROVE  /\ SubSeq(s, k + 1, Len(s)) \in Seq(S)
           /\ Len(SubSeq(s, k + 1, Len(s))) = Len(s) - k
           /\ \A i \in 1..(Len(s) - k) : SubSeq(s, k + 1, Len(s))[i] = s[k + i]
<1> DEFINE n == Len(s)
<1>1. n \in Nat /\ k \in Nat /\ k <= n
  OBVIOUS
<1>2. Len(SubSeq(s, k + 1, n)) = n - k
  OBVIOUS
<1>3. SubSeq(s, k + 1, n) \in Seq(S)
  OBVIOUS
<1>4. \A i \in 1..(n - k) : SubSeq(s, k + 1, n)[i] = s[k + i]
  <2> SUFFICES ASSUME NEW i \in 1..(n - k)
               PROVE  SubSeq(s, k + 1, n)[i] = s[k + i]
    OBVIOUS
  <2>1. SubSeq(s, k + 1, n)[i] = s[(k + 1) + i - 1]
    OBVIOUS
  <2> QED BY <2>1, <1>1
<1> QED BY <1>2, <1>3, <1>4

\* Two sequences one after the other.
LEMMA ConcatElements ==
    ASSUME NEW S, NEW s \in Seq(S), NEW t \in Seq(S)
    PROVE  /\ s \o t \in Seq(S)
           /\ Len(s \o t) = Len(s) + Len(t)
           /\ \A i \in 1..Len(s) : (s \o t)[i] = s[i]
           /\ \A i \in 1..Len(t) : (s \o t)[Len(s) + i] = t[i]
  BY ConcatProperties

\* The first element of an interval and the others.
LEMMA IntervalHead ==
    ASSUME NEW a \in Nat, NEW b \in Nat
    PROVE  \A n \in a..(b - 1) : n = a \/ n \in (a + 1)..(b - 1)
  OBVIOUS

\* A number that is not in an interval and not below it is above it.
LEMMA AboveInterval ==
    ASSUME NEW a \in Nat, NEW b \in Nat, NEW n \in Nat, n >= a, n \notin a..(b - 1)
    PROVE  n >= b
  OBVIOUS

\* Multiplication by a natural is monotonic.
LEMMA TimesMonotonic ==
    ASSUME NEW i \in Nat, NEW j \in Nat, i <= j, NEW m \in Nat
    PROVE  i * m \in Nat /\ j * m \in Nat /\ i * m <= j * m
<1>1. PICK d \in Nat : j = i + d
  <2>1. j - i \in Nat /\ j = i + (j - i)
    OBVIOUS
  <2> QED BY <2>1
<1>2. j * m = i * m + d * m /\ i * m \in Nat /\ d * m \in Nat
  BY <1>1
<1> QED BY <1>2

-----------------------------------------------------------------------------

\* The packets consumed so far are the first expected_seq packets of w: those
\* of the delivered messages, then those in the assembly buffer.
Consumed(w) ==
    /\ expected_seq <= Len(w)
    /\ Len(delivered) + Len(assembly_buffer) = expected_seq
    /\ \A i \in 1..Len(delivered) : delivered[i] = w[i]
    /\ \A i \in 1..Len(assembly_buffer) :
            assembly_buffer[i] = w[Len(delivered) + i]

\* Buffered packets are packets of w, under their own sequence numbers.
Buffered(w) ==
    \A n \in DOMAIN ooo_buffer : n < Len(w) /\ ooo_buffer[n] = w[n + 1]

\* The receiver's part of the inductive invariant.
RcvInv(w) ==
    /\ RcvTypeOK
    /\ Consumed(w)
    /\ Buffered(w)
    /\ BufferInWindow
    /\ WholeMessages

\* Consumed, as one equation between sequences.
LEMMA ConsumedIsPrefix ==
    ASSUME NEW w \in Seq(DataPacket), RcvTypeOK, Consumed(w)
    PROVE  delivered \o assembly_buffer = SubSeq(w, 1, expected_seq)
<1> DEFINE l == delivered \o assembly_buffer
           r == SubSeq(w, 1, expected_seq)
<1>1. delivered \in Seq(DataPacket) /\ assembly_buffer \in Seq(DataPacket)
      /\ expected_seq \in Nat /\ expected_seq <= Len(w)
  BY DEF RcvTypeOK, Consumed
<1>2. /\ l \in Seq(DataPacket)
      /\ Len(l) = expected_seq
      /\ \A i \in 1..expected_seq : l[i] = w[i]
  BY <1>1, ConcatProperties DEF Consumed
<1>3. /\ r \in Seq(DataPacket)
      /\ Len(r) = expected_seq
      /\ \A i \in 1..expected_seq : r[i] = w[i]
  BY <1>1
<1> QED BY <1>2, <1>3, SeqEqual

\* LastFin names a position with a FIN, and there is none after it.
LEMMA LastFinPosition ==
    ASSUME NEW s \in Seq(DataPacket)
    PROVE  /\ LastFin(s) \in 0..Len(s)
           /\ LastFin(s) > 0 => s[LastFin(s)].is_fin
           /\ \A i \in 1..Len(s) : i > LastFin(s) => ~ s[i].is_fin
<1> DEFINE F == {0} \cup {i \in DOMAIN s : s[i].is_fin}
<1>1. Len(s) \in Nat /\ F \in SUBSET (0..Len(s)) /\ F # {}
  OBVIOUS
<1>2. Max(F) \in F /\ \A i \in F : i <= Max(F)
  BY <1>1, GreatestElement
<1>3. LastFin(s) = Max(F)
  BY DEF LastFin
<1>4. LastFin(s) \in 0..Len(s)
  BY <1>1, <1>2, <1>3
<1>5. LastFin(s) > 0 => s[LastFin(s)].is_fin
  BY <1>2, <1>3
<1>6. ASSUME NEW i \in 1..Len(s), i > LastFin(s), s[i].is_fin
      PROVE  FALSE
  <2>1. i \in F
    BY <1>6
  <2> QED BY <2>1, <1>2, <1>3, <1>4, <1>6
<1> QED BY <1>4, <1>5, <1>6

\* DrainEnd is the first gap: everything before it is buffered, it is not.
LEMMA DrainEndIsFirstGap ==
    ASSUME RcvTypeOK, BufferInWindow
    PROVE  /\ DrainEnd \in (expected_seq + 1)..(expected_seq + MAX_RWND)
           /\ DrainEnd \notin DOMAIN ooo_buffer
           /\ \A n \in (expected_seq + 1)..(DrainEnd - 1) : n \in DOMAIN ooo_buffer
<1> DEFINE G == {n \in (expected_seq + 1)..(expected_seq + MAX_RWND) :
                    n \notin DOMAIN ooo_buffer}
<1>1. expected_seq \in Nat /\ MAX_RWND \in Nat \ {0}
  BY RwndAssumption DEF RcvTypeOK
<1>2. expected_seq + MAX_RWND \in G
  BY <1>1 DEF BufferInWindow
<1>3. G \in SUBSET Nat /\ G # {}
  BY <1>1, <1>2
<1>4. Min(G) \in G /\ \A n \in G : Min(G) <= n
  BY <1>3, LeastElement
<1>5. DrainEnd = Min(G)
  BY DEF DrainEnd
<1> QED BY <1>1, <1>4, <1>5

\* The ACK of any call: it acknowledges expected_seq, with an open window.
LEMMA AcknowledgeSends ==
    ASSUME RcvTypeOK, BufferInWindow', expected_seq' \in Nat,
           DOMAIN ooo_buffer' \subseteq Nat, Acknowledge
    PROVE  /\ fc_state' \in {"NORMAL", "THROTTLE"}
           /\ \E r \in 1..MAX_RWND :
                 ack_net' = ack_net \cup {[ack_num |-> expected_seq', rwnd |-> r]}
<1> DEFINE used == Cardinality(DOMAIN ooo_buffer')
<1>1. MAX_RWND \in Nat \ {0}
  BY RwndAssumption
<1>2. used \in 0..(MAX_RWND - 1)
  BY <1>1, OpenIntervalBound DEF BufferInWindow
<1>3. RwndFor(used) \in 1..MAX_RWND
  BY <1>1, <1>2 DEF RwndFor, Larger
<1>4. fc_state' \in {"NORMAL", "THROTTLE"}
  BY DEF Acknowledge, NextFcState, RcvTypeOK
<1> QED BY <1>3, <1>4 DEF Acknowledge

\* InOrder advances over the run of buffered packets and delivers what is whole.
LEMMA InOrderStep ==
    ASSUME NEW w \in Seq(DataPacket), RcvInv(w),
           NEW seg, seg \in DataPacket,
           expected_seq < Len(w), seg = w[expected_seq + 1],
           InOrder(seg)
    PROVE  /\ expected_seq' \in (expected_seq + 1)..Len(w)
           /\ \A n \in (expected_seq + 1)..(expected_seq' - 1) :
                    n \in DOMAIN ooo_buffer
           /\ DOMAIN ooo_buffer' \subseteq DOMAIN ooo_buffer
           /\ Len(delivered) <= Len(delivered')
           /\ RcvInv(w)'
<1> DEFINE e == expected_seq
           f == DrainEnd
           run == [i \in 1..(f - e) |->
                      IF i = 1 THEN seg ELSE ooo_buffer[e + i - 1]]
           all == assembly_buffer \o run
           L == LastFin(all)
<1>1. /\ e \in Nat /\ MAX_RWND \in Nat \ {0}
      /\ f \in (e + 1)..(e + MAX_RWND)
      /\ f \notin DOMAIN ooo_buffer
      /\ \A n \in (e + 1)..(f - 1) : n \in DOMAIN ooo_buffer
  BY DrainEndIsFirstGap, RwndAssumption DEF RcvInv, RcvTypeOK
<1>2. expected_seq' = f /\ f <= Len(w)
  <2>1. CASE f = e + 1
    BY <2>1, <1>1 DEF InOrder
  <2>2. CASE f > e + 1
    <3>1. f - 1 \in DOMAIN ooo_buffer
      BY <2>2, <1>1
    <3> QED BY <3>1, <1>1 DEF InOrder, RcvInv, Buffered
  <2> QED BY <2>1, <2>2, <1>1
<1>3. /\ run \in Seq(DataPacket)
      /\ Len(run) = f - e
      /\ \A i \in 1..(f - e) : run[i] = w[e + i]
  <2>1. \A i \in 1..(f - e) : run[i] = w[e + i]
    BY <1>1 DEF RcvInv, Buffered
  <2>2. \A i \in 1..(f - e) : w[e + i] \in DataPacket
    BY <1>1, <1>2
  <2>3. f - e \in Nat
    BY <1>1
  <2>4. run \in [1..(f - e) -> DataPacket]
    BY <2>1, <2>2
  <2> HIDE DEF run
  <2>5. run \in Seq(DataPacket) /\ Len(run) = f - e
    BY <2>3, <2>4
  <2> QED BY <2>1, <2>5
<1>4. /\ delivered \in Seq(DataPacket) /\ assembly_buffer \in Seq(DataPacket)
      /\ Len(delivered) + Len(assembly_buffer) = e
  BY DEF RcvInv, RcvTypeOK, Consumed
<1>5. /\ all \in Seq(DataPacket)
      /\ Len(all) = Len(assembly_buffer) + (f - e)
      /\ \A i \in 1..Len(all) : all[i] = w[Len(delivered) + i]
  <2> HIDE DEF run
  <2>1. /\ all \in Seq(DataPacket)
        /\ Len(all) = Len(assembly_buffer) + Len(run)
        /\ \A i \in 1..Len(all) :
              all[i] = IF i <= Len(assembly_buffer) THEN assembly_buffer[i]
                       ELSE run[i - Len(assembly_buffer)]
    BY <1>3, <1>4, ConcatProperties
  <2> HIDE DEF all, f
  <2>2. Len(all) = Len(assembly_buffer) + (f - e)
    BY <2>1, <1>3
  <2>3. ASSUME NEW i \in 1..Len(all)
        PROVE  all[i] = w[Len(delivered) + i]
    <3>1. CASE i <= Len(assembly_buffer)
      <4>1. i \in 1..Len(assembly_buffer)
        BY <3>1, <1>4
      <4>2. assembly_buffer[i] = w[Len(delivered) + i]
        BY <4>1 DEF RcvInv, Consumed
      <4>3. all[i] = assembly_buffer[i]
        BY <3>1, <2>1
      <4> QED BY <4>2, <4>3
    <3>2. CASE i > Len(assembly_buffer)
      <4> DEFINE j == i - Len(assembly_buffer)
      <4>1. j \in 1..(f - e) /\ e + j = Len(delivered) + i
        <5>1. /\ i \in Int /\ Len(delivered) \in Int /\ Len(assembly_buffer) \in Int
              /\ e \in Int /\ f \in Int
          BY <1>1, <1>4
        <5>2. /\ i <= Len(assembly_buffer) + (f - e)
              /\ Len(delivered) + Len(assembly_buffer) = e
          BY <2>2, <1>4
        <5> HIDE DEF e
        <5> QED BY <5>1, <5>2, <3>2
      <4>2. all[i] = run[j]
        BY <3>2, <2>1, <1>4
      <4>3. run[j] = w[e + j]
        BY <4>1, <1>3
      <4> QED BY <4>1, <4>2, <4>3
    <3> QED BY <3>1, <3>2, <1>4
  <2> QED BY <2>1, <2>2, <2>3
<1>6. /\ L \in 0..Len(all)
      /\ L > 0 => all[L].is_fin
      /\ \A i \in 1..Len(all) : i > L => ~ all[i].is_fin
  BY <1>5, LastFinPosition
<1>7. /\ delivered' = delivered \o SubSeq(all, 1, L)
      /\ assembly_buffer' = SubSeq(all, L + 1, Len(all))
  BY DEF InOrder, Assemble
<1> HIDE DEF all, run, L, f
<1>8. /\ SubSeq(all, 1, L) \in Seq(DataPacket)
      /\ Len(SubSeq(all, 1, L)) = L
      /\ \A i \in 1..L : SubSeq(all, 1, L)[i] = all[i]
  BY <1>5, <1>6, PrefixElements
<1>9. /\ assembly_buffer' \in Seq(DataPacket)
      /\ Len(assembly_buffer') = Len(all) - L
      /\ \A i \in 1..(Len(all) - L) : assembly_buffer'[i] = all[L + i]
  <2>1. /\ SubSeq(all, L + 1, Len(all)) \in Seq(DataPacket)
        /\ Len(SubSeq(all, L + 1, Len(all))) = Len(all) - L
        /\ \A i \in 1..(Len(all) - L) :
              SubSeq(all, L + 1, Len(all))[i] = all[L + i]
    BY <1>5, <1>6, SuffixElements
  <2> QED BY <2>1, <1>7, Zenon
<1>10. /\ delivered' \in Seq(DataPacket)
       /\ Len(delivered') = Len(delivered) + L
       /\ \A i \in 1..Len(delivered) : delivered'[i] = delivered[i]
       /\ \A i \in 1..L : delivered'[Len(delivered) + i] = all[i]
  <2> DEFINE head == SubSeq(all, 1, L)
  <2>1. head \in Seq(DataPacket) /\ Len(head) = L /\ \A i \in 1..L : head[i] = all[i]
    BY <1>8
  <2> HIDE DEF head
  <2>2. /\ delivered \o head \in Seq(DataPacket)
        /\ Len(delivered \o head) = Len(delivered) + Len(head)
        /\ \A i \in 1..Len(delivered) : (delivered \o head)[i] = delivered[i]
        /\ \A i \in 1..Len(head) : (delivered \o head)[Len(delivered) + i] = head[i]
    BY <1>4, <2>1, ConcatElements
  <2>3. delivered' = delivered \o head
    BY <1>7 DEF head
  <2> QED BY <2>1, <2>2, <2>3
<1>11. Consumed(w)'
  <2>1. \A i \in 1..Len(delivered') : delivered'[i] = w[i]
    <3> SUFFICES ASSUME NEW i \in 1..Len(delivered')
                 PROVE  delivered'[i] = w[i]
      OBVIOUS
    <3>1. CASE i <= Len(delivered)
      BY <3>1, <1>4, <1>10 DEF RcvInv, Consumed
    <3>2. CASE i > Len(delivered)
      <4>1. i - Len(delivered) \in 1..L
        BY <3>2, <1>4, <1>6, <1>10
      <4>2. delivered'[i] = all[i - Len(delivered)]
        BY <4>1, <1>4, <1>10
      <4> QED BY <4>1, <4>2, <1>4, <1>5, <1>6
    <3> QED BY <3>1, <3>2, <1>4
  <2>2. \A i \in 1..Len(assembly_buffer') :
            assembly_buffer'[i] = w[Len(delivered') + i]
    <3> SUFFICES ASSUME NEW i \in 1..Len(assembly_buffer')
                 PROVE  assembly_buffer'[i] = w[Len(delivered') + i]
      OBVIOUS
    <3>1. i \in 1..(Len(all) - L) /\ L + i \in 1..Len(all)
      BY <1>5, <1>6, <1>9
    <3>2. assembly_buffer'[i] = w[Len(delivered) + (L + i)]
      BY <3>1, <1>5, <1>9
    <3> QED BY <3>1, <3>2, <1>4, <1>6, <1>10
  <2>3. Len(delivered') + Len(assembly_buffer') = expected_seq'
    <3>1. /\ Len(delivered') = Len(delivered) + L
          /\ Len(assembly_buffer') = Len(all) - L
          /\ Len(all) = Len(assembly_buffer) + (f - e)
      BY <1>5, <1>9, <1>10, Zenon
    <3>2. L \in Int /\ Len(delivered) \in Nat /\ Len(assembly_buffer) \in Nat
      BY <1>4, <1>5, <1>6
    <3>3. expected_seq' = f /\ f \in Int /\ e \in Int
      BY <1>1, <1>2
    <3>4. Len(delivered) + Len(assembly_buffer) = e
      BY <1>4
    <3> HIDE DEF e
    <3> QED BY <3>1, <3>2, <3>3, <3>4
  <2> QED BY <2>1, <2>2, <2>3, <1>2 DEF Consumed
<1>12. /\ DOMAIN ooo_buffer' = {n \in DOMAIN ooo_buffer : n >= f}
       /\ \A n \in DOMAIN ooo_buffer' : ooo_buffer'[n] = ooo_buffer[n]
       /\ ooo_buffer' = [n \in DOMAIN ooo_buffer' |-> ooo_buffer'[n]]
  BY DEF InOrder, Restrict, f
<1>13. BufferInWindow'
  BY <1>1, <1>2, <1>12 DEF RcvInv, RcvTypeOK, BufferInWindow
<1>14. Buffered(w)'
  BY <1>12 DEF RcvInv, Buffered
<1>15. WholeMessages'
  <2>1. \A i \in 1..Len(assembly_buffer') : ~ assembly_buffer'[i].is_fin
    <3> SUFFICES ASSUME NEW i \in 1..Len(assembly_buffer')
                 PROVE  ~ assembly_buffer'[i].is_fin
      OBVIOUS
    <3>1. L + i \in 1..Len(all) /\ L + i > L /\ i \in 1..(Len(all) - L)
      BY <1>5, <1>6, <1>9
    <3>2. assembly_buffer'[i] = all[L + i]
      BY <3>1, <1>9
    <3> QED BY <3>1, <3>2, <1>6
  <2>2. ASSUME delivered' # <<>> PROVE delivered'[Len(delivered')].is_fin
    <3>1. CASE L > 0
      <4>1. L \in 1..L /\ Len(delivered') = Len(delivered) + L
        BY <3>1, <1>5, <1>6, <1>10
      <4>2. delivered'[Len(delivered')] = all[L]
        BY <4>1, <1>10
      <4> QED BY <4>2, <3>1, <1>6
    <3>2. CASE L = 0
      <4>1. Len(delivered') = Len(delivered) /\ delivered # <<>>
        BY <2>2, <3>2, <1>4, <1>10
      <4>2. Len(delivered) \in 1..Len(delivered)
        BY <4>1, <1>4
      <4>3. delivered'[Len(delivered')] = delivered[Len(delivered)]
        BY <4>1, <4>2, <1>10
      <4> QED BY <4>1, <4>3 DEF RcvInv, WholeMessages
    <3> QED BY <3>1, <3>2, <1>6, <1>5
  <2> QED BY <2>1, <2>2, <1>9 DEF WholeMessages
<1>16. RcvTypeOK'
  <2>1. expected_seq' \in Nat /\ DOMAIN ooo_buffer' \subseteq Nat
    BY <1>1, <1>2, <1>12 DEF RcvInv, RcvTypeOK
  <2>2. ooo_buffer' \in [DOMAIN ooo_buffer' -> DataPacket]
    BY <1>12 DEF RcvInv, RcvTypeOK
  <2>3. /\ fc_state' \in {"NORMAL", "THROTTLE"}
        /\ ack_net' \subseteq AckPacket
    <3>1. Acknowledge /\ ack_net \subseteq AckPacket
      BY DEF InOrder, RcvInv, RcvTypeOK
    <3> QED BY <2>1, <3>1, <1>1, <1>13, AcknowledgeSends DEF RcvInv, AckPacket
  <2> QED BY <2>1, <2>2, <2>3, <1>9, <1>10 DEF RcvTypeOK
<1>17. Len(delivered) <= Len(delivered')
  BY <1>4, <1>5, <1>6, <1>10
<1> QED BY <1>1, <1>2, <1>11, <1>12, <1>13, <1>14, <1>15, <1>16, <1>17 DEF RcvInv

\* A call that consumes nothing and keeps the assembly state.
LEMMA NothingConsumed ==
    ASSUME NEW w \in Seq(DataPacket), RcvInv(w),
           UNCHANGED <<expected_seq, assembly_buffer, delivered>>,
           DOMAIN ooo_buffer' \subseteq Nat,
           ooo_buffer' \in [DOMAIN ooo_buffer' -> DataPacket],
           Buffered(w)', BufferInWindow', Acknowledge
    PROVE  RcvInv(w)'
<1>1. Consumed(w)' /\ WholeMessages'
  BY DEF RcvInv, Consumed, WholeMessages
<1>2. /\ fc_state' \in {"NORMAL", "THROTTLE"}
      /\ ack_net' \subseteq AckPacket
  <2>1. RcvTypeOK /\ expected_seq' \in Nat /\ ack_net \subseteq AckPacket
    BY DEF RcvInv, RcvTypeOK
  <2> QED BY <2>1, AcknowledgeSends, RwndAssumption DEF AckPacket
<1>3. RcvTypeOK'
  BY <1>2 DEF RcvInv, RcvTypeOK
<1> QED BY <1>1, <1>3 DEF RcvInv

\* OutOfOrder only adds the packet to the buffer, once.
LEMMA OutOfOrderStep ==
    ASSUME NEW w \in Seq(DataPacket), RcvInv(w),
           NEW seg \in DataPacket,
           seg.seq_num < Len(w), seg = w[seg.seq_num + 1],
           OutOfOrder(seg)
    PROVE  /\ DOMAIN ooo_buffer' = DOMAIN ooo_buffer \cup {seg.seq_num}
           /\ RcvInv(w)'
<1> DEFINE n == seg.seq_num
<1>1. /\ n \in Nat /\ expected_seq \in Nat /\ MAX_RWND \in Nat
      /\ n > expected_seq /\ n < expected_seq + MAX_RWND
      /\ DOMAIN ooo_buffer \subseteq Nat
      /\ ooo_buffer \in [DOMAIN ooo_buffer -> DataPacket]
  BY RwndAssumption DEF OutOfOrder, RcvInv, RcvTypeOK, DataPacket
<1>2. /\ ooo_buffer' = [m \in DOMAIN ooo_buffer \cup {n} |->
                          IF m \in DOMAIN ooo_buffer THEN ooo_buffer[m] ELSE seg]
      /\ UNCHANGED <<expected_seq, assembly_buffer, delivered>>
      /\ Acknowledge
  BY DEF OutOfOrder
<1>3. /\ DOMAIN ooo_buffer' = DOMAIN ooo_buffer \cup {n}
      /\ \A m \in DOMAIN ooo_buffer' :
            ooo_buffer'[m] = IF m \in DOMAIN ooo_buffer THEN ooo_buffer[m] ELSE seg
      /\ ooo_buffer' \in [DOMAIN ooo_buffer' -> DataPacket]
  BY <1>1, <1>2
<1>4. Buffered(w)'
  BY <1>1, <1>3 DEF Buffered, RcvInv
<1>5. BufferInWindow'
  BY <1>1, <1>2, <1>3 DEF BufferInWindow, RcvInv
<1> QED BY <1>1, <1>2, <1>3, <1>4, <1>5, NothingConsumed

\* A duplicate and a packet beyond the window change nothing but the ACK.
LEMMA IgnoredStep ==
    ASSUME NEW w \in Seq(DataPacket), RcvInv(w), NEW seg,
           Duplicate(seg) \/ OutOfWindow(seg)
    PROVE  ooo_buffer' = ooo_buffer /\ RcvInv(w)'
<1>1. /\ UNCHANGED <<expected_seq, ooo_buffer, assembly_buffer, delivered>>
      /\ Acknowledge
  BY DEF Duplicate, OutOfWindow
<1>2. Buffered(w)' /\ BufferInWindow'
  BY <1>1 DEF RcvInv, Buffered, BufferInWindow
<1> QED BY <1>1, <1>2, NothingConsumed DEF RcvInv, RcvTypeOK

\* What a call of process_segment may do when the peer has sent the first u
\* packets of w and the segment is one of them: nothing beyond u is consumed or
\* buffered, expected_seq never moves back, and one ACK for it is sent.
LEMMA ProcessSegmentStep ==
    ASSUME NEW w \in Seq(DataPacket), RcvInv(w),
           NEW u \in 0..Len(w), expected_seq <= u,
           \A n \in DOMAIN ooo_buffer : n < u,
           NEW seg \in DataPacket, seg.seq_num < u, seg = w[seg.seq_num + 1],
           ProcessSegment(seg)
    PROVE  /\ RcvInv(w)'
           /\ expected_seq <= expected_seq' /\ expected_seq' <= u
           /\ \A n \in DOMAIN ooo_buffer' : n < u
           /\ Len(delivered) <= Len(delivered')
           /\ \E r \in 1..MAX_RWND :
                 ack_net' = ack_net \cup {[ack_num |-> expected_seq', rwnd |-> r]}
<1>1. /\ expected_seq \in Nat /\ u \in Nat /\ Len(w) \in Nat /\ seg.seq_num \in Nat
      /\ Len(delivered) \in Nat
  <2>1. expected_seq \in Nat /\ delivered \in Seq(DataPacket)
    BY DEF RcvInv, RcvTypeOK
  <2>2. Len(w) \in Nat /\ Len(delivered) \in Nat
    BY <2>1
  <2>3. seg.seq_num \in Nat
    BY DEF DataPacket
  <2> QED BY <2>1, <2>2, <2>3
<1>2. /\ RcvInv(w)'
      /\ expected_seq <= expected_seq' /\ expected_seq' <= u
      /\ \A n \in DOMAIN ooo_buffer' : n < u
      /\ Len(delivered) <= Len(delivered')
      /\ Acknowledge
  <2>1. CASE Duplicate(seg) \/ OutOfWindow(seg)
    <3>1. ooo_buffer' = ooo_buffer /\ RcvInv(w)'
      BY <2>1, IgnoredStep
    <3> QED BY <2>1, <3>1, <1>1 DEF Duplicate, OutOfWindow
  <2>2. CASE InOrder(seg)
    <3>1. seg.seq_num = expected_seq /\ Acknowledge
      BY <2>2 DEF InOrder
    <3>0. expected_seq < Len(w) /\ seg = w[expected_seq + 1]
      BY <3>1, <1>1
    <3>2. /\ expected_seq' \in (expected_seq + 1)..Len(w)
          /\ \A n \in (expected_seq + 1)..(expected_seq' - 1) : n \in DOMAIN ooo_buffer
          /\ DOMAIN ooo_buffer' \subseteq DOMAIN ooo_buffer
          /\ Len(delivered) <= Len(delivered')
          /\ RcvInv(w)'
      BY <2>2, <3>0, InOrderStep, Zenon
    <3>3. expected_seq' <= u
      <4> DEFINE f == expected_seq'
      <4>0. f \in Int /\ f >= expected_seq + 1
        BY <3>2, <1>1
      <4> HIDE DEF f
      <4>1. CASE f = expected_seq + 1
        BY <4>1, <3>1, <1>1 DEF f
      <4>2. CASE f > expected_seq + 1
        <5>1. f - 1 \in (expected_seq + 1)..(f - 1)
          BY <4>0, <4>2, <1>1
        <5>2. f - 1 \in DOMAIN ooo_buffer
          BY <5>1, <3>2 DEF f
        <5>3. f - 1 < u
          BY <5>2
        <5>4. f <= u
          BY <5>3, <4>0, <1>1
        <5> QED BY <5>4 DEF f
      <4> QED BY <4>0, <4>1, <4>2, <1>1
    <3> QED BY <3>1, <3>2, <3>3, <1>1
  <2>3. CASE OutOfOrder(seg)
    <3>0. seg.seq_num < Len(w)
      BY <1>1
    <3>1. DOMAIN ooo_buffer' = DOMAIN ooo_buffer \cup {seg.seq_num} /\ RcvInv(w)'
      BY <2>3, <3>0, OutOfOrderStep, Zenon
    <3> QED BY <2>3, <3>1, <1>1 DEF OutOfOrder
  <2> QED BY <2>1, <2>2, <2>3 DEF ProcessSegment
<1> QED BY <1>2, AcknowledgeSends DEF RcvInv, RcvTypeOK

\* A call consumes and buffers nothing but its segment and what was buffered.
LEMMA ProcessSegmentConsumes ==
    ASSUME NEW w \in Seq(DataPacket), RcvInv(w),
           NEW seg \in DataPacket, seg.seq_num < Len(w), seg = w[seg.seq_num + 1],
           ProcessSegment(seg)
    PROVE  /\ \A n \in expected_seq..(expected_seq' - 1) :
                 n = seg.seq_num \/ n \in DOMAIN ooo_buffer
           /\ DOMAIN ooo_buffer' \subseteq DOMAIN ooo_buffer \cup {seg.seq_num}
<1>1. expected_seq \in Nat
  BY DEF RcvInv, RcvTypeOK
<1>2. CASE Duplicate(seg) \/ OutOfWindow(seg)
  <2>1. UNCHANGED <<expected_seq, ooo_buffer>>
    BY <1>2 DEF Duplicate, OutOfWindow
  <2> QED BY <2>1, <1>1
<1>3. CASE InOrder(seg)
  <2>1. seg.seq_num = expected_seq
    BY <1>3 DEF InOrder
  <2>2. expected_seq < Len(w) /\ seg = w[expected_seq + 1]
    BY <2>1
  <2>3. /\ expected_seq' \in (expected_seq + 1)..Len(w)
        /\ \A n \in (expected_seq + 1)..(expected_seq' - 1) : n \in DOMAIN ooo_buffer
        /\ DOMAIN ooo_buffer' \subseteq DOMAIN ooo_buffer
    BY <1>3, <2>2, InOrderStep, Zenon
  <2>4. PICK f \in Nat : f = expected_seq'
    BY <2>3, <1>1
  <2>5. \A n \in expected_seq..(f - 1) :
           n = expected_seq \/ n \in (expected_seq + 1)..(f - 1)
    BY <2>4, <1>1, IntervalHead, Zenon
  <2> QED BY <2>1, <2>3, <2>4, <2>5, Zenon
<1>4. CASE OutOfOrder(seg)
  <2>1. DOMAIN ooo_buffer' = DOMAIN ooo_buffer \cup {seg.seq_num}
    BY <1>4, OutOfOrderStep, Zenon
  <2>2. expected_seq' = expected_seq
    BY <1>4 DEF OutOfOrder
  <2> QED BY <2>1, <2>2, <1>1
<1> QED BY <1>2, <1>3, <1>4 DEF ProcessSegment

\* More packets behind the ones of w make no difference to the receiver.
LEMMA LongerStream ==
    ASSUME NEW w \in Seq(DataPacket), NEW x \in Seq(DataPacket),
           Len(w) <= Len(x), \A i \in 1..Len(w) : x[i] = w[i], RcvInv(w)
    PROVE  RcvInv(x)
<1>1. /\ expected_seq \in Nat /\ Len(w) \in Nat /\ Len(x) \in Nat
      /\ Len(delivered) \in Nat /\ Len(assembly_buffer) \in Nat
      /\ DOMAIN ooo_buffer \subseteq Nat
  BY DEF RcvInv, RcvTypeOK
<1>2. Consumed(x)
  <2>1. /\ expected_seq <= Len(w)
        /\ Len(delivered) + Len(assembly_buffer) = expected_seq
    BY DEF RcvInv, Consumed
  <2>2. ASSUME NEW i \in 1..Len(delivered) PROVE delivered[i] = x[i]
    <3>1. i \in 1..Len(w)
      BY <1>1, <2>1
    <3> QED BY <3>1 DEF RcvInv, Consumed
  <2>3. ASSUME NEW i \in 1..Len(assembly_buffer)
        PROVE  assembly_buffer[i] = x[Len(delivered) + i]
    <3>1. Len(delivered) + i \in 1..Len(w)
      BY <1>1, <2>1
    <3> QED BY <3>1 DEF RcvInv, Consumed
  <2> QED BY <1>1, <2>1, <2>2, <2>3 DEF Consumed
<1>3. Buffered(x)
  BY <1>1 DEF RcvInv, Buffered
<1> QED BY <1>2, <1>3 DEF RcvInv

=============================================================================
