------------------------ MODULE RudpConnectionProofs ------------------------
(***************************************************************************)
(* The safety of one direction of a connection, for every MSS, window,     *)
(* threshold, set of message lengths and behaviour of the network: first   *)
(* with the operations of the sender atomic, then with its two threads     *)
(* (RudpThreads).                                                          *)
(***************************************************************************)
EXTENDS RudpThreads, RudpReceiverProofs

-----------------------------------------------------------------------------
(***************************************************************************)
(* The sender alone: what its operations do to its window over the stream  *)
(* of packets made by enqueue_data.                                        *)
(***************************************************************************)

\* The packets of a stream are numbered from 0, carry at most MSS bytes each,
\* follow one another in the byte stream, and end with a whole message.
Shape(w) ==
    /\ \A i \in 1..Len(w) : w[i].seq_num = i - 1
    /\ \A i \in 1..Len(w) : w[i].lo <= w[i].hi /\ w[i].hi <= w[i].lo + MSS
    /\ \A i, j \in 1..Len(w) : i < j => w[i].hi <= w[j].lo
    /\ \A i \in 1..Len(w) : i + 1 <= Len(w) => w[i + 1].lo = w[i].hi
    /\ Len(w) > 0 => w[Len(w)].is_fin

\* Payload bytes of the packets b .. u-1 of w.
Span(w, b, u) == IF u = b THEN 0 ELSE w[u].hi - w[b + 1].lo

\* Of the packets of w, those before b are acknowledged, b .. u-1 are in flight
\* and the rest wait.
WindowAt(w, b, u) ==
    /\ send_buffer = SubSeq(w, u + 1, Len(w))
    /\ unacked_packets = [s \in b..(u - 1) |-> w[s + 1]]
    /\ inflight_bytes = Span(w, b, u)

\* The segments in flight are bounded by the peer's window, and one is allowed.
LEMMA EffectiveWindowBounds ==
    ASSUME NEW cw \in Nat, NEW r \in Nat \ {0}
    PROVE  EffectiveWindow(cw, r) \in 1..r
<1>1. cw \div MSS \in Nat
  BY MSSAssumption, Division
<1> QED BY <1>1 DEF EffectiveWindow, Smaller, Larger

\* The fields of a packet of a stream.
LEMMA PacketFields ==
    ASSUME NEW w \in Seq(DataPacket), NEW i \in 1..Len(w)
    PROVE  w[i] \in DataPacket /\ w[i].seq_num \in Nat
           /\ w[i].lo \in Nat /\ w[i].hi \in Nat /\ w[i].is_fin \in BOOLEAN
<1>1. w[i] \in DataPacket
  OBVIOUS
<1> QED BY <1>1 DEF DataPacket

\* The byte counts of adjacent runs of packets add up.
LEMMA SpanAdds ==
    ASSUME NEW w \in Seq(DataPacket), Shape(w), NEW b \in Nat,
           NEW u \in Nat, NEW v \in Nat, b <= u, u <= v, v <= Len(w)
    PROVE  /\ Span(w, b, u) \in Nat
           /\ Span(w, b, v) = Span(w, b, u) + Span(w, u, v)
<1>1. \A i \in 1..Len(w) : w[i].lo \in Nat /\ w[i].hi \in Nat
  BY PacketFields
<1>2. ASSUME NEW x \in Nat, NEW y \in Nat, x < y, y <= Len(w)
      PROVE  w[y].hi - w[x + 1].lo \in Nat
  <2>1. x + 1 \in 1..Len(w) /\ y \in 1..Len(w)
    BY <1>2
  <2>2. w[x + 1].lo <= w[x + 1].hi /\ w[y].lo <= w[y].hi
    BY <2>1 DEF Shape
  <2>3. CASE y = x + 1
    BY <1>1, <2>1, <2>2, <2>3
  <2>4. CASE x + 1 < y
    <3>1. w[x + 1].hi <= w[y].lo
      BY <2>1, <2>4 DEF Shape
    <3> QED BY <1>1, <2>1, <2>2, <3>1
  <2> QED BY <2>3, <2>4, <1>2
<1>3. Span(w, b, u) \in Nat
  BY <1>2 DEF Span
<1>4. CASE b < u /\ u < v
  <2>1. u \in 1..Len(w) /\ u + 1 \in 1..Len(w) /\ u + 1 <= Len(w)
        /\ v \in 1..Len(w) /\ b + 1 \in 1..Len(w)
    BY <1>4
  <2>2. w[u + 1].lo = w[u].hi
    BY <2>1 DEF Shape
  <2> QED BY <1>1, <1>3, <1>4, <2>1, <2>2 DEF Span
<1>5. CASE b = u
  <2>1. Span(w, u, v) \in Nat
    BY <1>2 DEF Span
  <2> QED BY <1>3, <1>5, <2>1 DEF Span
<1>6. CASE u = v
  BY <1>3, <1>6 DEF Span
<1> QED BY <1>3, <1>4, <1>5, <1>6

\* Dropping u and then k packets from the front drops u + k.
LEMMA SuffixOfSuffix ==
    ASSUME NEW S, NEW w \in Seq(S), NEW u \in 0..Len(w), NEW k \in 0..(Len(w) - u),
           NEW buf, buf = SubSeq(w, u + 1, Len(w))
    PROVE  SubSeq(buf, k + 1, Len(buf)) = SubSeq(w, u + k + 1, Len(w))
<1>1. /\ buf \in Seq(S) /\ Len(buf) = Len(w) - u
      /\ \A i \in 1..(Len(w) - u) : buf[i] = w[u + i]
  BY SuffixElements
<1> DEFINE l == SubSeq(buf, k + 1, Len(buf))
           r == SubSeq(w, (u + k) + 1, Len(w))
<1>2. k \in 0..Len(buf) /\ u + k \in 0..Len(w)
  BY <1>1
<1>3. /\ l \in Seq(S) /\ Len(l) = Len(buf) - k
      /\ \A i \in 1..(Len(buf) - k) : l[i] = buf[k + i]
  BY <1>1, <1>2, SuffixElements
<1>4. /\ r \in Seq(S) /\ Len(r) = Len(w) - (u + k)
      /\ \A i \in 1..(Len(w) - (u + k)) : r[i] = w[(u + k) + i]
  BY <1>2, SuffixElements
<1> HIDE DEF l, r
<1>5. Len(l) = Len(r)
  BY <1>1, <1>2, <1>3, <1>4
<1>6. ASSUME NEW i \in 1..Len(l) PROVE l[i] = r[i]
  <2>1. i \in 1..(Len(buf) - k) /\ i \in 1..(Len(w) - (u + k))
        /\ k + i \in 1..(Len(w) - u) /\ u + (k + i) = (u + k) + i
    BY <1>1, <1>2, <1>3, <1>5, <1>4
  <2> QED BY <2>1, <1>1, <1>3, <1>4
<1>7. l = r
  BY <1>3, <1>4, <1>5, <1>6, SeqEqual
<1> QED BY <1>7 DEF l, r

\* The packets of the stream w that wait from u on.
WaitsFrom(w, u, buf) ==
    /\ w \in Seq(DataPacket) /\ Shape(w)
    /\ u \in Nat /\ u <= Len(w)
    /\ buf \in Seq(DataPacket) /\ Len(buf) = Len(w) - u
    /\ \A i \in 1..(Len(w) - u) : buf[i] = w[u + i]

\* The first k packets of buf are the packets u .. u+k-1 of w.
Front(w, u, buf, k) ==
    /\ {buf[i] : i \in 1..k} = {w[i] : i \in (u + 1)..(u + k)}
    /\ {buf[i].seq_num : i \in 1..k} = u..(u + k - 1)
    /\ \A s \in u..(u + k - 1) : buf[s - buf[1].seq_num + 1] = w[s + 1]

\* The first k of the packets that wait from u on are the packets u .. u+k-1.
LEMMA FrontOfBuffer ==
    ASSUME NEW w, NEW u, NEW buf, WaitsFrom(w, u, buf),
           NEW k, k \in Nat, u + k <= Len(w)
    PROVE  Front(w, u, buf, k)
<1> SUFFICES /\ {buf[i] : i \in 1..k} = {w[i] : i \in (u + 1)..(u + k)}
             /\ {buf[i].seq_num : i \in 1..k} = u..(u + k - 1)
             /\ \A s \in u..(u + k - 1) : buf[s - buf[1].seq_num + 1] = w[s + 1]
  BY DEF Front
<1> /\ w \in Seq(DataPacket) /\ Shape(w) /\ u \in Nat /\ buf \in Seq(DataPacket)
    /\ \A i \in 1..(Len(w) - u) : buf[i] = w[u + i]
  BY DEF WaitsFrom
<1>1. ASSUME NEW i \in 1..k
      PROVE  /\ buf[i] = w[u + i]
             /\ u + i \in (u + 1)..(u + k)
             /\ buf[i].seq_num = u + i - 1
             /\ u + i - 1 \in u..(u + k - 1)
  <2>1. i \in 1..(Len(w) - u) /\ u + i \in 1..Len(w)
    OBVIOUS
  <2>2. buf[i] = w[u + i]
    BY <2>1
  <2>3. w[u + i].seq_num = u + i - 1
    <3>1. \A j \in 1..Len(w) : w[j].seq_num = j - 1
      BY Zenon DEF Shape
    <3> QED BY <2>1, <3>1
  <2>4. u + i \in (u + 1)..(u + k) /\ u + i - 1 \in u..(u + k - 1)
    OBVIOUS
  <2> QED BY <2>2, <2>3, <2>4, Zenon
<1>2. ASSUME NEW j \in (u + 1)..(u + k)
      PROVE  j - u \in 1..k /\ w[j] = buf[j - u]
  <2>1. j - u \in 1..k /\ u + (j - u) = j
    OBVIOUS
  <2> QED BY <2>1, <1>1
<1>3. ASSUME NEW s \in u..(u + k - 1)
      PROVE  /\ s - u + 1 \in 1..k
             /\ buf[s - u + 1].seq_num = s
             /\ buf[s - u + 1] = w[s + 1]
             /\ buf[1].seq_num = u
  <2>1. s - u + 1 \in 1..k /\ 1 \in 1..k
        /\ u + (s - u + 1) = s + 1 /\ u + (s - u + 1) - 1 = s /\ u + 1 - 1 = u
    OBVIOUS
  <2> QED BY <2>1, <1>1
<1>4. {buf[i] : i \in 1..k} = {w[i] : i \in (u + 1)..(u + k)}
  <2>1. ASSUME NEW i \in 1..k PROVE buf[i] \in {w[j] : j \in (u + 1)..(u + k)}
    BY <1>1, Zenon
  <2>2. ASSUME NEW j \in (u + 1)..(u + k) PROVE w[j] \in {buf[i] : i \in 1..k}
    BY <1>2, Zenon
  <2> QED BY <2>1, <2>2, Zenon
<1>5. {buf[i].seq_num : i \in 1..k} = u..(u + k - 1)
  <2>1. \A i \in 1..k : buf[i].seq_num \in u..(u + k - 1)
    <3> SUFFICES ASSUME NEW i \in 1..k PROVE buf[i].seq_num \in u..(u + k - 1)
      OBVIOUS
    <3>1. buf[i].seq_num = u + i - 1 /\ u + i - 1 \in u..(u + k - 1)
      BY <1>1, Zenon
    <3> QED BY <3>1, Zenon
  <2>2. \A s \in u..(u + k - 1) : \E i \in 1..k : s = buf[i].seq_num
    BY <1>3, Zenon
  <2> QED BY <2>1, <2>2, Zenon
<1>6. \A s \in u..(u + k - 1) : buf[s - buf[1].seq_num + 1] = w[s + 1]
  BY <1>3
<1> QED BY <1>4, <1>5, <1>6

\* A waiting packet may be sent when nothing is in flight.
LEMMA FirstMayGo ==
    ASSUME NEW w \in Seq(DataPacket), Shape(w), NEW u \in Nat, u < Len(w),
           NEW cw \in Nat, cw >= MSS, NEW r \in Nat \ {0},
           NEW buf, buf[1] = w[u + 1]
    PROVE  MayRelease(1, buf, 0, 0, cw, r)
<1>1. u + 1 \in 1..Len(w)
  OBVIOUS
<1>2. /\ w[u + 1].hi \in Nat /\ w[u + 1].lo \in Nat
      /\ w[u + 1].hi <= w[u + 1].lo + MSS
  BY <1>1, PacketFields DEF Shape
<1>3. RunBytes(buf[1], buf[1]) \in Int /\ RunBytes(buf[1], buf[1]) <= cw
  BY <1>2, MSSAssumption DEF RunBytes
<1>4. EffectiveWindow(cw, r) \in 1..r
  BY EffectiveWindowBounds
<1> QED BY <1>3, <1>4 DEF MayRelease

\* After k more packets the window b .. u+k-1 is within bounds and not empty
\* while something waits.
Fits(w, b, u, k) ==
    /\ k \in Nat /\ u + k <= Len(w)
    /\ u + k <= b + MAX_RWND
    /\ u + k = b => u + k = Len(w)

\* How many packets _try_send releases when u - b packets are in flight and the
\* packets from u on wait: not past the peer's window, and not none at all when
\* nothing is in flight and something waits.
LEMMA ReleasedBounds ==
    ASSUME NEW w, NEW u, NEW buf, WaitsFrom(w, u, buf),
           NEW b, b \in Nat, b <= u, u <= b + MAX_RWND,
           NEW cw, cw \in Nat, cw >= MSS, NEW r, r \in 1..MAX_RWND,
           NEW k, k = Released(buf, u - b, Span(w, b, u), cw, r)
    PROVE  Fits(w, b, u, k)
<1> SUFFICES /\ k \in Nat /\ u + k <= Len(w)
             /\ u + k <= b + MAX_RWND
             /\ u + k = b => u + k = Len(w)
  BY DEF Fits
<1> /\ w \in Seq(DataPacket) /\ Shape(w) /\ u \in Nat /\ u <= Len(w)
    /\ buf \in Seq(DataPacket) /\ Len(buf) = Len(w) - u
    /\ \A i \in 1..(Len(w) - u) : buf[i] = w[u + i]
  BY DEF WaitsFrom
<1> DEFINE used == u - b
           infl == Span(w, b, u)
           K == {j \in 0..Len(buf) : MayRelease(j, buf, used, infl, cw, r)}
<1>1. MAX_RWND \in Nat \ {0} /\ Len(w) \in Nat /\ r \in Nat \ {0} /\ Len(buf) \in Nat
  BY RwndAssumption
<1>2. 0 \in K /\ K \in SUBSET (0..Len(buf))
  BY <1>1 DEF MayRelease
<1>3. Max(K) \in K /\ \A j \in K : j <= Max(K)
  BY <1>1, <1>2, GreatestElement
<1>4. k = Max(K)
  BY DEF Released
<1>5. k \in 0..(Len(w) - u) /\ MayRelease(k, buf, used, infl, cw, r)
  BY <1>3, <1>4
<1>6. u + k <= b + MAX_RWND
  <2>1. CASE k = 0
    BY <2>1
  <2>2. CASE k > 0
    <3>1. used + k <= EffectiveWindow(cw, r)
      BY <2>2, <1>5 DEF MayRelease
    <3>2. EffectiveWindow(cw, r) \in 1..r
      BY <1>1, EffectiveWindowBounds
    <3> QED BY <3>1, <3>2, <1>1, <1>5
  <2> QED BY <2>1, <2>2, <1>5
<1>7. ASSUME u + k = b, u < Len(w) PROVE FALSE
  <2>1. u = b /\ k = 0 /\ used = 0
    BY <1>5, <1>7
  <2>2. infl = 0
    BY <2>1 DEF Span
  <2>3. 1 \in 1..(Len(w) - u) /\ 1 \in 0..Len(buf)
    BY <1>1, <1>7
  <2>4. buf[1] = w[u + 1]
    BY <2>3
  <2>5. MayRelease(1, buf, 0, 0, cw, r)
    BY <1>1, <1>7, <2>4, FirstMayGo
  <2>6. 1 \in K
    BY <2>1, <2>2, <2>3, <2>5
  <2> QED BY <2>1, <2>6, <1>3, <1>4
<1> QED BY <1>1, <1>5, <1>6, <1>7

\* _try_send moves the front of the waiting packets into flight, in order, never
\* past the peer's window, and never leaves everything waiting.
LEMMA TrySendLoopStep ==
    ASSUME NEW w \in Seq(DataPacket), Shape(w),
           NEW b \in Nat, NEW u \in Nat, b <= u, u <= Len(w), u <= b + MAX_RWND,
           NEW cw \in Nat, cw >= MSS, NEW r \in 1..MAX_RWND,
           NEW un, un = [s \in b..(u - 1) |-> w[s + 1]],
           NEW infl, infl = Span(w, b, u),
           TrySend(SubSeq(w, u + 1, Len(w)), un, infl, cw, r)
    PROVE  \E v \in u..Len(w) :
              /\ WindowAt(w, b, v)'
              /\ data_net' = data_net \cup {w[i] : i \in (u + 1)..v}
              /\ v <= b + MAX_RWND
              /\ v = b => v = Len(w)
<1> DEFINE buf == SubSeq(w, u + 1, Len(w))
           k == Released(buf, u - b, infl, cw, r)
           sent == [s \in {buf[i].seq_num : i \in 1..k} |->
                       buf[s - buf[1].seq_num + 1]]
<1>1. Len(w) \in Nat /\ u \in 0..Len(w)
  OBVIOUS
<1>2. /\ buf \in Seq(DataPacket)
      /\ Len(buf) = Len(w) - u
      /\ \A i \in 1..(Len(w) - u) : buf[i] = w[u + i]
  BY <1>1, SuffixElements
<1>3. DOMAIN un = b..(u - 1) /\ Cardinality(b..(u - 1)) = u - b
  <2>1. DOMAIN un = b..(u - 1)
    BY Zenon
  <2>2. b \in Int /\ u - 1 \in Int
    OBVIOUS
  <2>3. Cardinality(b..(u - 1)) = IF b > u - 1 THEN 0 ELSE (u - 1) - b + 1
    BY <2>2, FS_Interval, Zenon
  <2>4. (IF b > u - 1 THEN 0 ELSE (u - 1) - b + 1) = u - b
    OBVIOUS
  <2>5. Cardinality(b..(u - 1)) = u - b
    <3>1. CASE b = u
      BY <3>1, <2>2, <2>3
    <3>2. CASE b < u
      BY <3>2, <2>2, <2>3
    <3> QED BY <3>1, <3>2
  <2> QED BY <2>1, <2>5, Zenon
<1>4. /\ send_buffer' = SubSeq(buf, k + 1, Len(buf))
      /\ unacked_packets' = [s \in DOMAIN un \cup DOMAIN sent |->
                               IF s \in DOMAIN sent THEN sent[s] ELSE un[s]]
      /\ inflight_bytes' = IF k = 0 THEN infl
                           ELSE infl + RunBytes(buf[1], buf[k])
      /\ data_net' = data_net \cup {buf[i] : i \in 1..k}
  BY <1>3 DEF TrySend
<1>5. /\ k \in Nat /\ u + k <= Len(w)
      /\ u + k <= b + MAX_RWND
      /\ u + k = b => u + k = Len(w)
  <2>1. k = Released(buf, u - b, Span(w, b, u), cw, r)
    BY Zenon
  <2>2. WaitsFrom(w, u, buf)
    BY <1>1, <1>2 DEF WaitsFrom
  <2> HIDE DEF buf, k
  <2>3. Fits(w, b, u, k)
    BY <2>1, <2>2, ReleasedBounds, Zenon
  <2> QED BY <2>3, Zenon DEF Fits
<1> HIDE DEF k
<1>6. send_buffer' = SubSeq(w, u + k + 1, Len(w))
  <2>1. k \in 0..(Len(w) - u)
    BY <1>1, <1>5
  <2> QED BY <2>1, <1>1, <1>4, SuffixOfSuffix
<1> HIDE DEF buf
<1>7. /\ {buf[i] : i \in 1..k} = {w[i] : i \in (u + 1)..(u + k)}
      /\ {buf[i].seq_num : i \in 1..k} = u..(u + k - 1)
      /\ \A s \in u..(u + k - 1) : buf[s - buf[1].seq_num + 1] = w[s + 1]
  <2> HIDE DEF sent
  <2>1. k \in Nat /\ u + k <= Len(w)
    BY <1>5
  <2>2. WaitsFrom(w, u, buf)
    BY <1>1, <1>2 DEF WaitsFrom
  <2>3. Front(w, u, buf, k)
    BY <2>1, <2>2, FrontOfBuffer, Zenon
  <2> QED BY <2>3, Zenon DEF Front
<1>8. unacked_packets' = [s \in b..((u + k) - 1) |-> w[s + 1]]
  <2>1. DOMAIN sent = u..(u + k - 1) /\ \A s \in u..(u + k - 1) : sent[s] = w[s + 1]
    BY <1>7
  <2>2. DOMAIN un \cup u..(u + k - 1) = b..((u + k) - 1)
    BY <1>3, <1>5
  <2> HIDE DEF sent
  <2>3. unacked_packets' = [s \in b..((u + k) - 1) |->
                              IF s \in u..(u + k - 1) THEN sent[s] ELSE un[s]]
    BY <2>1, <2>2, <1>4
  <2>4. \A s \in b..((u + k) - 1) : s \notin u..(u + k - 1) => un[s] = w[s + 1]
    BY <1>5
  <2> QED BY <2>1, <2>3, <2>4
<1>9. inflight_bytes' = Span(w, b, u + k)
  <2>1. Span(w, b, u + k) = Span(w, b, u) + Span(w, u, u + k)
        /\ Span(w, b, u) \in Nat
    BY <1>1, <1>5, SpanAdds
  <2>2. CASE k = 0
    BY <2>2, <1>4, <1>5
  <2>3. CASE k > 0
    <3>1. 1 \in 1..(Len(w) - u) /\ k \in 1..(Len(w) - u)
      BY <2>3, <1>1, <1>5
    <3>2. buf[1] = w[u + 1] /\ buf[k] = w[u + k]
      BY <3>1, <1>2
    <3>3. Span(w, u, u + k) = w[u + k].hi - w[u + 1].lo
      BY <2>3, <1>5 DEF Span
    <3>4. inflight_bytes' = infl + (w[u + k].hi - w[u + 1].lo)
      BY <2>3, <3>2, <1>4, <1>5 DEF RunBytes
    <3> QED BY <3>3, <3>4, <2>1
  <2> QED BY <2>2, <2>3, <1>5
<1>10. WindowAt(w, b, u + k)'
  BY <1>6, <1>8, <1>9 DEF WindowAt
<1>11. data_net' = data_net \cup {w[i] : i \in (u + 1)..(u + k)}
  BY <1>4, <1>7
<1>12. u + k \in u..Len(w)
  BY <1>1, <1>5
<1> QED BY <1>5, <1>10, <1>11, <1>12

-----------------------------------------------------------------------------
(***************************************************************************)
(* enqueue_data                                                            *)
(***************************************************************************)

\* The number of packets of a message: enough for its bytes, and none too many.
LEMMA ChunkCount ==
    ASSUME NEW len \in Nat
    PROVE  /\ NumChunks(len) \in Nat \ {0}
           /\ (NumChunks(len) - 1) * MSS <= len
           /\ len <= NumChunks(len) * MSS
<1> DEFINE L == Larger(len, 1)
           n == NumChunks(len)
<1>1. MSS \in Nat \ {0} /\ L \in Nat /\ L >= 1 /\ L >= len /\ (L = len \/ len = 0)
  BY MSSAssumption DEF Larger
<1> HIDE DEF L
<1>2. L + MSS - 1 \in Nat
  BY <1>1
<1>3. n \in Nat /\ MSS * n <= L + MSS - 1 /\ L + MSS - 1 < MSS * n + MSS
  BY <1>1, <1>2, Division DEF NumChunks, L
<1> HIDE DEF n
<1>4. MSS * n = n * MSS /\ n * MSS \in Nat
  BY <1>1, <1>3
<1>5. n # 0
  <2>1. n * MSS >= L /\ L >= 1
    BY <1>1, <1>3, <1>4
  <2>2. n = 0 => n * MSS = 0
    BY <1>1
  <2> QED BY <2>1, <2>2, <1>1
<1>6. len <= n * MSS
  BY <1>1, <1>3, <1>4
<1>7. (n - 1) * MSS = n * MSS - MSS
  BY <1>1, <1>3
<1>8. (n - 1) * MSS <= len
  <2>1. CASE L = len
    BY <2>1, <1>1, <1>3, <1>4, <1>7
  <2>2. CASE len = 0 /\ L # len
    <3>1. L = 1
      BY <2>2, <1>1 DEF L, Larger
    <3>2. n * MSS <= MSS
      BY <3>1, <1>1, <1>3, <1>4
    <3> QED BY <3>2, <2>2, <1>1, <1>4, <1>7
  <2> QED BY <2>1, <2>2, <1>1
<1> QED BY <1>3, <1>5, <1>6, <1>8 DEF n

\* Where the packets of one message begin and end in the byte stream.
LEMMA ChunkBytes ==
    ASSUME NEW len \in Nat, NEW i \in 1..NumChunks(len)
    PROVE  /\ (i - 1) * MSS \in Nat
           /\ Smaller(i * MSS, len) \in Nat
           /\ (i - 1) * MSS <= Smaller(i * MSS, len)
           /\ Smaller(i * MSS, len) <= (i - 1) * MSS + MSS
           /\ i < NumChunks(len) => Smaller(i * MSS, len) = i * MSS
<1> DEFINE n == NumChunks(len)
<1>1. /\ MSS \in Nat \ {0} /\ n \in Nat \ {0}
      /\ (n - 1) * MSS <= len /\ len <= n * MSS
  BY MSSAssumption, ChunkCount
<1> HIDE DEF n
<1>2. i \in Nat /\ i - 1 \in Nat /\ n - 1 \in Nat /\ i - 1 <= n - 1 /\ i - 1 <= i
  BY <1>1 DEF n
<1>3. /\ (i - 1) * MSS \in Nat /\ (n - 1) * MSS \in Nat
      /\ (i - 1) * MSS <= (n - 1) * MSS
  BY <1>1, <1>2, TimesMonotonic
<1>4. i * MSS = (i - 1) * MSS + MSS /\ i * MSS \in Nat
  BY <1>1, <1>2
<1>5. i < n => i * MSS <= (n - 1) * MSS
  BY <1>1, <1>2, TimesMonotonic
<1>6. i < n => i * MSS <= len
  BY <1>1, <1>3, <1>4, <1>5
<1>7. (i - 1) * MSS <= len
  BY <1>1, <1>3
<1> QED BY <1>1, <1>3, <1>4, <1>6, <1>7 DEF Smaller, n

\* enqueue_data extends the stream by packets that continue it.
LEMMA EnqueuedShape ==
    ASSUME NEW len \in Nat, written \in Seq(DataPacket), Shape(written),
           next_seq = Len(written)
    PROVE  /\ Chunks(len) \in Seq(DataPacket)
           /\ Len(Chunks(len)) = NumChunks(len)
           /\ Shape(written \o Chunks(len))
           /\ \A i \in 1..NumChunks(len) :
                 Chunks(len)[i].is_fin <=> i = NumChunks(len)
<1> DEFINE n == NumChunks(len)
           c == Chunks(len)
           S == StreamEnd
           N == Len(written)
           w2 == written \o c
<1>1. n \in Nat \ {0} /\ N \in Nat /\ MSS \in Nat \ {0}
  <2>1. n \in Nat \ {0}
    BY ChunkCount, Zenon
  <2>2. N \in Nat
    BY LenProperties, Zenon
  <2> QED BY <2>1, <2>2, MSSAssumption, Zenon
<1>2. S \in Nat /\ \A i \in 1..N : written[i].hi <= S
  <2>1. CASE N = 0
    BY <2>1 DEF StreamEnd
  <2>2. CASE N > 0
    <3>1. written # <<>> /\ N \in 1..N
      BY <2>2, <1>1
    <3>2. S = written[N].hi
      BY <3>1 DEF StreamEnd
    <3>3. \A i \in 1..N : written[i].lo \in Nat /\ written[i].hi \in Nat
      BY PacketFields
    <3>4. ASSUME NEW i \in 1..N PROVE written[i].hi <= written[N].hi
      <4>1. CASE i = N
        BY <4>1, <3>3
      <4>2. CASE i < N
        <5>1. written[i].hi <= written[N].lo /\ written[N].lo <= written[N].hi
          BY <4>2, <3>1 DEF Shape
        <5> QED BY <5>1, <3>1, <3>3
      <4> QED BY <4>1, <4>2, <1>1
    <3> QED BY <3>1, <3>2, <3>3, <3>4
  <2> QED BY <2>1, <2>2, <1>1
<1>3. N > 0 => S = written[N].hi
  BY <1>1 DEF StreamEnd
<1>4. /\ c = [i \in 1..n |-> c[i]]
      /\ \A i \in 1..n : /\ c[i] = [seq_num |-> N + i - 1, is_fin |-> i = n,
                                    lo |-> S + (i - 1) * MSS,
                                    hi |-> S + Smaller(i * MSS, len)]
                         /\ c[i].seq_num = N + i - 1
                         /\ c[i].is_fin <=> i = n
                         /\ c[i].lo = S + (i - 1) * MSS
                         /\ c[i].hi = S + Smaller(i * MSS, len)
  BY DEF Chunks
<1> HIDE DEF S, c
<1>5. \A i \in 1..n : /\ (i - 1) * MSS \in Nat
                      /\ Smaller(i * MSS, len) \in Nat
                      /\ (i - 1) * MSS <= Smaller(i * MSS, len)
                      /\ Smaller(i * MSS, len) <= (i - 1) * MSS + MSS
                      /\ i < n => Smaller(i * MSS, len) = i * MSS
  BY ChunkBytes
<1> HIDE DEF n
<1>6. \A i \in 1..n : /\ c[i].lo \in Nat /\ c[i].hi \in Nat
                      /\ S <= c[i].lo /\ c[i].lo <= c[i].hi
                      /\ c[i].hi <= c[i].lo + MSS
  <2> SUFFICES ASSUME NEW i \in 1..n
               PROVE  /\ c[i].lo \in Nat /\ c[i].hi \in Nat
                      /\ S <= c[i].lo /\ c[i].lo <= c[i].hi
                      /\ c[i].hi <= c[i].lo + MSS
    OBVIOUS
  <2> DEFINE a == (i - 1) * MSS
             d == Smaller(i * MSS, len)
  <2>1. a \in Nat /\ d \in Nat /\ a <= d /\ d <= a + MSS
    BY <1>5, Zenon
  <2>2. c[i].lo = S + a /\ c[i].hi = S + d
    BY <1>4, Zenon
  <2> HIDE DEF a, d
  <2> QED BY <2>1, <2>2, <1>1, <1>2
<1>7. c \in Seq(DataPacket) /\ Len(c) = n
  <2>1. \A i \in 1..n : c[i] \in DataPacket
    <3> SUFFICES ASSUME NEW i \in 1..n PROVE c[i] \in DataPacket
      OBVIOUS
    <3>1. /\ N + i - 1 \in Nat /\ (i = n) \in BOOLEAN
          /\ S + (i - 1) * MSS \in Nat /\ S + Smaller(i * MSS, len) \in Nat
      <4> DEFINE a == (i - 1) * MSS
                 d == Smaller(i * MSS, len)
      <4>1. a \in Nat /\ d \in Nat
        BY <1>5, Zenon
      <4> HIDE DEF a, d
      <4>2. N + i - 1 \in Nat /\ S + a \in Nat /\ S + d \in Nat
        BY <4>1, <1>1, <1>2
      <4> QED BY <4>2, Zenon DEF a, d
    <3>2. c[i] = [seq_num |-> N + i - 1, is_fin |-> i = n,
                  lo |-> S + (i - 1) * MSS, hi |-> S + Smaller(i * MSS, len)]
      BY <1>4, Zenon
    <3>3. ASSUME NEW a \in Nat, NEW f \in BOOLEAN, NEW l \in Nat, NEW h \in Nat
          PROVE  [seq_num |-> a, is_fin |-> f, lo |-> l, hi |-> h] \in DataPacket
      BY DEF DataPacket
    <3>4. [seq_num |-> N + i - 1, is_fin |-> i = n, lo |-> S + (i - 1) * MSS,
           hi |-> S + Smaller(i * MSS, len)] \in DataPacket
      BY <3>1, <3>3, Zenon
    <3> QED BY <3>2, <3>4, Zenon
  <2>2. c \in [1..n -> DataPacket]
    BY <2>1, <1>4
  <2> QED BY <2>2, <1>1
<1>8. /\ w2 \in Seq(DataPacket) /\ Len(w2) = N + n
      /\ \A i \in 1..N : w2[i] = written[i]
      /\ \A i \in 1..n : w2[N + i] = c[i]
  <2>1. /\ w2 \in Seq(DataPacket) /\ Len(w2) = Len(written) + Len(c)
        /\ \A i \in 1..Len(written) : w2[i] = written[i]
        /\ \A i \in 1..Len(c) : w2[Len(written) + i] = c[i]
    <3>1. c \in Seq(DataPacket)
      BY <1>7
    <3> QED BY <3>1, ConcatElements
  <2> QED BY <2>1, <1>7, Zenon
<1> HIDE DEF w2
<1>9. ASSUME NEW i \in 1..Len(w2), i > N
      PROVE  i - N \in 1..n /\ w2[i] = c[i - N]
  <2>1. i - N \in 1..n /\ N + (i - N) = i
    BY <1>1, <1>8, <1>9
  <2> QED BY <2>1, <1>8
<1>10. \A i \in 1..Len(w2) : w2[i].lo \in Nat /\ w2[i].hi \in Nat
  BY <1>8, PacketFields
<1>11. ASSUME NEW i \in 1..Len(w2)
       PROVE  /\ w2[i].seq_num = i - 1
              /\ w2[i].lo <= w2[i].hi /\ w2[i].hi <= w2[i].lo + MSS
  <2>1. CASE i <= N
    <3>1. i \in 1..N /\ w2[i] = written[i]
      BY <2>1, <1>1, <1>8
    <3> QED BY <3>1 DEF Shape
  <2>2. CASE i > N
    <3>1. i - N \in 1..n /\ w2[i] = c[i - N]
      BY <2>2, <1>9
    <3>2. c[i - N].seq_num = N + (i - N) - 1 /\ N + (i - N) - 1 = i - 1
      <4>1. c[i - N].seq_num = N + (i - N) - 1
        BY <3>1, <1>4, Zenon
      <4>2. N + (i - N) - 1 = i - 1
        BY <1>1, <1>8
      <4> QED BY <4>1, <4>2
    <3> QED BY <3>1, <3>2, <1>6
  <2> QED BY <2>1, <2>2, <1>1
<1>12. ASSUME NEW i \in 1..Len(w2), NEW j \in 1..Len(w2), i < j
       PROVE  w2[i].hi <= w2[j].lo
  <2>1. CASE j <= N
    <3>1. i \in 1..N /\ j \in 1..N /\ w2[i] = written[i] /\ w2[j] = written[j]
      BY <2>1, <1>1, <1>8, <1>12
    <3> QED BY <3>1, <1>12 DEF Shape
  <2>2. CASE i <= N /\ j > N
    <3>1. i \in 1..N /\ w2[i] = written[i] /\ j - N \in 1..n /\ w2[j] = c[j - N]
      BY <2>2, <1>1, <1>8, <1>9
    <3>2. written[i].hi <= S /\ S <= c[j - N].lo
      BY <3>1, <1>2, <1>6
    <3> QED BY <3>1, <3>2, <1>2, <1>10
  <2>3. CASE i > N
    <3> DEFINE x == i - N
               y == j - N
    <3>1. x \in 1..n /\ w2[i] = c[x] /\ y \in 1..n /\ w2[j] = c[y] /\ x < y
      BY <2>3, <1>1, <1>8, <1>9, <1>12
    <3> HIDE DEF x, y
    <3>2. c[x].hi = S + x * MSS /\ c[y].lo = S + (y - 1) * MSS
      <4>1. c[x].hi = S + Smaller(x * MSS, len) /\ c[y].lo = S + (y - 1) * MSS
        BY <3>1, <1>4, Zenon
      <4>2. x < n
        BY <3>1, <1>1
      <4>3. Smaller(x * MSS, len) = x * MSS
        BY <4>2, <3>1, <1>5, Zenon
      <4> QED BY <4>1, <4>3, Zenon
    <3>3. x * MSS \in Nat /\ (y - 1) * MSS \in Nat /\ x * MSS <= (y - 1) * MSS
      BY <3>1, <1>1, TimesMonotonic
    <3> QED BY <3>1, <3>2, <3>3, <1>2
  <2> QED BY <2>1, <2>2, <2>3, <1>1
<1>13. ASSUME NEW i \in 1..Len(w2), i + 1 <= Len(w2)
       PROVE  w2[i + 1].lo = w2[i].hi
  <2>1. CASE i + 1 <= N
    <3>1. i \in 1..N /\ i + 1 \in 1..N /\ w2[i] = written[i] /\ w2[i + 1] = written[i + 1]
      BY <2>1, <1>1, <1>8
    <3> QED BY <3>1, <2>1 DEF Shape
  <2>2. CASE i = N
    <3>1. i \in 1..N /\ 1 \in 1..n /\ w2[i] = written[i] /\ w2[i + 1] = c[1] /\ N > 0
      BY <2>2, <1>1, <1>8
    <3>2. c[1].lo = S + (1 - 1) * MSS /\ (1 - 1) * MSS = 0
      <4>1. c[1].lo = S + (1 - 1) * MSS
        BY <3>1, <1>4, Zenon
      <4> QED BY <4>1, <1>1
    <3> QED BY <3>1, <3>2, <2>2, <1>2, <1>3
  <2>3. CASE i > N
    <3> DEFINE x == i - N
    <3>1. x \in 1..n /\ w2[i] = c[x] /\ x < n /\ x + 1 \in 1..n
          /\ i + 1 = N + (x + 1)
      BY <2>3, <1>1, <1>8, <1>9, <1>13
    <3> HIDE DEF x
    <3>2. w2[i + 1] = c[x + 1]
      BY <3>1, <1>8
    <3>3. c[x].hi = S + x * MSS /\ c[x + 1].lo = S + ((x + 1) - 1) * MSS
          /\ (x + 1) - 1 = x
      BY <3>1, <1>1, <1>4, <1>5
    <3> QED BY <3>1, <3>2, <3>3
  <2> QED BY <2>1, <2>2, <2>3, <1>1
<1>14. w2[Len(w2)].is_fin
  <2>1. n \in 1..n /\ Len(w2) = N + n
    BY <1>1, <1>8
  <2> QED BY <2>1, <1>4, <1>8
<1>15. Shape(w2)
  BY <1>11, <1>12, <1>13, <1>14 DEF Shape
<1> QED BY <1>4, <1>7, <1>15 DEF w2, c, n

-----------------------------------------------------------------------------
(***************************************************************************)
(* The sender's part of the inductive invariant.  u is the first sequence  *)
(* number that has not been sent yet.                                      *)
(***************************************************************************)

\* The window: where it lies in the stream, and that it is not empty as long as
\* something waits.
SndWindow(u) ==
    /\ written \in Seq(DataPacket)
    /\ Shape(written)
    /\ next_seq = Len(written)
    /\ base \in Nat
    /\ u \in Nat
    /\ base <= u
    /\ u <= Len(written)
    /\ u <= base + MAX_RWND
    /\ u = base => u = Len(written)
    /\ WindowAt(written, base, u)

\* The congestion state.  ssthresh is where FAST_RECOVERY deflates cwnd to.
CCInv ==
    /\ cc_state \in CCStates
    /\ cwnd \in Nat
    /\ ssthresh \in Nat
    /\ ssthresh >= MSS
    /\ CongestionWindow

\* The acknowledgement state.
AckInv ==
    /\ last_ack_received = base
    /\ dup_ack_count \in 0..4
    /\ peer_rwnd \in 1..MAX_RWND

SndInv(u) == SndWindow(u) /\ CCInv /\ AckInv

\* What every step of the sender guarantees: the invariant, and that whatever
\* it puts on the wire is a packet of the window.
SndStep(u, v) ==
    /\ v \in Nat
    /\ u <= v
    /\ SndInv(v)'
    /\ \A p \in data_net' : \/ p \in data_net
                            \/ \E i \in (base' + 1)..v : p = written'[i]

\* Growth on a new ACK keeps the congestion state consistent.
LEMMA GrowCwndStep ==
    ASSUME CCInv, GrowCwnd
    PROVE  CCInv'
<1>1. MSS \in Nat \ {0} /\ cwnd \in Nat \ {0} /\ ssthresh \in Nat /\ ssthresh >= MSS
  BY MSSAssumption DEF CCInv, CongestionWindow
<1>2. ssthresh' = ssthresh
  BY DEF GrowCwnd
<1>3. CASE cc_state = "SLOW_START"
  BY <1>1, <1>2, <1>3 DEF GrowCwnd, CCInv, CCStates, CongestionWindow
<1>4. CASE cc_state = "AVOIDANCE"
  <2>1. MSS * MSS \in Nat
    BY <1>1
  <2>2. (MSS * MSS) \div cwnd \in Nat
    BY <2>1, <1>1, Division
  <2>3. cwnd' = cwnd + (MSS * MSS) \div cwnd /\ cc_state' = "AVOIDANCE"
    BY <1>4 DEF GrowCwnd
  <2>4. cwnd >= MSS /\ cwnd >= ssthresh
    BY <1>4 DEF CCInv, CongestionWindow
  <2> HIDE <1>4
  <2> QED BY <2>2, <2>3, <2>4, <1>1, <1>2 DEF CCInv, CCStates, CongestionWindow
<1>5. CASE cc_state = "FAST_RECOVERY"
  BY <1>1, <1>2, <1>5 DEF GrowCwnd, CCInv, CCStates, CongestionWindow
<1> QED BY <1>3, <1>4, <1>5 DEF CCInv, CCStates

\* The halved window: at least two packets.
LEMMA HalvedCwndFloor ==
    ASSUME cwnd \in Nat
    PROVE  HalvedCwnd \in Nat /\ HalvedCwnd >= 2 * MSS
<1>1. cwnd \div 2 \in Nat /\ MSS \in Nat \ {0}
  BY Division, MSSAssumption
<1> QED BY <1>1 DEF HalvedCwnd, Larger

\* A step that ends in _try_send keeps the window, whatever it did to base and
\* to the stream before the call.
LEMMA SendStep ==
    ASSUME NEW w \in Seq(DataPacket), Shape(w),
           NEW b \in Nat, NEW u \in Nat, b <= u, u <= Len(w), u <= b + MAX_RWND,
           NEW cw \in Nat, cw >= MSS, NEW r \in 1..MAX_RWND,
           NEW un, un = [s \in b..(u - 1) |-> w[s + 1]],
           NEW infl, infl = Span(w, b, u),
           TrySend(SubSeq(w, u + 1, Len(w)), un, infl, cw, r),
           written' = w, base' = b, next_seq' = Len(w), CCInv', AckInv'
    PROVE  \E v : SndStep(u, v)
<1>1. PICK v \in u..Len(w) :
              /\ WindowAt(w, b, v)'
              /\ data_net' = data_net \cup {w[i] : i \in (u + 1)..v}
              /\ v <= b + MAX_RWND
              /\ v = b => v = Len(w)
  BY TrySendLoopStep
<1>2. v \in Nat /\ u <= v /\ b <= v /\ v <= Len(w)
  BY <1>1
<1>3. WindowAt(written, base, v)'
  BY <1>1 DEF WindowAt
<1>4. SndWindow(v)'
  BY <1>1, <1>2, <1>3 DEF SndWindow
<1>5. ASSUME NEW p \in data_net', p \notin data_net
      PROVE  \E i \in (base' + 1)..v : p = written'[i]
  <2>1. PICK i \in (u + 1)..v : p = w[i]
    BY <1>1, <1>5
  <2>2. i \in (b + 1)..v
    BY <1>2
  <2> QED BY <2>1, <2>2
<1>6. SndStep(u, v)
  BY <1>2, <1>4, <1>5 DEF SndStep, SndInv
<1> QED BY <1>6

\* Fragmentation and the first sends of a message.
LEMMA EnqueueStep ==
    ASSUME NEW u, SndInv(u), NEW len \in Nat, EnqueueData(len)
    PROVE  \E v : SndStep(u, v)
<1> DEFINE c == Chunks(len)
           n == NumChunks(len)
           N == Len(written)
           w == written \o c
<1>1. /\ written \in Seq(DataPacket) /\ Shape(written) /\ next_seq = N
      /\ base \in Nat /\ u \in Nat /\ base <= u /\ u <= N /\ u <= base + MAX_RWND
      /\ WindowAt(written, base, u)
      /\ cwnd \in Nat /\ cwnd >= MSS /\ peer_rwnd \in 1..MAX_RWND
  BY DEF SndInv, SndWindow, CCInv, CongestionWindow, AckInv
<1>2. n \in Nat \ {0} /\ N \in Nat
  BY <1>1, ChunkCount, LenProperties
<1>3. c \in Seq(DataPacket) /\ Len(c) = n /\ Shape(w)
  BY <1>1, EnqueuedShape, Zenon
<1>4. /\ next_seq' = next_seq + n
      /\ written' = w
      /\ TrySend(send_buffer \o c, unacked_packets, inflight_bytes, cwnd, peer_rwnd)
      /\ UNCHANGED <<base, cc_state, cwnd, ssthresh, dup_ack_count,
                     last_ack_received, peer_rwnd>>
  BY DEF EnqueueData
<1> HIDE DEF c, n
<1>5. /\ w \in Seq(DataPacket) /\ Len(w) = N + n
      /\ \A i \in 1..N : w[i] = written[i]
      /\ \A i \in 1..n : w[N + i] = c[i]
  <2>1. /\ w \in Seq(DataPacket) /\ Len(w) = Len(written) + Len(c)
        /\ \A i \in 1..Len(written) : w[i] = written[i]
        /\ \A i \in 1..Len(c) : w[Len(written) + i] = c[i]
    <3>1. written \in Seq(DataPacket) /\ c \in Seq(DataPacket)
      BY <1>1, <1>3
    <3> QED BY <3>1, ConcatElements
  <2> QED BY <2>1, <1>3, Zenon
<1> HIDE DEF w
<1>6. send_buffer \o c = SubSeq(w, u + 1, Len(w))
  <2> DEFINE l == send_buffer \o c
             r == SubSeq(w, u + 1, Len(w))
             sb == send_buffer
  <2>1. /\ sb \in Seq(DataPacket) /\ Len(sb) = N - u
        /\ \A i \in 1..(N - u) : sb[i] = written[u + i]
    <3>1. sb = SubSeq(written, u + 1, Len(written)) /\ u \in 0..Len(written)
      BY <1>1, <1>2 DEF WindowAt
    <3> HIDE DEF sb
    <3> QED BY <3>1, <1>1, SuffixElements
  <2> HIDE DEF sb
  <2>2. /\ l \in Seq(DataPacket) /\ Len(l) = (N - u) + n
        /\ \A i \in 1..(N - u) : l[i] = sb[i]
        /\ \A i \in 1..n : l[(N - u) + i] = c[i]
    <3>1. /\ l \in Seq(DataPacket) /\ Len(l) = Len(sb) + Len(c)
          /\ \A i \in 1..Len(sb) : l[i] = sb[i]
          /\ \A i \in 1..Len(c) : l[Len(sb) + i] = c[i]
      <4>1. sb \in Seq(DataPacket) /\ c \in Seq(DataPacket) /\ l = sb \o c
        BY <2>1, <1>3 DEF sb
      <4> HIDE DEF l
      <4> QED BY <4>1, ConcatElements
    <3> QED BY <3>1, <2>1, <1>3, Zenon
  <2>3. /\ r \in Seq(DataPacket) /\ Len(r) = Len(w) - u
        /\ \A i \in 1..(Len(w) - u) : r[i] = w[u + i]
    <3>1. u \in 0..Len(w)
      BY <1>1, <1>2, <1>5
    <3> QED BY <3>1, <1>5, SuffixElements
  <2> HIDE DEF l, r
  <2>4. Len(l) = Len(r) /\ Len(l) = (N + n) - u
    <3>1. Len(l) = (N - u) + n /\ Len(r) = Len(w) - u /\ Len(w) = N + n
      BY <2>2, <2>3, <1>5
    <3>2. N \in Int /\ n \in Int /\ u \in Int
      BY <1>1, <1>2
    <3> HIDE DEF N, n, w
    <3> QED BY <3>1, <3>2
  <2>5. ASSUME NEW i \in 1..Len(l) PROVE l[i] = r[i]
    <3>0. i \in Nat /\ i \in 1..((N + n) - u) /\ r[i] = w[u + i]
      <4>1. i \in 1..((N + n) - u) /\ Len(w) = N + n
        BY <2>4, <1>5
      <4>2. i \in 1..(Len(w) - u)
        BY <4>1
      <4> QED BY <4>1, <4>2, <2>3
    <3>1. CASE i <= N - u
      <4>1. i \in 1..(N - u) /\ u + i \in 1..N
        BY <3>0, <3>1, <1>1, <1>2
      <4> QED BY <4>1, <3>0, <2>1, <2>2, <1>5
    <3>2. CASE i > N - u
      <4> DEFINE j == i - (N - u)
      <4>1. j \in 1..n /\ (N - u) + j = i /\ N + j = u + i
        BY <3>0, <3>2, <1>1, <1>2
      <4> HIDE DEF j
      <4>2. l[i] = c[j] /\ w[u + i] = c[j]
        BY <4>1, <2>2, <1>5
      <4> QED BY <4>2, <3>0
    <3> QED BY <3>0, <3>1, <3>2, <1>1, <1>2
  <2>6. l = r
    BY <2>2, <2>3, <2>4, <2>5, SeqEqual
  <2> QED BY <2>6 DEF l, r
<1>7. unacked_packets = [s \in base..(u - 1) |-> w[s + 1]]
  <2>1. unacked_packets = [s \in base..(u - 1) |-> written[s + 1]]
    BY <1>1 DEF WindowAt
  <2>2. \A s \in base..(u - 1) : written[s + 1] = w[s + 1]
    <3> SUFFICES ASSUME NEW s \in base..(u - 1)
                 PROVE  written[s + 1] = w[s + 1]
      OBVIOUS
    <3>1. s + 1 \in 1..N
      BY <1>1, <1>2
    <3> QED BY <3>1, <1>5
  <2> QED BY <2>1, <2>2
<1>8. inflight_bytes = Span(w, base, u)
  <2>1. inflight_bytes = Span(written, base, u)
    BY <1>1 DEF WindowAt
  <2>2. base < u => u \in 1..N /\ base + 1 \in 1..N
    BY <1>1, <1>2
  <2> QED BY <2>1, <2>2, <1>1, <1>5 DEF Span
<1>9. TrySend(SubSeq(w, u + 1, Len(w)), unacked_packets, inflight_bytes, cwnd, peer_rwnd)
  BY <1>4, <1>6, Zenon
<1>10. CCInv' /\ AckInv'
  BY <1>4 DEF SndInv, CCInv, AckInv, CongestionWindow
<1>11. base' = base /\ next_seq' = Len(w) /\ written' = w /\ u <= Len(w)
  BY <1>1, <1>2, <1>4, <1>5
<1> QED BY <1>1, <1>3, <1>5, <1>7, <1>8, <1>9, <1>10, <1>11, SendStep

-----------------------------------------------------------------------------
(***************************************************************************)
(* on_ack_received and check_timeouts                                      *)
(***************************************************************************)

\* A cumulative ACK inside the window takes exactly the packets below it out of
\* flight, and exactly their bytes.
LEMMA AckedRun ==
    ASSUME NEW w \in Seq(DataPacket), Shape(w),
           NEW b \in Nat, NEW u \in Nat, u <= Len(w),
           NEW a \in Nat, b < a, a <= u, WindowAt(w, b, u)
    PROVE  /\ StillUnacked(a) = [s \in a..(u - 1) |-> w[s + 1]]
           /\ inflight_bytes - AckedBytes(a) = Span(w, a, u)
<1> DEFINE un == unacked_packets
           gone == {s \in DOMAIN un : s < a}
<1>1. un = [s \in b..(u - 1) |-> w[s + 1]] /\ inflight_bytes = Span(w, b, u)
  BY DEF WindowAt
<1>2. /\ DOMAIN un = b..(u - 1)
      /\ \A s \in b..(u - 1) : un[s] = w[s + 1]
  BY <1>1
<1>3. StillUnacked(a) = [s \in a..(u - 1) |-> w[s + 1]]
  <2>1. {s \in DOMAIN un : s >= a} = a..(u - 1)
    BY <1>2
  <2>2. StillUnacked(a) = [s \in a..(u - 1) |-> un[s]]
    BY <2>1 DEF StillUnacked, Restrict
  <2>3. \A s \in a..(u - 1) : un[s] = w[s + 1]
    BY <1>2
  <2> QED BY <2>2, <2>3
<1> HIDE DEF un
<1>4. gone = b..(a - 1) /\ gone # {} /\ gone \in SUBSET Nat /\ gone \in SUBSET (0..u)
  <2>1. gone = b..(a - 1)
    BY <1>2
  <2>2. b \in b..(a - 1) /\ b..(a - 1) \in SUBSET Nat /\ b..(a - 1) \in SUBSET (0..u)
    OBVIOUS
  <2> QED BY <2>1, <2>2, Zenon
<1>5. Min(gone) = b
  <2>1. Min(gone) \in gone /\ \A x \in gone : Min(gone) <= x
    BY <1>4, LeastElement
  <2> DEFINE m == Min(gone)
  <2>2. m \in b..(a - 1) /\ m <= b
    BY <2>1, <1>4
  <2> HIDE DEF m
  <2>3. m = b
    BY <2>2
  <2> QED BY <2>3 DEF m
<1>6. Max(gone) = a - 1
  <2>1. Max(gone) \in gone /\ \A x \in gone : x <= Max(gone)
    BY <1>4, GreatestElement
  <2> DEFINE m == Max(gone)
  <2>2. m \in b..(a - 1) /\ a - 1 <= m
    BY <2>1, <1>4
  <2> HIDE DEF m
  <2>3. m = a - 1
    BY <2>2
  <2> QED BY <2>3 DEF m
<1>7. AckedBytes(a) = RunBytes(un[Min(gone)], un[Max(gone)])
  BY <1>4, Zenon DEF AckedBytes, un
<1>8. un[b] = w[b + 1] /\ un[a - 1] = w[a]
  <2>1. b \in b..(u - 1) /\ a - 1 \in b..(u - 1) /\ (a - 1) + 1 = a
    OBVIOUS
  <2> QED BY <2>1, <1>2
<1>9. AckedBytes(a) = Span(w, b, a)
  BY <1>5, <1>6, <1>7, <1>8 DEF RunBytes, Span
<1>10. /\ Span(w, b, a) \in Nat
       /\ Span(w, b, u) = Span(w, b, a) + Span(w, a, u)
       /\ Span(w, a, u) \in Nat
  <2>1. b <= a /\ a <= Len(w) /\ a <= a /\ u <= u
    OBVIOUS
  <2>2. /\ Span(w, b, a) \in Nat
        /\ Span(w, b, u) = Span(w, b, a) + Span(w, a, u)
    BY <2>1, SpanAdds
  <2>3. Span(w, a, u) \in Nat
    BY <2>1, SpanAdds
  <2> QED BY <2>2, <2>3
<1>11. inflight_bytes - AckedBytes(a) = Span(w, a, u)
  BY <1>1, <1>9, <1>10
<1> QED BY <1>3, <1>11

\* A new ACK slides the window and may release more packets.
LEMMA NewAckStep ==
    ASSUME NEW u, SndInv(u), NEW a \in Nat, a <= u, NEW r \in 1..MAX_RWND,
           NewAck(a, r)
    PROVE  \E v : SndStep(u, v)
<1>1. /\ written \in Seq(DataPacket) /\ Shape(written) /\ next_seq = Len(written)
      /\ base \in Nat /\ u \in Nat /\ base <= u /\ u <= Len(written)
      /\ u <= base + MAX_RWND /\ WindowAt(written, base, u)
      /\ send_buffer = SubSeq(written, u + 1, Len(written))
      /\ CCInv
  BY DEF SndInv, SndWindow, WindowAt
<1>2. /\ base < a /\ base' = a /\ last_ack_received' = a /\ dup_ack_count' = 0
      /\ peer_rwnd' = r /\ GrowCwnd /\ next_seq' = next_seq /\ written' = written
      /\ TrySend(send_buffer, StillUnacked(a), inflight_bytes - AckedBytes(a), cwnd', r)
  BY <1>1 DEF NewAck
<1>3. CCInv' /\ AckInv' /\ cwnd' \in Nat /\ cwnd' >= MSS
  <2>1. CCInv'
    BY <1>1, <1>2, GrowCwndStep
  <2> QED BY <2>1, <1>2 DEF CCInv, CongestionWindow, AckInv
<1>4. /\ StillUnacked(a) = [s \in a..(u - 1) |-> written[s + 1]]
      /\ inflight_bytes - AckedBytes(a) = Span(written, a, u)
  BY <1>1, <1>2, AckedRun
<1>5. u <= a + MAX_RWND
  BY <1>1, <1>2, RwndAssumption
<1>6. PICK cw \in Nat : cw = cwnd' /\ cw >= MSS
  BY <1>3
<1>7. TrySend(SubSeq(written, u + 1, Len(written)), StillUnacked(a),
              inflight_bytes - AckedBytes(a), cw, r)
  BY <1>1, <1>2, <1>6
<1> QED BY <1>1, <1>2, <1>3, <1>4, <1>5, <1>6, <1>7, SendStep

\* A step that leaves the window alone and sends nothing but the packet at base.
LEMMA ResendStep ==
    ASSUME NEW u, SndInv(u), CCInv', AckInv',
           UNCHANGED <<base, next_seq, inflight_bytes, unacked_packets,
                       send_buffer, written>>,
           data_net' = data_net \/ ResendBase
    PROVE  SndStep(u, u)
<1>1. /\ u \in Nat /\ base \in Nat
      /\ unacked_packets = [s \in base..(u - 1) |-> written[s + 1]]
  BY DEF SndInv, SndWindow, WindowAt
<1>2. SndWindow(u)'
  BY DEF SndInv, SndWindow, WindowAt
<1>3. ASSUME NEW p \in data_net', p \notin data_net
      PROVE  \E i \in (base' + 1)..u : p = written'[i]
  <2>1. base \in base..(u - 1) /\ p = unacked_packets[base]
    BY <1>1, <1>3 DEF ResendBase
  <2>2. p = written[base + 1] /\ base + 1 \in (base + 1)..u
    BY <1>1, <2>1
  <2> QED BY <2>2
<1> QED BY <1>1, <1>2, <1>3 DEF SndStep, SndInv

\* Every ACK the peer may send keeps the sender's invariant.
LEMMA OnAckReceivedStep ==
    ASSUME NEW u, SndInv(u), NEW a \in Nat, a <= u, NEW r \in 1..MAX_RWND,
           OnAckReceived(a, r)
    PROVE  \E v : SndStep(u, v)
<1>1. /\ written \in Seq(DataPacket) /\ Shape(written) /\ next_seq = Len(written)
      /\ base \in Nat /\ u \in Nat /\ base <= u /\ u <= Len(written)
      /\ u <= base + MAX_RWND
      /\ send_buffer = SubSeq(written, u + 1, Len(written))
      /\ unacked_packets = [s \in base..(u - 1) |-> written[s + 1]]
      /\ inflight_bytes = Span(written, base, u)
      /\ CCInv /\ AckInv /\ cwnd \in Nat /\ cwnd >= MSS /\ MSS \in Nat \ {0}
      /\ dup_ack_count \in 0..4
  BY MSSAssumption DEF SndInv, SndWindow, WindowAt, CCInv, CongestionWindow, AckInv
<1>2. ASSUME CountDupAck(a, r) PROVE AckInv'
  BY <1>1, <1>2 DEF CountDupAck, AckInv, Smaller
<1>3. CASE NewAck(a, r)
  BY <1>3, NewAckStep
<1>4. CASE FastRetransmit(a, r)
  <2>1. HalvedCwnd \in Nat /\ HalvedCwnd >= 2 * MSS
    BY <1>1, HalvedCwndFloor
  <2>2. cc_state' = "FAST_RECOVERY" /\ ssthresh' = HalvedCwnd
        /\ cwnd' = HalvedCwnd + 3 * MSS
    BY <1>4 DEF FastRetransmit
  <2>3. CCInv'
    BY <2>1, <2>2, <1>1 DEF CCInv, CCStates, CongestionWindow
  <2>4. AckInv'
    BY <1>2, <1>4 DEF FastRetransmit
  <2>5. SndStep(u, u)
    BY <2>3, <2>4, <1>4, ResendStep DEF FastRetransmit, CountDupAck
  <2> QED BY <2>5
<1>5. CASE InflateWindow(a, r)
  <2>1. cwnd' = cwnd + MSS /\ cc_state = "FAST_RECOVERY"
        /\ cc_state' = cc_state /\ ssthresh' = ssthresh
    BY <1>5 DEF InflateWindow
  <2>2. CCInv'
    BY <2>1, <1>1 DEF CCInv, CCStates, CongestionWindow
  <2>3. AckInv'
    BY <1>2, <1>5 DEF InflateWindow
  <2>4. PICK cw \in Nat : cw = cwnd' /\ cw >= MSS
    BY <2>1, <1>1
  <2>5. TrySend(SubSeq(written, u + 1, Len(written)), unacked_packets,
                inflight_bytes, cw, r)
    BY <2>4, <1>1, <1>5 DEF InflateWindow
  <2>6. base' = base /\ written' = written /\ next_seq' = Len(written)
    BY <1>1, <1>5 DEF InflateWindow, CountDupAck
  <2> QED BY <2>2, <2>3, <2>4, <2>5, <2>6, <1>1, SendStep
<1>6. CASE OtherDupAck(a, r)
  <2>1. AckInv'
    BY <1>2, <1>6 DEF OtherDupAck
  <2>2. CCInv'
    BY <1>1, <1>6 DEF OtherDupAck, CCInv, CongestionWindow
  <2>3. SndStep(u, u)
    BY <2>1, <2>2, <1>6, ResendStep DEF OtherDupAck, CountDupAck
  <2> QED BY <2>3
<1>7. CASE StaleAck(a, r)
  <2>1. AckInv' /\ CCInv'
    BY <1>1, <1>7 DEF StaleAck, AckInv, CCInv, CongestionWindow
  <2>2. SndStep(u, u)
    BY <2>1, <1>7, ResendStep DEF StaleAck
  <2> QED BY <2>2
<1> QED BY <1>3, <1>4, <1>5, <1>6, <1>7 DEF OnAckReceived

\* A timeout resets the congestion state and resends the packet at base.
LEMMA CheckTimeoutsStep ==
    ASSUME NEW u, SndInv(u), CheckTimeouts
    PROVE  SndStep(u, u)
<1>1. cwnd \in Nat /\ MSS \in Nat \ {0}
  BY MSSAssumption DEF SndInv, CCInv
<1>2. HalvedCwnd \in Nat /\ HalvedCwnd >= 2 * MSS
  BY <1>1, HalvedCwndFloor
<1>3. cc_state' = "SLOW_START" /\ ssthresh' = HalvedCwnd /\ cwnd' = MSS
  BY DEF CheckTimeouts
<1>4. CCInv'
  BY <1>1, <1>2, <1>3 DEF CCInv, CCStates, CongestionWindow
<1>5. AckInv'
  BY DEF CheckTimeouts, SndInv, AckInv
<1> QED BY <1>4, <1>5, ResendStep DEF CheckTimeouts

-----------------------------------------------------------------------------
(***************************************************************************)
(* The sender, the receiver and the network together.                      *)
(***************************************************************************)

\* What relates the two ends and the network: the receiver is between the
\* acknowledged and the sent packets, a DATA packet on its way is a packet that
\* has been sent, and an ACK on its way never says more than the receiver has.
NetInv(u) ==
    /\ base <= expected_seq
    /\ expected_seq <= u
    /\ \A n \in DOMAIN ooo_buffer : n < u
    /\ \A p \in data_net : \E i \in 1..u : p = written[i]
    /\ \A a \in ack_net : a.ack_num <= expected_seq /\ a.rwnd \in 1..MAX_RWND

IndInvAt(u) == SndInv(u) /\ RcvInv(written) /\ NetInv(u)

\* The inductive invariant.
IndInv == \E u \in base..next_seq : IndInvAt(u)

\* The numbers of the invariant are numbers.
LEMMA IndInvTypes ==
    ASSUME NEW u, IndInvAt(u)
    PROVE  /\ u \in Nat /\ base \in Nat /\ expected_seq \in Nat
           /\ Len(written) \in Nat /\ next_seq = Len(written)
           /\ written \in Seq(DataPacket) /\ Shape(written)
           /\ base <= u /\ u <= Len(written) /\ u <= base + MAX_RWND
           /\ MAX_RWND \in Nat \ {0}
           /\ ack_net \subseteq AckPacket
<1>1. written \in Seq(DataPacket)
  BY DEF IndInvAt, SndInv, SndWindow
<1>2. Len(written) \in Nat
  BY <1>1, LenProperties
<1>3. u \in Nat /\ base \in Nat /\ next_seq = Len(written) /\ Shape(written)
      /\ base <= u /\ u <= Len(written) /\ u <= base + MAX_RWND
  BY DEF IndInvAt, SndInv, SndWindow
<1>4. expected_seq \in Nat /\ ack_net \subseteq AckPacket
  BY DEF IndInvAt, RcvInv, RcvTypeOK
<1> QED BY <1>1, <1>2, <1>3, <1>4, RwndAssumption

\* An instance of the invariant for some u is an instance of IndInv.
LEMMA IndInvIntro ==
    ASSUME NEW v, IndInvAt(v)
    PROVE  IndInv
<1>1. v \in base..next_seq
  BY IndInvTypes
<1> QED BY <1>1 DEF IndInv

LEMMA IndInvIntroNext ==
    ASSUME NEW v, IndInvAt(v)'
    PROVE  IndInv'
<1>1. /\ written' \in Seq(DataPacket) /\ next_seq' = Len(written') /\ base' \in Nat
      /\ v \in Nat /\ base' <= v /\ v <= Len(written')
  BY DEF IndInvAt, SndInv, SndWindow
<1>2. Len(written') \in Nat
  BY <1>1, LenProperties
<1>3. v \in base'..next_seq'
  BY <1>1, <1>2
<1> QED BY <1>3 DEF IndInv

\* The initial state.
LEMMA InitIndInv == Init => IndInv
<1> SUFFICES ASSUME Init PROVE IndInvAt(0)
  BY IndInvIntro
<1> DEFINE none == <<>>
<1>1. none \in Seq(DataPacket) /\ Len(none) = 0
  OBVIOUS
<1>2. SndWindow(0)
  <2>1. /\ written = none /\ base = 0 /\ next_seq = 0 /\ send_buffer = none
        /\ unacked_packets = none /\ inflight_bytes = 0
    BY DEF Init, SndInit
  <2>2. Shape(written)
    BY <2>1, <1>1 DEF Shape
  <2>3. WindowAt(written, base, 0)
    <3>1. SubSeq(written, 0 + 1, Len(written)) = none
      BY <2>1
    <3>2. unacked_packets = [s \in 0..(0 - 1) |-> written[s + 1]]
      <4>1. 0..(0 - 1) = {} /\ DOMAIN none = {}
        OBVIOUS
      <4> QED BY <4>1, <2>1
    <3>3. Span(written, 0, 0) = 0
      BY DEF Span
    <3> QED BY <2>1, <3>1, <3>2, <3>3 DEF WindowAt
  <2> QED BY <1>1, <2>1, <2>2, <2>3, RwndAssumption DEF SndWindow
<1>3. CCInv /\ AckInv
  BY MSSAssumption, SsthreshAssumption, RwndAssumption
  DEF Init, SndInit, CCInv, CCStates, CongestionWindow, AckInv
<1>4. RcvInv(written)
  <2>1. /\ written = none /\ expected_seq = 0 /\ ooo_buffer = none
        /\ assembly_buffer = none /\ delivered = none /\ fc_state = "NORMAL"
        /\ ack_net = {}
    BY DEF Init, SndInit, RcvInit
  <2>2. DOMAIN ooo_buffer = {}
    BY <2>1
  <2>3. ooo_buffer \in [DOMAIN ooo_buffer -> DataPacket]
    BY <2>1, <2>2
  <2>4. RcvTypeOK
    BY <2>1, <2>2, <2>3, <1>1 DEF RcvTypeOK
  <2>5. Consumed(written) /\ Buffered(written) /\ BufferInWindow /\ WholeMessages
    BY <2>1, <2>2, <1>1 DEF Consumed, Buffered, BufferInWindow, WholeMessages
  <2> QED BY <2>4, <2>5 DEF RcvInv
<1>5. NetInv(0)
  <2>1. /\ base = 0 /\ expected_seq = 0 /\ ooo_buffer = none /\ data_net = {}
        /\ ack_net = {}
    BY DEF Init, SndInit, RcvInit
  <2>2. DOMAIN ooo_buffer = {}
    BY <2>1
  <2> QED BY <2>1, <2>2 DEF NetInv
<1> QED BY <1>2, <1>3, <1>4, <1>5 DEF IndInvAt, SndInv

\* A step that leaves one end alone keeps that end's part of the invariant.
LEMMA SenderUntouched ==
    ASSUME NEW u, SndInv(u), UNCHANGED sndVars
    PROVE  SndInv(u)'
  BY DEF sndVars, SndInv, SndWindow, WindowAt, CCInv, CongestionWindow, AckInv

LEMMA ReceiverUntouched ==
    ASSUME NEW w, RcvInv(w), UNCHANGED rcvVars, ack_net' \subseteq AckPacket,
           written' = w
    PROVE  RcvInv(written)'
  BY DEF rcvVars, RcvInv, RcvTypeOK, Consumed, Buffered, BufferInWindow,
         WholeMessages

\* A message is enqueued.
LEMMA AppSendStep ==
    ASSUME NEW u, IndInvAt(u), NEW len \in Nat, AppSend(len)
    PROVE  IndInv'
<1>1. PICK v : SndStep(u, v)
  BY EnqueueStep DEF IndInvAt, AppSend
<1>2. /\ v \in Nat /\ u <= v /\ SndInv(v)'
      /\ \A p \in data_net' : \/ p \in data_net
                              \/ \E i \in (base' + 1)..v : p = written'[i]
  BY <1>1 DEF SndStep
<1>3. /\ u \in Nat /\ base \in Nat /\ expected_seq \in Nat /\ Len(written) \in Nat
      /\ written \in Seq(DataPacket) /\ u <= Len(written)
      /\ Shape(written) /\ next_seq = Len(written) /\ ack_net \subseteq AckPacket
  BY IndInvTypes
<1>4. /\ written' = written \o Chunks(len) /\ base' = base
      /\ UNCHANGED rcvVars /\ ack_net' = ack_net
  BY DEF AppSend, EnqueueData
<1>5. PICK x \in Seq(DataPacket) :
          /\ x = written' /\ Len(written) <= Len(x)
          /\ \A i \in 1..Len(written) : x[i] = written[i]
  <2>1. Chunks(len) \in Seq(DataPacket)
    BY <1>3, EnqueuedShape
  <2>2. PICK c \in Seq(DataPacket) : c = Chunks(len)
    BY <2>1
  <2>3. /\ written \o c \in Seq(DataPacket)
        /\ Len(written \o c) = Len(written) + Len(c)
        /\ \A i \in 1..Len(written) : (written \o c)[i] = written[i]
    BY <1>3, ConcatElements
  <2>4. Len(c) \in Nat
    BY LenProperties
  <2>5. Len(written) <= Len(written \o c)
    BY <2>3, <2>4, <1>3
  <2>6. written' = written \o c
    BY <2>2, <1>4, Zenon
  <2> QED BY <2>3, <2>5, <2>6, Zenon
<1>6. RcvInv(written)'
  <2>1. RcvInv(x)
    BY <1>3, <1>5, LongerStream DEF IndInvAt
  <2> QED BY <2>1, <1>3, <1>4, <1>5, ReceiverUntouched
<1>7. NetInv(v)'
  <2>1. /\ base' <= expected_seq' /\ expected_seq' <= v
        /\ \A n \in DOMAIN ooo_buffer' : n < v
    <3>1. DOMAIN ooo_buffer \subseteq Nat
      BY DEF IndInvAt, RcvInv, RcvTypeOK
    <3> QED BY <3>1, <1>2, <1>3, <1>4 DEF rcvVars, IndInvAt, NetInv
  <2>2. \A a \in ack_net' : a.ack_num <= expected_seq' /\ a.rwnd \in 1..MAX_RWND
    BY <1>4 DEF rcvVars, IndInvAt, NetInv
  <2>3. ASSUME NEW p \in data_net' PROVE \E i \in 1..v : p = written'[i]
    <3>1. CASE p \in data_net
      <4>1. PICK i \in 1..u : p = written[i]
        BY <3>1 DEF IndInvAt, NetInv
      <4>2. i \in 1..v /\ i \in 1..Len(written)
        BY <1>2, <1>3
      <4> QED BY <4>1, <4>2, <1>5
    <3>2. CASE p \notin data_net
      <4>1. PICK i \in (base' + 1)..v : p = written'[i]
        BY <3>2, <1>2
      <4>2. i \in 1..v
        BY <1>2, <1>3, <1>4
      <4> QED BY <4>1, <4>2
    <3> QED BY <3>1, <3>2
  <2> QED BY <2>1, <2>2, <2>3 DEF NetInv
<1>8. IndInvAt(v)'
  BY <1>2, <1>6, <1>7 DEF IndInvAt
<1> QED BY <1>8, IndInvIntroNext

\* The receiver processes a DATA packet.
LEMMA ReceiveDataStep ==
    ASSUME NEW u, IndInvAt(u), NEW p \in data_net, ReceiveData(p)
    PROVE  /\ IndInv'
           /\ RcvInv(written)'
           /\ written' = written
           /\ Len(delivered) <= Len(delivered')
<1>1. /\ u \in Nat /\ base \in Nat /\ expected_seq \in Nat /\ Len(written) \in Nat
      /\ written \in Seq(DataPacket) /\ u <= Len(written) /\ Shape(written)
      /\ base <= expected_seq /\ expected_seq <= u
  BY IndInvTypes DEF IndInvAt, NetInv
<1>2. PICK w \in Seq(DataPacket) : w = written
  BY <1>1
<1>3. /\ p \in DataPacket /\ p.seq_num < u /\ p = w[p.seq_num + 1]
  <2>1. PICK i \in 1..u : p = written[i]
    BY DEF IndInvAt, NetInv
  <2>2. i \in 1..Len(written) /\ (i - 1) + 1 = i
    BY <1>1
  <2>3. p.seq_num = i - 1
    <3>1. \A j \in 1..Len(written) : written[j].seq_num = j - 1
      BY <1>1, Zenon DEF Shape
    <3> QED BY <3>1, <2>1, <2>2, Zenon
  <2>4. p \in DataPacket
    BY <2>1, <2>2, <1>1
  <2>5. p = w[p.seq_num + 1]
    BY <2>1, <2>2, <2>3, <1>2
  <2>6. p.seq_num < u
    BY <2>3, <1>1
  <2> QED BY <2>4, <2>5, <2>6
<1>4. /\ RcvInv(w) /\ \A n \in DOMAIN ooo_buffer : n < u
      /\ u \in 0..Len(w) /\ ProcessSegment(p)
  BY <1>1, <1>2 DEF IndInvAt, NetInv, ReceiveData
<1>5. /\ RcvInv(w)'
      /\ expected_seq <= expected_seq' /\ expected_seq' <= u
      /\ \A n \in DOMAIN ooo_buffer' : n < u
      /\ Len(delivered) <= Len(delivered')
      /\ \E r \in 1..MAX_RWND :
            ack_net' = ack_net \cup {[ack_num |-> expected_seq', rwnd |-> r]}
  BY <1>1, <1>3, <1>4, ProcessSegmentStep
<1>6. /\ UNCHANGED sndVars /\ written' = written /\ base' = base
      /\ data_net' \subseteq data_net
  BY DEF ReceiveData, sndVars
<1>7. SndInv(u)'
  BY <1>6, SenderUntouched DEF IndInvAt
<1>8. RcvInv(written)'
  BY <1>2, <1>5, <1>6 DEF RcvInv, Consumed, Buffered
<1>9. NetInv(u)'
  <2>1. expected_seq' \in Nat
    BY <1>8 DEF RcvInv, RcvTypeOK
  <2>2. base' <= expected_seq'
    BY <2>1, <1>1, <1>5, <1>6
  <2>3. \A q \in data_net' : \E i \in 1..u : q = written'[i]
    BY <1>6 DEF IndInvAt, NetInv
  <2>4. ASSUME NEW a \in ack_net'
        PROVE  a.ack_num <= expected_seq' /\ a.rwnd \in 1..MAX_RWND
    <3>1. CASE a \in ack_net
      <4>1. a.ack_num \in Nat
        BY <3>1, IndInvTypes DEF AckPacket
      <4>2. a.ack_num <= expected_seq /\ a.rwnd \in 1..MAX_RWND
        BY <3>1 DEF IndInvAt, NetInv
      <4> QED BY <4>1, <4>2, <2>1, <1>1, <1>5
    <3>2. CASE a \notin ack_net
      <4>1. PICK r \in 1..MAX_RWND : a = [ack_num |-> expected_seq', rwnd |-> r]
        BY <3>2, <1>5
      <4> QED BY <4>1, <2>1
    <3> QED BY <3>1, <3>2
  <2> QED BY <2>2, <2>3, <2>4, <1>5 DEF NetInv
<1>10. IndInvAt(u)'
  BY <1>7, <1>8, <1>9 DEF IndInvAt
<1>11. IndInv'
  BY <1>10, IndInvIntroNext
<1> QED BY <1>5, <1>6, <1>8, <1>11

\* A step of the sender that neither makes packets nor touches the receiver,
\* and advances base at most to what the receiver has.
LEMMA SenderMoved ==
    ASSUME NEW u, IndInvAt(u), NEW v, SndStep(u, v),
           written' = written, UNCHANGED rcvVars, ack_net' \subseteq ack_net,
           base' \in Nat, base' <= expected_seq
    PROVE  IndInv'
<1>1. /\ v \in Nat /\ u <= v /\ SndInv(v)'
      /\ \A p \in data_net' : \/ p \in data_net
                              \/ \E i \in (base' + 1)..v : p = written'[i]
  BY DEF SndStep
<1>2. /\ u \in Nat /\ expected_seq \in Nat /\ ack_net \subseteq AckPacket
      /\ written \in Seq(DataPacket)
  BY IndInvTypes
<1>3. RcvInv(written)'
  <2>1. PICK w : w = written
    OBVIOUS
  <2>2. RcvInv(w)
    BY <2>1 DEF IndInvAt
  <2> QED BY <2>1, <2>2, <1>2, ReceiverUntouched
<1>4. NetInv(v)'
  <2>1. /\ base' <= expected_seq' /\ expected_seq' <= v
        /\ \A n \in DOMAIN ooo_buffer' : n < v
    <3>1. DOMAIN ooo_buffer \subseteq Nat
      BY DEF IndInvAt, RcvInv, RcvTypeOK
    <3> QED BY <3>1, <1>1, <1>2 DEF rcvVars, IndInvAt, NetInv
  <2>2. \A a \in ack_net' : a.ack_num <= expected_seq' /\ a.rwnd \in 1..MAX_RWND
    BY DEF rcvVars, IndInvAt, NetInv
  <2>3. ASSUME NEW p \in data_net' PROVE \E i \in 1..v : p = written'[i]
    <3>1. CASE p \in data_net
      <4>1. PICK i \in 1..u : p = written[i]
        BY <3>1 DEF IndInvAt, NetInv
      <4>2. i \in 1..v
        BY <1>1, <1>2
      <4> QED BY <4>1, <4>2
    <3>2. CASE p \notin data_net
      <4>1. PICK b \in Nat : b = base'
        BY Zenon
      <4>2. PICK i \in (b + 1)..v : p = written'[i]
        BY <3>2, <4>1, <1>1
      <4>3. i \in 1..v
        BY <1>1
      <4> QED BY <4>2, <4>3
    <3> QED BY <3>1, <3>2
  <2> QED BY <2>1, <2>2, <2>3 DEF NetInv
<1>5. IndInvAt(v)'
  BY <1>1, <1>3, <1>4 DEF IndInvAt
<1> QED BY <1>5, IndInvIntroNext

\* The sender processes an ACK.
LEMMA ReceiveAckStep ==
    ASSUME NEW u, IndInvAt(u), NEW a \in ack_net, ReceiveAck(a)
    PROVE  IndInv' /\ \E v : SndStep(u, v)
<1>1. /\ u \in Nat /\ base \in Nat /\ expected_seq \in Nat
      /\ ack_net \subseteq AckPacket
  BY IndInvTypes
<1>2. /\ a.ack_num \in Nat /\ a.ack_num <= expected_seq /\ expected_seq <= u
      /\ a.rwnd \in 1..MAX_RWND /\ base <= expected_seq
  BY <1>1 DEF IndInvAt, NetInv, AckPacket
<1>3. PICK n \in Nat, r \in 1..MAX_RWND : n = a.ack_num /\ r = a.rwnd
  BY <1>2
<1>4. OnAckReceived(n, r) /\ UNCHANGED rcvVars /\ ack_net' \subseteq ack_net
  BY <1>3 DEF ReceiveAck
<1>5. n <= u /\ n <= expected_seq
  BY <1>1, <1>2, <1>3
<1>6. PICK v : SndStep(u, v)
  BY <1>4, <1>5, OnAckReceivedStep DEF IndInvAt
<1>7. written' = written /\ base' \in {base, n}
  BY <1>4 DEF OnAckReceived, NewAck, FastRetransmit, InflateWindow, OtherDupAck,
              CountDupAck, StaleAck
<1>8. base' \in Nat /\ base' <= expected_seq
  BY <1>1, <1>2, <1>5, <1>7
<1> QED BY <1>4, <1>6, <1>7, <1>8, SenderMoved

\* A timeout.
LEMMA TickStep ==
    ASSUME NEW u, IndInvAt(u), Tick
    PROVE  IndInv' /\ SndStep(u, u)
<1>1. SndStep(u, u)
  BY CheckTimeoutsStep DEF IndInvAt, Tick
<1>2. written' = written /\ base' = base /\ UNCHANGED rcvVars /\ ack_net' = ack_net
  BY DEF Tick, CheckTimeouts
<1>3. base' \in Nat /\ base' <= expected_seq
  BY <1>2, IndInvTypes DEF IndInvAt, NetInv
<1> QED BY <1>1, <1>2, <1>3, SenderMoved

\* The network loses a datagram, or nothing happens.
LEMMA LossStep ==
    ASSUME NEW u, IndInvAt(u), UNCHANGED <<sndVars, rcvVars>>,
           data_net' \subseteq data_net, ack_net' \subseteq ack_net
    PROVE  IndInv'
<1>1. SndInv(u)' /\ written' = written /\ base' = base
  BY SenderUntouched DEF IndInvAt, sndVars
<1>2. RcvInv(written)'
  <2>1. PICK w : w = written
    OBVIOUS
  <2>2. RcvInv(w) /\ ack_net' \subseteq AckPacket
    BY <2>1, IndInvTypes DEF IndInvAt
  <2> QED BY <2>1, <2>2, <1>1, ReceiverUntouched
<1>3. NetInv(u)'
  BY <1>1 DEF IndInvAt, NetInv, rcvVars
<1>4. IndInvAt(u)'
  BY <1>1, <1>2, <1>3 DEF IndInvAt
<1> QED BY <1>4, IndInvIntroNext

\* Every step keeps the inductive invariant.
LEMMA NextIndInv == IndInv /\ [Next]_vars => IndInv'
<1> SUFFICES ASSUME IndInv, [Next]_vars PROVE IndInv'
  OBVIOUS
<1>1. PICK u : IndInvAt(u)
  BY DEF IndInv
<1>2. ASSUME NEW len \in MessageLengths, AppSend(len) PROVE IndInv'
  BY <1>1, <1>2, LengthsAssumption, AppSendStep
<1>3. ASSUME NEW p \in data_net, ReceiveData(p) PROVE IndInv'
  BY <1>1, <1>3, ReceiveDataStep
<1>4. ASSUME NEW a \in ack_net, ReceiveAck(a) PROVE IndInv'
  BY <1>1, <1>4, ReceiveAckStep
<1>5. CASE Tick
  BY <1>1, <1>5, TickStep
<1>6. ASSUME NEW p \in data_net, LoseData(p) PROVE IndInv'
  BY <1>1, <1>6, LossStep DEF LoseData
<1>7. ASSUME NEW a \in ack_net, LoseAck(a) PROVE IndInv'
  BY <1>1, <1>7, LossStep DEF LoseAck
<1>8. CASE UNCHANGED vars
  BY <1>1, <1>8, LossStep DEF vars, sndVars, rcvVars
<1> QED BY <1>2, <1>3, <1>4, <1>5, <1>6, <1>7, <1>8 DEF Next

-----------------------------------------------------------------------------
(***************************************************************************)
(* The theorems.                                                           *)
(***************************************************************************)

\* The inductive invariant holds in every reachable state.
LEMMA Invariance == Spec => []IndInv
  BY InitIndInv, NextIndInv, PTL DEF Spec

\* NextUnsent is the u of the invariant: send_buffer holds what follows it.
LEMMA UnsentPosition ==
    ASSUME NEW u, IndInvAt(u)
    PROVE  /\ Len(send_buffer) = Len(written) - u
           /\ send_buffer \in Seq(DataPacket)
           /\ NextUnsent = u
           /\ DOMAIN unacked_packets = base..(u - 1)
           /\ \A s \in base..(u - 1) : unacked_packets[s] = written[s + 1]
<1>1. /\ u \in Nat /\ Len(written) \in Nat /\ u <= Len(written)
      /\ written \in Seq(DataPacket) /\ next_seq = Len(written)
  BY IndInvTypes
<1>2. /\ send_buffer = SubSeq(written, u + 1, Len(written))
      /\ unacked_packets = [s \in base..(u - 1) |-> written[s + 1]]
  BY DEF IndInvAt, SndInv, SndWindow, WindowAt
<1>3. u \in 0..Len(written)
  BY <1>1
<1>4. Len(send_buffer) = Len(written) - u /\ send_buffer \in Seq(DataPacket)
  BY <1>1, <1>2, <1>3, SuffixElements
<1>5. NextUnsent = u
  <2>1. NextUnsent = Len(written) - (Len(written) - u)
    BY <1>1, <1>4 DEF NextUnsent
  <2> QED BY <2>1, <1>1
<1> QED BY <1>2, <1>4, <1>5

\* Every variable keeps its type; in particular inflight_bytes, which
\* on_ack_received decrements, never becomes negative.
THEOREM TypeCorrect == Spec => []TypeOK
<1>1. IndInv => TypeOK
  <2> SUFFICES ASSUME IndInv PROVE TypeOK
    OBVIOUS
  <2>1. PICK u : IndInvAt(u)
    BY DEF IndInv
  <2>2. /\ u \in Nat /\ base \in Nat /\ Len(written) \in Nat /\ next_seq = Len(written)
        /\ written \in Seq(DataPacket) /\ Shape(written)
        /\ base <= u /\ u <= Len(written)
    BY <2>1, IndInvTypes
  <2>3. /\ send_buffer \in Seq(DataPacket)
        /\ DOMAIN unacked_packets = base..(u - 1)
        /\ \A s \in base..(u - 1) : unacked_packets[s] = written[s + 1]
    BY <2>1, UnsentPosition
  <2>4. \A i \in 1..Len(written) : written[i] \in DataPacket
    BY <2>2, PacketFields
  <2>5. unacked_packets \in [DOMAIN unacked_packets -> DataPacket]
    <3>1. unacked_packets = [s \in base..(u - 1) |-> written[s + 1]]
      BY <2>1 DEF IndInvAt, SndInv, SndWindow, WindowAt
    <3>2. \A s \in base..(u - 1) : s + 1 \in 1..Len(written)
      BY <2>2
    <3> QED BY <3>1, <3>2, <2>4
  <2>6. DOMAIN unacked_packets \subseteq Nat
    BY <2>2, <2>3
  <2>7. inflight_bytes \in Nat
    <3>1. inflight_bytes = Span(written, base, u)
      BY <2>1 DEF IndInvAt, SndInv, SndWindow, WindowAt
    <3> QED BY <3>1, <2>2, SpanAdds
  <2>8. data_net \subseteq DataPacket
    <3> SUFFICES ASSUME NEW p \in data_net PROVE p \in DataPacket
      OBVIOUS
    <3>1. PICK i \in 1..u : p = written[i]
      BY <2>1 DEF IndInvAt, NetInv
    <3>2. i \in 1..Len(written)
      BY <2>2
    <3> QED BY <3>1, <3>2, <2>4
  <2>9. /\ cc_state \in CCStates /\ cwnd \in Nat /\ ssthresh \in Nat
        /\ dup_ack_count \in 0..4 /\ last_ack_received \in Nat /\ peer_rwnd \in Nat
    BY <2>1, <2>2, RwndAssumption DEF IndInvAt, SndInv, CCInv, AckInv
  <2>10. SndTypeOK
    BY <2>2, <2>3, <2>5, <2>6, <2>7, <2>8, <2>9 DEF SndTypeOK
  <2>11. RcvTypeOK
    BY <2>1 DEF IndInvAt, RcvInv
  <2> QED BY <2>10, <2>11 DEF TypeOK
<1> QED BY <1>1, Invariance, PTL

\* The receiver consumes every packet exactly once and in order, under any loss,
\* duplication, delay and reordering of DATA and ACK packets.
THEOREM ExactlyOnceInOrder == Spec => []InOrderExactlyOnce
<1>1. IndInv => InOrderExactlyOnce
  <2> SUFFICES ASSUME IndInv PROVE InOrderExactlyOnce
    OBVIOUS
  <2>1. PICK u : IndInvAt(u)
    BY DEF IndInv
  <2>2. written \in Seq(DataPacket) /\ RcvTypeOK /\ Consumed(written)
    BY <2>1, IndInvTypes DEF IndInvAt, RcvInv
  <2>3. expected_seq <= Len(written)
    BY <2>1, IndInvTypes DEF IndInvAt, NetInv
  <2> QED BY <2>2, <2>3, ConsumedIsPrefix DEF InOrderExactlyOnce
<1> QED BY <1>1, Invariance, PTL

\* The sender never takes a packet for received that the receiver does not have.
THEOREM AcksAreTrue == Spec => []AckedIsReceived
<1>1. IndInv => AckedIsReceived
  <2> SUFFICES ASSUME IndInv PROVE AckedIsReceived
    OBVIOUS
  <2>1. PICK u : IndInvAt(u)
    BY DEF IndInv
  <2>2. /\ u \in Nat /\ expected_seq \in Nat /\ Len(written) \in Nat
        /\ next_seq = Len(written) /\ u <= Len(written)
    BY <2>1, IndInvTypes
  <2>3. /\ base <= expected_seq /\ expected_seq <= u
        /\ \A a \in ack_net : a.ack_num <= expected_seq
    BY <2>1 DEF IndInvAt, NetInv
  <2> QED BY <2>2, <2>3 DEF AckedIsReceived
<1> QED BY <1>1, Invariance, PTL

\* Flow control: no packet is ever in the network beyond the receive window,
\* however old the ACKs that the sender has acted on.
THEOREM WindowRespected == Spec => []NeverBeyondWindow
<1>1. IndInv => NeverBeyondWindow
  <2> SUFFICES ASSUME IndInv, NEW p \in data_net
               PROVE  p.seq_num < expected_seq + MAX_RWND
    BY DEF NeverBeyondWindow
  <2>1. PICK u : IndInvAt(u)
    BY DEF IndInv
  <2>2. /\ u \in Nat /\ base \in Nat /\ expected_seq \in Nat /\ Len(written) \in Nat
        /\ u <= Len(written) /\ u <= base + MAX_RWND /\ MAX_RWND \in Nat
        /\ Shape(written)
    BY <2>1, IndInvTypes
  <2>3. base <= expected_seq
    BY <2>1 DEF IndInvAt, NetInv
  <2>4. PICK i \in 1..u : p = written[i]
    BY <2>1 DEF IndInvAt, NetInv
  <2>5. i \in 1..Len(written)
    BY <2>2
  <2>6. p.seq_num = i - 1
    <3>1. \A j \in 1..Len(written) : written[j].seq_num = j - 1
      BY <2>2, Zenon DEF Shape
    <3> QED BY <3>1, <2>4, <2>5, Zenon
  <2> QED BY <2>2, <2>3, <2>6
<1> QED BY <1>1, Invariance, PTL

\* No ACK ever closes the window, so the sender needs no zero-window probe.
THEOREM WindowStaysOpen == Spec => []WindowNeverCloses
<1>1. IndInv => WindowNeverCloses
  BY DEF IndInv, IndInvAt, NetInv, WindowNeverCloses
<1> QED BY <1>1, Invariance, PTL

\* unacked_packets and send_buffer are the unacknowledged rest of the stream,
\* without gap; check_timeouts finds the oldest outstanding packet at base.
THEOREM ContiguousWindow == Spec => []WindowContiguous
<1>1. IndInv => WindowContiguous
  <2> SUFFICES ASSUME IndInv PROVE WindowContiguous
    OBVIOUS
  <2>1. PICK u : IndInvAt(u)
    BY DEF IndInv
  <2>2. /\ NextUnsent = u
        /\ DOMAIN unacked_packets = base..(u - 1)
        /\ \A s \in base..(u - 1) : unacked_packets[s] = written[s + 1]
    BY <2>1, UnsentPosition
  <2>3. send_buffer = SubSeq(written, u + 1, Len(written))
    BY <2>1 DEF IndInvAt, SndInv, SndWindow, WindowAt
  <2> HIDE DEF NextUnsent
  <2> QED BY <2>2, <2>3, Zenon DEF WindowContiguous
<1> QED BY <1>1, Invariance, PTL

\* Packets never wait while nothing is outstanding: there is always an ACK or a
\* timeout left that can move them on.
THEOREM NeverStalled == Spec => []NoStall
<1>1. IndInv => NoStall
  <2> SUFFICES ASSUME IndInv, send_buffer # <<>>
               PROVE  base \in DOMAIN unacked_packets
    BY DEF NoStall
  <2>1. PICK u : IndInvAt(u)
    BY DEF IndInv
  <2>2. /\ u \in Nat /\ base \in Nat /\ Len(written) \in Nat /\ base <= u
        /\ u <= Len(written)
    BY <2>1, IndInvTypes
  <2>3. /\ Len(send_buffer) = Len(written) - u
        /\ send_buffer \in Seq(DataPacket)
        /\ DOMAIN unacked_packets = base..(u - 1)
    BY <2>1, UnsentPosition
  <2>4. Len(send_buffer) # 0
    BY <2>3, EmptySeq
  <2>5. u # Len(written)
    BY <2>2, <2>3, <2>4
  <2>6. u # base
    BY <2>1, <2>5 DEF IndInvAt, SndInv, SndWindow
  <2> QED BY <2>2, <2>3, <2>6
<1> QED BY <1>1, Invariance, PTL

\* The congestion-control state always agrees with cwnd and ssthresh.
THEOREM CongestionConsistent == Spec => []CongestionWindow
<1>1. IndInv => CongestionWindow
  BY DEF IndInv, IndInvAt, SndInv, CCInv
<1> QED BY <1>1, Invariance, PTL

\* The out-of-order buffer holds only packets the window leaves room for, each
\* under its own number and none that was consumed (process_segment).
THEOREM BufferWithinWindow == Spec => []BufferInWindow
<1>1. IndInv => BufferInWindow
  BY DEF IndInv, IndInvAt, RcvInv
<1> QED BY <1>1, Invariance, PTL

\* Only whole messages reach the application, and what is being assembled never
\* holds the end of one (_deliver_assembly).
THEOREM MessagesWhole == Spec => []WholeMessages
<1>1. IndInv => WholeMessages
  BY DEF IndInv, IndInvAt, RcvInv
<1> QED BY <1>1, Invariance, PTL

\* What a step of the sender puts on the wire is not acknowledged yet.
LEMMA SendsOpenPackets ==
    ASSUME NEW u, NEW v, SndStep(u, v)
    PROVE  \A p \in data_net' \ data_net : p.seq_num >= base'
<1> SUFFICES ASSUME NEW p \in data_net' \ data_net
             PROVE  p.seq_num >= base'
  OBVIOUS
<1>1. /\ v \in Nat /\ SndInv(v)'
      /\ \E i \in (base' + 1)..v : p = written'[i]
  BY DEF SndStep
<1>2. PICK b \in Nat : b = base'
  BY <1>1, Zenon DEF SndInv, SndWindow
<1>3. PICK i \in (b + 1)..v : p = written'[i]
  BY <1>1, <1>2
<1>4. PICK n \in Nat : n = Len(written') /\ v <= n
  BY <1>1, LenProperties DEF SndInv, SndWindow
<1>5. i \in 1..n
  BY <1>1, <1>4
<1>6. \A j \in 1..Len(written') : written'[j].seq_num = j - 1
  BY <1>1, Zenon DEF SndInv, SndWindow, Shape
<1>7. p.seq_num = i - 1
  BY <1>3, <1>4, <1>5, <1>6, Zenon
<1>8. i - 1 >= b
  BY <1>5
<1> QED BY <1>2, <1>7, <1>8, Zenon

\* No step puts a packet on the wire that the sender knows to be acknowledged:
\* retransmission starts at base and new packets follow it.
THEOREM OnlyOpenPacketsSent == Spec => NoUselessSend
<1> DEFINE A == \A p \in data_net' \ data_net : p.seq_num >= base'
<1>1. IndInv /\ [Next]_vars => [A]_vars
  <2> SUFFICES ASSUME IndInv, Next PROVE A
    OBVIOUS
  <2>1. PICK u : IndInvAt(u)
    BY DEF IndInv
  <2>2. ASSUME NEW len \in MessageLengths, AppSend(len) PROVE A
    <3>1. PICK v : SndStep(u, v)
      BY <2>1, <2>2, LengthsAssumption, EnqueueStep DEF IndInvAt, AppSend
    <3> QED BY <3>1, SendsOpenPackets
  <2>3. ASSUME NEW a \in ack_net, ReceiveAck(a) PROVE A
    <3>1. PICK v : SndStep(u, v)
      BY <2>1, <2>3, ReceiveAckStep
    <3> QED BY <3>1, SendsOpenPackets
  <2>4. CASE Tick
    <3>1. SndStep(u, u)
      BY <2>1, <2>4, TickStep
    <3> QED BY <3>1, SendsOpenPackets
  <2>5. ASSUME data_net' \subseteq data_net PROVE A
    BY <2>5
  <2>6. ASSUME NEW p \in data_net, ReceiveData(p) \/ LoseData(p) PROVE A
    BY <2>5, <2>6 DEF ReceiveData, LoseData
  <2>7. ASSUME NEW a \in ack_net, LoseAck(a) PROVE A
    BY <2>5, <2>7 DEF LoseAck
  <2> HIDE DEF A
  <2> QED BY <2>2, <2>3, <2>4, <2>6, <2>7 DEF Next
<1> QED BY <1>1, Invariance, PTL DEF Spec, NoUselessSend

\* x is w and one whole message after it.
OneMessageMore(w, x) ==
    \E n \in 1..(Len(x) - Len(w)) :
        /\ Len(x) = Len(w) + n
        /\ SubSeq(x, 1, Len(w)) = w
        /\ \A i \in 1..n : x[Len(w) + i].is_fin <=> i = n

LEMMA AppendedMessage ==
    ASSUME NEW w \in Seq(DataPacket), NEW c \in Seq(DataPacket), Len(c) > 0,
           \A i \in 1..Len(c) : c[i].is_fin <=> i = Len(c)
    PROVE  OneMessageMore(w, w \o c)
<1>1. PICK x \in Seq(DataPacket) :
          /\ x = w \o c /\ Len(x) = Len(w) + Len(c)
          /\ \A i \in 1..Len(w) : x[i] = w[i]
          /\ \A i \in 1..Len(c) : x[Len(w) + i] = c[i]
  <2>1. /\ w \o c \in Seq(DataPacket)
        /\ Len(w \o c) = Len(w) + Len(c)
        /\ \A i \in 1..Len(w) : (w \o c)[i] = w[i]
        /\ \A i \in 1..Len(c) : (w \o c)[Len(w) + i] = c[i]
    BY ConcatElements
  <2> QED BY <2>1, Zenon
<1>2. PICK n \in Nat : n = Len(c) /\ Len(w) \in Nat
  BY LenProperties
<1>3. SubSeq(x, 1, Len(w)) = w
  <2> DEFINE y == SubSeq(x, 1, Len(w))
  <2>1. Len(w) \in 0..Len(x)
    BY <1>1, <1>2, LenProperties
  <2>2. /\ y \in Seq(DataPacket) /\ Len(y) = Len(w)
        /\ \A i \in 1..Len(w) : y[i] = x[i]
    BY <2>1, PrefixElements
  <2> HIDE DEF y
  <2>3. \A i \in 1..Len(w) : y[i] = w[i]
    BY <2>2, <1>1, Zenon
  <2>4. y = w
    BY <2>2, <2>3, SeqEqual
  <2> QED BY <2>4 DEF y
<1>4. \A i \in 1..n : x[Len(w) + i].is_fin <=> i = n
  BY <1>1, <1>2, Zenon
<1>5. n \in 1..(Len(x) - Len(w))
  BY <1>1, <1>2
<1>6. Len(x) = Len(w) + n
  BY <1>1, <1>2
<1> QED BY <1>1, <1>3, <1>4, <1>5, <1>6, Zenon DEF OneMessageMore

\* process_segment hands over nothing, or the next whole messages of w.
LEMMA WholeDelivery ==
    ASSUME NEW w \in Seq(DataPacket), RcvInv(w), RcvInv(w)', Len(delivered) <= Len(delivered')
    PROVE  \/ delivered' = delivered
           \/ \E n \in 1..Len(w) : /\ n > Len(delivered) /\ w[n].is_fin
                                   /\ delivered' = SubSeq(w, 1, n)
<1>1. Len(w) \in Nat
  BY LenProperties
<1>2. PICK d \in Seq(DataPacket) :
          /\ d = delivered' /\ Len(d) <= Len(w)
          /\ \A i \in 1..Len(d) : d[i] = w[i]
          /\ d # <<>> => d[Len(d)].is_fin
  <2>1. /\ delivered' \in Seq(DataPacket) /\ assembly_buffer' \in Seq(DataPacket)
        /\ expected_seq' <= Len(w)
        /\ Len(delivered') + Len(assembly_buffer') = expected_seq'
        /\ \A i \in 1..Len(delivered') : delivered'[i] = w[i]
        /\ delivered' # <<>> => delivered'[Len(delivered')].is_fin
    BY DEF RcvInv, RcvTypeOK, Consumed, WholeMessages
  <2>2. Len(delivered') \in Nat /\ Len(assembly_buffer') \in Nat
    BY <2>1, LenProperties
  <2>3. Len(delivered') <= Len(w)
    BY <2>1, <2>2, <1>1
  <2> QED BY <2>1, <2>3, Zenon
<1>3. /\ delivered \in Seq(DataPacket) /\ Len(delivered) \in Nat /\ Len(d) \in Nat
      /\ \A i \in 1..Len(delivered) : delivered[i] = w[i]
  BY LenProperties DEF RcvInv, RcvTypeOK, Consumed
<1>4. CASE Len(d) = Len(delivered)
  <2>1. d = delivered
    BY <1>2, <1>3, <1>4, SeqEqual
  <2> QED BY <2>1, <1>2
<1>5. CASE Len(d) > Len(delivered)
  <2>1. Len(d) \in 1..Len(w) /\ Len(d) \in 0..Len(w) /\ Len(d) \in 1..Len(d)
    BY <1>1, <1>2, <1>3, <1>5
  <2>2. d # <<>>
    BY <2>1, EmptySeq
  <2>3. w[Len(d)].is_fin
    BY <2>1, <2>2, <1>2
  <2>4. d = SubSeq(w, 1, Len(d))
    <3> DEFINE y == SubSeq(w, 1, Len(d))
    <3>1. /\ y \in Seq(DataPacket) /\ Len(y) = Len(d)
          /\ \A i \in 1..Len(d) : y[i] = w[i]
      BY <2>1, PrefixElements
    <3> HIDE DEF y
    <3>2. \A i \in 1..Len(d) : y[i] = d[i]
      BY <3>1, <1>2, Zenon
    <3>3. y = d
      BY <3>1, <3>2, SeqEqual
    <3> QED BY <3>3 DEF y
  <2> QED BY <2>1, <2>3, <2>4, <1>2, <1>5
<1> QED BY <1>2, <1>3, <1>4, <1>5

\* enqueue_data is Send of the message stream.
LEMMA AppSendIsSend ==
    ASSUME NEW u, IndInvAt(u), NEW len \in Nat, AppSend(len)
    PROVE  Stream!Send
<1>1. /\ written \in Seq(DataPacket) /\ Shape(written) /\ next_seq = Len(written)
      /\ NumChunks(len) \in Nat \ {0}
  BY IndInvTypes, ChunkCount
<1>2. PICK c \in Seq(DataPacket) :
          /\ c = Chunks(len) /\ Len(c) = NumChunks(len)
          /\ \A i \in 1..NumChunks(len) : c[i].is_fin <=> i = NumChunks(len)
  BY <1>1, EnqueuedShape, Zenon
<1>3. Len(c) > 0 /\ \A i \in 1..Len(c) : c[i].is_fin <=> i = Len(c)
  BY <1>1, <1>2
<1>4. written' = written \o c /\ delivered' = delivered
  BY <1>2 DEF AppSend, EnqueueData, rcvVars
<1>5. OneMessageMore(written, written \o c)
  BY <1>1, <1>3, AppendedMessage
<1> QED BY <1>4, <1>5 DEF OneMessageMore, Stream!Send

\* process_segment hands over nothing, or the next whole messages.
LEMMA ReceiveDataIsDeliver ==
    ASSUME NEW u, IndInvAt(u), NEW p \in data_net, ReceiveData(p)
    PROVE  Stream!Deliver \/ UNCHANGED <<written, delivered>>
<1>1. /\ RcvInv(written)' /\ written' = written
      /\ Len(delivered) <= Len(delivered')
  BY ReceiveDataStep
<1>2. PICK w \in Seq(DataPacket) : w = written /\ RcvInv(w)
  BY IndInvTypes DEF IndInvAt
<1>3. RcvInv(w)'
  BY <1>1, <1>2
<1>4. CASE \E n \in 1..Len(w) : /\ n > Len(delivered) /\ w[n].is_fin
                                /\ delivered' = SubSeq(w, 1, n)
  <2>1. PICK n \in 1..Len(w) : /\ n > Len(delivered) /\ w[n].is_fin
                               /\ delivered' = SubSeq(w, 1, n)
    BY <1>4
  <2>2. Stream!DeliverUpTo(n) /\ n \in DOMAIN written
    BY <2>1, <1>1, <1>2 DEF Stream!DeliverUpTo
  <2> QED BY <2>2 DEF Stream!Deliver
<1>5. CASE delivered' = delivered
  BY <1>1, <1>5
<1> QED BY <1>1, <1>2, <1>3, <1>4, <1>5, WholeDelivery

\* The connection refines the message stream: whatever the network does, every
\* step is a Send, a Deliver of the next whole messages, or a stutter.
THEOREM RefinesMessageStream == Spec => StreamSafety
<1>1. Init => Stream!StreamInit
  BY DEF Init, SndInit, RcvInit, Stream!StreamInit
<1>2. IndInv /\ [Next]_vars => [Stream!StreamNext]_<<written, delivered>>
  <2> SUFFICES ASSUME IndInv, [Next]_vars
               PROVE  Stream!StreamNext \/ UNCHANGED <<written, delivered>>
    OBVIOUS
  <2>1. PICK u : IndInvAt(u)
    BY DEF IndInv
  <2>2. ASSUME NEW len \in MessageLengths, AppSend(len) PROVE Stream!Send
    BY <2>1, <2>2, LengthsAssumption, AppSendIsSend
  <2>3. ASSUME NEW p \in data_net, ReceiveData(p)
        PROVE  Stream!Deliver \/ UNCHANGED <<written, delivered>>
    BY <2>1, <2>3, ReceiveDataIsDeliver
  <2>4. ASSUME NEW a \in ack_net, ReceiveAck(a)
        PROVE  UNCHANGED <<written, delivered>>
    BY <2>4 DEF ReceiveAck, rcvVars, OnAckReceived, NewAck, FastRetransmit,
                InflateWindow, OtherDupAck, CountDupAck, StaleAck
  <2>5. CASE Tick
    BY <2>5 DEF Tick, CheckTimeouts, rcvVars
  <2>6. ASSUME NEW p \in data_net, LoseData(p)
        PROVE  UNCHANGED <<written, delivered>>
    BY <2>6 DEF LoseData, sndVars, rcvVars
  <2>7. ASSUME NEW a \in ack_net, LoseAck(a)
        PROVE  UNCHANGED <<written, delivered>>
    BY <2>7 DEF LoseAck, sndVars, rcvVars
  <2>8. CASE UNCHANGED vars
    BY <2>8 DEF vars
  <2> QED BY <2>2, <2>3, <2>4, <2>5, <2>6, <2>7, <2>8
      DEF Next, Stream!StreamNext
<1> QED BY <1>1, <1>2, Invariance, PTL DEF Spec, StreamSafety

-----------------------------------------------------------------------------
(***************************************************************************)
(* inflight_bytes against the sum over unacked_packets.  The sum is a fold *)
(* over a set, which takes out the elements in an unknown order; it is     *)
(* proved to count the distinct bytes of the stream that the packets carry.*)
(***************************************************************************)

Picked(t) == CHOOSE x \in t : TRUE

\* it maps every set of packets of f to the sum of their payloads.
Sums(f, S, it) ==
    it = [t \in SUBSET S |->
            IF t = {} THEN 0 ELSE PayloadLen(f[Picked(t)]) + it[t \ {Picked(t)}]]

PayloadSum(f, S) == MapThenSumSet(LAMBDA s : PayloadLen(f[s]), S)

LEMMA SumIs ==
    ASSUME NEW f, NEW S
    PROVE  PayloadSum(f, S) = (CHOOSE it : Sums(f, S, it))[S]
  BY Zenon DEF PayloadSum, MapThenSumSet, MapThenFoldSet, Sums, Picked

\* The bytes from lo up to hi.
LEMMA RangeCount ==
    ASSUME NEW lo \in Nat, NEW hi \in Nat, lo <= hi
    PROVE  IsFiniteSet(lo..(hi - 1)) /\ Cardinality(lo..(hi - 1)) = hi - lo
<1>1. PICK z \in Int : z = hi - 1
  OBVIOUS
<1>2. IsFiniteSet(lo..z) /\ Cardinality(lo..z) = IF lo > z THEN 0 ELSE z - lo + 1
  BY FS_Interval
<1> QED BY <1>1, <1>2

\* The bytes of the stream that the packets t of w carry.
BytesOf(w, t) == {x \in Nat : \E s \in t : w[s + 1].lo <= x /\ x < w[s + 1].hi}

\* Taking one packet out takes out its bytes and no others.
LEMMA BytesSplit ==
    ASSUME NEW w \in Seq(DataPacket), Shape(w), NEW n \in Nat, n <= Len(w),
           NEW t \in SUBSET (0..(n - 1)), NEW s \in t
    PROVE  /\ IsFiniteSet(BytesOf(w, t)) /\ IsFiniteSet(BytesOf(w, t \ {s}))
           /\ Cardinality(BytesOf(w, t)) =
                PayloadLen(w[s + 1]) + Cardinality(BytesOf(w, t \ {s}))
<1>1. \A i \in 1..Len(w) : w[i].lo \in Nat /\ w[i].hi \in Nat /\ w[i].lo <= w[i].hi
  BY PacketFields DEF Shape
<1>2. Len(w) \in Nat /\ \A i, j \in 1..Len(w) : i < j => w[i].hi <= w[j].lo
  BY DEF Shape
<1>3. \A r \in t : r \in Nat /\ r + 1 \in 1..Len(w)
  BY <1>2
<1> DEFINE own == w[s + 1].lo..(w[s + 1].hi - 1)
           rest == BytesOf(w, t \ {s})
<1>4. IsFiniteSet(own) /\ Cardinality(own) = PayloadLen(w[s + 1])
  <2>1. w[s + 1].lo \in Nat /\ w[s + 1].hi \in Nat /\ w[s + 1].lo <= w[s + 1].hi
    BY <1>1, <1>3
  <2> QED BY <2>1, RangeCount DEF PayloadLen
<1>5. IsFiniteSet(rest)
  <2>1. CASE Len(w) = 0
    <3>1. rest \subseteq {}
      BY <2>1, <1>3 DEF BytesOf
    <3> QED BY <3>1, FS_EmptySet, FS_Subset
  <2>2. CASE Len(w) > 0
    <3>1. PICK h \in Nat : h = w[Len(w)].hi
      BY <2>2, <1>1, <1>2
    <3>2. ASSUME NEW i \in 1..Len(w) PROVE w[i].hi <= h
      <4>1. Len(w) \in 1..Len(w)
        BY <1>2, <2>2
      <4>2. CASE i = Len(w)
        BY <4>2, <3>1, <1>1
      <4>3. CASE i < Len(w)
        <5>1. w[i].hi <= w[Len(w)].lo
          BY <4>1, <4>3, <1>2
        <5> QED BY <5>1, <4>1, <3>1, <1>1
      <4> QED BY <4>2, <4>3, <1>2
    <3>3. rest \subseteq 0..h
      <4> SUFFICES ASSUME NEW x \in rest PROVE x \in 0..h
        OBVIOUS
      <4>1. PICK r \in t \ {s} : x \in Nat /\ w[r + 1].lo <= x /\ x < w[r + 1].hi
        BY DEF BytesOf
      <4>2. r + 1 \in 1..Len(w)
        BY <1>3
      <4> QED BY <4>1, <4>2, <3>2, <1>1
    <3>4. IsFiniteSet(0..h)
      BY FS_Interval
    <3> QED BY <3>3, <3>4, FS_Subset
  <2> QED BY <2>1, <2>2, <1>2
<1>6. BytesOf(w, t) = own \cup rest
  <2>1. ASSUME NEW x \in BytesOf(w, t) PROVE x \in own \cup rest
    <3>1. PICK r \in t : x \in Nat /\ w[r + 1].lo <= x /\ x < w[r + 1].hi
      BY DEF BytesOf
    <3>2. CASE r = s
      BY <3>1, <3>2, <1>1, <1>3
    <3>3. CASE r # s
      BY <3>1, <3>3 DEF BytesOf
    <3> QED BY <3>2, <3>3
  <2>2. ASSUME NEW x \in own PROVE x \in BytesOf(w, t)
    <3>1. x \in Nat /\ w[s + 1].lo <= x /\ x < w[s + 1].hi
      BY <1>1, <1>3
    <3> QED BY <3>1 DEF BytesOf
  <2>3. rest \subseteq BytesOf(w, t)
    BY DEF BytesOf
  <2> QED BY <2>1, <2>2, <2>3
<1>7. ASSUME NEW x \in own, x \in rest PROVE FALSE
  <2>1. PICK r \in t \ {s} : x \in Nat /\ w[r + 1].lo <= x /\ x < w[r + 1].hi
    BY <1>7 DEF BytesOf
  <2>2. w[s + 1].lo <= x /\ x < w[s + 1].hi
    BY <1>1, <1>3
  <2>3. PICK i \in 1..Len(w) : i = r + 1
    BY <1>3
  <2>4. PICK j \in 1..Len(w) : j = s + 1
    BY <1>3
  <2>5. i # j
    BY <2>3, <2>4, <1>3
  <2>6. \A k, l \in 1..Len(w) :
            k < l /\ w[l].lo <= x => ~ (x < w[k].hi)
    <3> SUFFICES ASSUME NEW k \in 1..Len(w), NEW l \in 1..Len(w), k < l, w[l].lo <= x
                 PROVE  ~ (x < w[k].hi)
      BY Zenon
    <3>1. PICK h \in Nat, lo \in Nat : h = w[k].hi /\ lo = w[l].lo
      BY <1>1, Zenon
    <3>2. h <= lo /\ lo <= x /\ x \in Nat
      BY <1>2, <2>1, <3>1, Zenon
    <3>3. ~ (x < h)
      BY <3>2
    <3> QED BY <3>1, <3>3, Zenon
  <2>7. i < j \/ j < i
    BY <2>5
  <2> QED BY <2>1, <2>2, <2>3, <2>4, <2>6, <2>7, Zenon
<1> HIDE DEF own, rest
<1>8. own \cap rest = {}
  BY <1>7
<1>9. /\ IsFiniteSet(own \cup rest)
      /\ Cardinality(own \cup rest) =
           Cardinality(own) + Cardinality(rest) - Cardinality(own \cap rest)
  BY <1>4, <1>5, FS_Union
<1>10. Cardinality(own \cap rest) = 0 /\ Cardinality(rest) \in Nat /\ Cardinality(own) \in Nat
  BY <1>4, <1>5, <1>8, FS_EmptySet, FS_CardinalityType
<1> QED BY <1>4, <1>5, <1>6, <1>9, <1>10 DEF rest

\* A run of packets carries the bytes from the first one's to the last one's.
LEMMA BytesOfRun ==
    ASSUME NEW w \in Seq(DataPacket), Shape(w), NEW b \in Nat, NEW u \in Nat,
           b < u, u <= Len(w)
    PROVE  /\ BytesOf(w, b..(u - 1)) = w[b + 1].lo..(w[u].hi - 1)
           /\ w[b + 1].lo \in Nat /\ w[u].hi \in Nat /\ w[b + 1].lo <= w[u].hi
<1>1. \A i \in 1..Len(w) : w[i].lo \in Nat /\ w[i].hi \in Nat /\ w[i].lo <= w[i].hi
  BY PacketFields DEF Shape
<1>2. Len(w) \in Nat /\ \A i, j \in 1..Len(w) : i < j => w[i].hi <= w[j].lo
  BY DEF Shape
<1>3. \A i \in 1..Len(w) : i + 1 <= Len(w) => w[i + 1].lo = w[i].hi
  BY DEF Shape
<1>4. b + 1 \in 1..Len(w) /\ u \in 1..Len(w)
  BY <1>2
<1>5. ASSUME NEW x \in BytesOf(w, b..(u - 1))
      PROVE  x \in w[b + 1].lo..(w[u].hi - 1)
  <2>1. PICK s \in b..(u - 1) : x \in Nat /\ w[s + 1].lo <= x /\ x < w[s + 1].hi
    BY DEF BytesOf
  <2>2. PICK i \in 1..Len(w) : i = s + 1 /\ b + 1 <= i /\ i <= u
    BY <1>2
  <2>3. w[b + 1].lo <= w[i].lo
    <3>1. CASE i = b + 1
      BY <3>1, <1>1, <1>4
    <3>2. CASE b + 1 < i
      BY <3>2, <1>1, <1>2, <1>4
    <3> QED BY <3>1, <3>2, <2>2
  <2>4. w[i].hi <= w[u].hi
    <3>1. CASE i = u
      BY <3>1, <1>1, <1>4
    <3>2. CASE i < u
      BY <3>2, <1>1, <1>2, <1>4
    <3> QED BY <3>1, <3>2, <2>2
  <2>5. w[b + 1].lo \in Nat /\ w[i].lo \in Nat /\ w[i].hi \in Nat /\ w[u].hi \in Nat
    BY <1>1, <1>4
  <2>6. x \in Nat /\ w[i].lo <= x /\ x < w[i].hi
    BY <2>1, <2>2
  <2>7. PICK lo \in Nat, hi \in Nat, l \in Nat, h \in Nat :
            lo = w[b + 1].lo /\ hi = w[u].hi /\ l = w[i].lo /\ h = w[i].hi
    BY <2>5, Zenon
  <2>8. x \in Nat /\ l <= x /\ x < h /\ lo <= l /\ h <= hi
    BY <2>3, <2>4, <2>6, <2>7, Zenon
  <2>9. x \in lo..(hi - 1)
    BY <2>8
  <2> QED BY <2>7, <2>9, Zenon
<1>6. ASSUME NEW x \in w[b + 1].lo..(w[u].hi - 1)
      PROVE  x \in BytesOf(w, b..(u - 1))
  <2>1. x \in Nat /\ w[b + 1].lo <= x /\ x < w[u].hi
    BY <1>1, <1>4
  <2> DEFINE S == {s \in b..(u - 1) : w[s + 1].lo <= x}
  <2>2. u \in Nat /\ S \in SUBSET (0..u) /\ b \in S
    BY <2>1
  <2>3. Max(S) \in S /\ \A y \in S : y <= Max(S)
    BY <2>2, GreatestElement
  <2>4. PICK m \in b..(u - 1) : w[m + 1].lo <= x /\ \A y \in S : y <= m
    BY <2>3
  <2>5. x < w[m + 1].hi
    <3>1. CASE m = u - 1
      <4>1. m + 1 = u
        BY <3>1
      <4> QED BY <4>1, <2>1
    <3>2. CASE m < u - 1
      <4>1. m + 1 \in b..(u - 1) /\ m + 1 \in 1..Len(w) /\ (m + 1) + 1 <= Len(w)
            /\ (m + 1) + 1 \in 1..Len(w)
        BY <3>2, <1>2
      <4>2. ~ (w[(m + 1) + 1].lo <= x)
        <5>1. m + 1 \notin S
          BY <2>4, <3>2
        <5> QED BY <5>1, <4>1
      <4>3. w[(m + 1) + 1].lo = w[m + 1].hi
        BY <4>1, <1>3
      <4> QED BY <4>1, <4>2, <4>3, <1>1, <2>1
    <3> QED BY <3>1, <3>2
  <2> QED BY <2>1, <2>4, <2>5 DEF BytesOf
<1>7. w[b + 1].lo <= w[u].hi
  <2>1. CASE b + 1 = u
    BY <2>1, <1>1, <1>4
  <2>2. CASE b + 1 < u
    <3>1. w[b + 1].hi <= w[u].lo
      BY <2>2, <1>2, <1>4
    <3> QED BY <3>1, <1>1, <1>4
  <2> QED BY <2>1, <2>2
<1> QED BY <1>1, <1>4, <1>5, <1>6, <1>7

\* The fold of a window of w counts the bytes: the count satisfies the fold's
\* equation, and a smallest set on which two solutions differ has none.
LEMMA SumCountsBytes ==
    ASSUME NEW w \in Seq(DataPacket), Shape(w), NEW n \in Nat, n <= Len(w),
           NEW S \in SUBSET (0..(n - 1)),
           NEW f, \A s \in S : f[s] = w[s + 1]
    PROVE  PayloadSum(f, S) = Cardinality(BytesOf(w, S))
<1> DEFINE g == [t \in SUBSET S |-> Cardinality(BytesOf(w, t))]
<1>1. ASSUME NEW t \in SUBSET S, t # {}
      PROVE  /\ Picked(t) \in t
             /\ t \ {Picked(t)} \in SUBSET S
             /\ f[Picked(t)] = w[Picked(t) + 1]
             /\ Cardinality(BytesOf(w, t)) =
                  PayloadLen(w[Picked(t) + 1]) + Cardinality(BytesOf(w, t \ {Picked(t)}))
  <2>1. Picked(t) \in t
    BY <1>1 DEF Picked
  <2>2. t \in SUBSET (0..(n - 1))
    OBVIOUS
  <2>3. PICK s \in t : s = Picked(t)
    BY <2>1
  <2>4. Cardinality(BytesOf(w, t)) =
          PayloadLen(w[s + 1]) + Cardinality(BytesOf(w, t \ {s}))
    BY <2>2, BytesSplit
  <2> QED BY <2>1, <2>3, <2>4, Zenon
<1>2. Cardinality(BytesOf(w, {})) = 0
  <2>1. BytesOf(w, {}) = {}
    BY DEF BytesOf
  <2> QED BY <2>1, FS_EmptySet
<1>3. Sums(f, S, g)
  <2> SUFFICES ASSUME NEW t \in SUBSET S
               PROVE  g[t] = IF t = {} THEN 0
                             ELSE PayloadLen(f[Picked(t)]) + g[t \ {Picked(t)}]
    BY DEF Sums
  <2>1. CASE t = {}
    BY <2>1, <1>2
  <2>2. CASE t # {}
    BY <2>2, <1>1
  <2> QED BY <2>1, <2>2
<1>4. PICK h : h = (CHOOSE it : Sums(f, S, it)) /\ Sums(f, S, h)
  BY <1>3, Zenon
<1>5. \A t \in SUBSET S : h[t] = IF t = {} THEN 0
                                 ELSE PayloadLen(f[Picked(t)]) + h[t \ {Picked(t)}]
  BY <1>4, Zenon DEF Sums
<1> DEFINE Bad == {t \in SUBSET S : h[t] # Cardinality(BytesOf(w, t))}
<1> HIDE DEF g
<1>6. Bad = {}
  <2> SUFFICES ASSUME Bad # {} PROVE FALSE
    OBVIOUS
  <2>1. Bad \subseteq FiniteSubsetsOf(S)
    <3>1. IsFiniteSet(0..(n - 1))
      BY FS_Interval
    <3>2. IsFiniteSet(S)
      BY <3>1, FS_Subset
    <3>3. \A t \in SUBSET S : IsFiniteSet(t)
      BY <3>2, FS_Subset
    <3> QED BY <3>3 DEF FiniteSubsetsOf
  <2>2. PICK t \in Bad : \A v \in Bad : ~ (<<v, t>> \in StrictSubsetOrdering(S))
    BY <2>1, FS_StrictSubsetOrderingWellFounded, WFMin, Zenon
  <2>3. t \in SUBSET S /\ h[t] # Cardinality(BytesOf(w, t))
    BY <2>2
  <2>4. CASE t = {}
    BY <2>3, <2>4, <1>2, <1>5
  <2>5. CASE t # {}
    <3>1. PICK v : v = t \ {Picked(t)}
      OBVIOUS
    <3>2. /\ Picked(t) \in t /\ v \in SUBSET S
          /\ f[Picked(t)] = w[Picked(t) + 1]
          /\ Cardinality(BytesOf(w, t)) =
               PayloadLen(w[Picked(t) + 1]) + Cardinality(BytesOf(w, v))
      BY <2>3, <2>5, <3>1, <1>1
    <3>3. <<v, t>> \in StrictSubsetOrdering(S)
      <4>1. v \subseteq t /\ v # t
        BY <3>1, <3>2
      <4> QED BY <4>1, <2>3, <3>2, Zenon DEF StrictSubsetOrdering
    <3>4. v \notin Bad
      BY <3>3, <2>2, Zenon
    <3>5. h[v] = Cardinality(BytesOf(w, v))
      BY <3>2, <3>4
    <3>6. h[t] = PayloadLen(f[Picked(t)]) + h[v]
      BY <2>3, <2>5, <3>1, <1>5
    <3> QED BY <2>3, <3>2, <3>5, <3>6
  <2> QED BY <2>4, <2>5
<1>7. h[S] = Cardinality(BytesOf(w, S))
  BY <1>6
<1> QED BY <1>4, <1>7, SumIs

\* inflight_bytes is what is on the wire: every acknowledgement, retransmission
\* and timeout leaves it at the payload of the packets not acknowledged yet.
THEOREM InflightNeverDrifts == Spec => []InflightExact
<1>1. IndInv => InflightExact
  <2> SUFFICES ASSUME IndInv PROVE InflightExact
    OBVIOUS
  <2>1. PICK u : IndInvAt(u)
    BY DEF IndInv
  <2>2. /\ u \in Nat /\ base \in Nat /\ written \in Seq(DataPacket) /\ Shape(written)
        /\ base <= u /\ u <= Len(written)
    BY <2>1, IndInvTypes
  <2>3. /\ DOMAIN unacked_packets = base..(u - 1)
        /\ \A s \in base..(u - 1) : unacked_packets[s] = written[s + 1]
    BY <2>1, UnsentPosition
  <2>4. inflight_bytes = Span(written, base, u)
    BY <2>1 DEF IndInvAt, SndInv, SndWindow, WindowAt
  <2> DEFINE S == DOMAIN unacked_packets
  <2>5. S \in SUBSET (0..(u - 1))
    BY <2>2, <2>3
  <2>6. \A s \in S : unacked_packets[s] = written[s + 1]
    BY <2>3
  <2>7. PayloadSum(unacked_packets, S) = Cardinality(BytesOf(written, S))
    BY <2>2, <2>5, <2>6, SumCountsBytes
  <2>8. Cardinality(BytesOf(written, S)) = Span(written, base, u)
    <3>1. CASE u = base
      <4>1. BytesOf(written, S) = {}
        BY <3>1, <2>2, <2>3 DEF BytesOf
      <4> QED BY <4>1, <3>1, FS_EmptySet DEF Span
    <3>2. CASE base < u
      <4>1. /\ BytesOf(written, S) = written[base + 1].lo..(written[u].hi - 1)
            /\ written[base + 1].lo \in Nat /\ written[u].hi \in Nat
            /\ written[base + 1].lo <= written[u].hi
        BY <3>2, <2>2, <2>3, BytesOfRun
      <4>2. Span(written, base, u) = written[u].hi - written[base + 1].lo
        BY <3>2, <2>2 DEF Span
      <4> QED BY <4>1, <4>2, RangeCount
    <3> QED BY <3>1, <3>2, <2>2
  <2> QED BY <2>4, <2>7, <2>8, Zenon DEF InflightExact, PayloadSum
<1> QED BY <1>1, Invariance, PTL

-----------------------------------------------------------------------------
(***************************************************************************)
(* The client's sender with its two threads and no lock, for every window, *)
(* packet size and sequence of messages: no packet is lost or sent in      *)
(* duplicate by the race in _try_send, the window is overrun by one packet *)
(* at most, and the peer still receives every packet once and in order.    *)
(*                                                                         *)
(* The invariant says where every packet is.  Of the packets written, those*)
(* from u on wait in send_buffer; one below u and not below base is in     *)
(* unacked_packets or in the hand of one thread.  A packet in a hand has   *)
(* never been on the wire, so the peer cannot have acknowledged it, which  *)
(* is why the scan that removes acknowledged packets never meets one.      *)
(***************************************************************************)

Labels == {"idle", "append", "bytes", "segments", "pop", "insert", "add",
           "scan", "load", "subtract", "grow", "dead"}

\* The packets are numbered from 0, and those from u on wait.
Waiting(u) ==
    /\ written \in Seq(DataPacket)
    /\ \A i \in 1..Len(written) : written[i].seq_num = i - 1
    /\ next_seq = Len(written)
    /\ u \in Nat
    /\ u <= Len(written)
    /\ send_buffer \in Seq(DataPacket)
    /\ Len(send_buffer) = Len(written) - u
    /\ \A i \in 1..(Len(written) - u) : send_buffer[i] = written[u + i]

\* What enqueue_data has still to append continues the numbering.
Made ==
    pc["app"] = "append" =>
        /\ making \in Seq(DataPacket)
        /\ Len(making) > 0
        /\ \A i \in 1..Len(making) : making[i].seq_num = next_seq + i - 1

\* unacked_packets files packets that were taken from the buffer, under their
\* own numbers.
Filed(u) ==
    \A s \in DOMAIN unacked_packets :
        /\ s \in 0..(u - 1)
        /\ unacked_packets[s] = written[s + 1]

\* A packet in a thread's hand was taken from the buffer.
Held(u) ==
    \A t \in Threads : pc[t] \in {"insert", "add"} =>
        /\ hand[t].seq_num \in 0..(u - 1)
        /\ hand[t] = written[hand[t].seq_num + 1]

\* The threads never hold the same packet.
HandsDiffer ==
    \A t, r \in Threads :
        /\ t # r
        /\ pc[t] \in {"insert", "add"}
        /\ pc[r] \in {"insert", "add"}
        => hand[t].seq_num # hand[r].seq_num

\* A packet in a hand and not yet filed has never been sent.
Fresh(s) ==
    /\ s \notin DOMAIN unacked_packets
    /\ s >= expected_seq
    /\ s \notin DOMAIN ooo_buffer
    /\ \A p \in data_net : p.seq_num # s

HeldFresh == \A t \in Threads : pc[t] = "insert" => Fresh(hand[t].seq_num)

\* Every packet from base on that was taken from the buffer is filed or held.
Kept(u) ==
    \A s \in base..(u - 1) :
        s \in DOMAIN unacked_packets \/ \E t \in Threads : Holds(t, s)

\* keys_to_remove names acknowledged packets, and one at least while they are
\* being removed.
KeysAcked ==
    /\ keys \subseteq Nat
    /\ \A s \in keys : s < base
    /\ pc["receive"] \in {"load", "subtract"} => keys # {}

\* Threads that have passed the window check and not yet taken a packet.
AtPop(t) == IF pc[t] = "pop" THEN 1 ELSE 0

\* They and the packets taken since base overrun the window by one at most.
Overrun(u) == u + AtPop("app") + AtPop("receive") <= base + MAX_RWND + 1

ThreadsTypes ==
    /\ pc \in [Threads -> Labels]
    /\ hand \in [Threads -> DataPacket]
    /\ base \in Nat
    /\ peer_rwnd \in 1..MAX_RWND

ThreadsInvAt(u) ==
    /\ ThreadsTypes
    /\ CCInv
    /\ Waiting(u)
    /\ Made
    /\ Filed(u)
    /\ Held(u)
    /\ HandsDiffer
    /\ HeldFresh
    /\ Kept(u)
    /\ KeysAcked
    /\ Overrun(u)
    /\ RcvInv(written)
    /\ NetInv(u)

\* The inductive invariant.
ThreadsInv == \E u \in base..next_seq : ThreadsInvAt(u)

-----------------------------------------------------------------------------
\* The numbers of the invariant are numbers.
LEMMA ThreadsInvNumbers ==
    ASSUME NEW u, ThreadsInvAt(u)
    PROVE  /\ u \in Nat /\ base \in Nat /\ expected_seq \in Nat
           /\ Len(written) \in Nat /\ next_seq = Len(written)
           /\ MAX_RWND \in Nat \ {0}
           /\ base <= expected_seq /\ expected_seq <= u /\ u <= Len(written)
           /\ DOMAIN unacked_packets \subseteq Nat
           /\ written \in Seq(DataPacket)
<1>1. u \in Nat /\ u <= Len(written) /\ next_seq = Len(written)
      /\ written \in Seq(DataPacket)
  BY DEF ThreadsInvAt, Waiting
<1>2. base \in Nat
  BY DEF ThreadsInvAt, ThreadsTypes
<1>3. expected_seq \in Nat
  BY DEF ThreadsInvAt, RcvInv, RcvTypeOK
<1>4. base <= expected_seq /\ expected_seq <= u
  BY DEF ThreadsInvAt, NetInv
<1>5. DOMAIN unacked_packets \subseteq Nat
  BY <1>1 DEF ThreadsInvAt, Filed
<1> QED BY <1>1, <1>2, <1>3, <1>4, <1>5, RwndAssumption

\* The position of the buffer is the witness.
LEMMA ThreadsInvIntro ==
    ASSUME NEW v, ThreadsInvAt(v)
    PROVE  ThreadsInv
<1>1. v \in base..next_seq
  BY ThreadsInvNumbers
<1> QED BY <1>1 DEF ThreadsInv

LEMMA ThreadsInvIntroNext ==
    ASSUME NEW v, ThreadsInvAt(v)'
    PROVE  ThreadsInv'
<1>1. v \in Nat /\ v <= Len(written') /\ next_seq' = Len(written')
      /\ written' \in Seq(DataPacket)
  BY DEF ThreadsInvAt, Waiting
<1>2. base' \in Nat
  BY DEF ThreadsInvAt, ThreadsTypes
<1>3. expected_seq' \in Nat
  BY DEF ThreadsInvAt, RcvInv, RcvTypeOK
<1>4. base' <= expected_seq' /\ expected_seq' <= v
  BY DEF ThreadsInvAt, NetInv
<1>5. v \in base'..next_seq'
  BY <1>1, <1>2, <1>3, <1>4
<1> QED BY <1>5 DEF ThreadsInv

\* A step moves no packet when no thread takes or files one: the packets stay
\* where they are, base may advance over what the peer has, and packets of
\* unacked_packets may be sent again.
NoPacketMoves ==
    /\ UNCHANGED <<written, next_seq, send_buffer, unacked_packets, rcvVars,
                   ack_net, hand>>
    /\ \A t \in Threads : pc'[t] \in {"insert", "add"} => pc'[t] = pc[t]
    /\ \A t \in Threads : pc[t] = "insert" => pc'[t] = "insert"
    /\ base' \in Nat
    /\ base <= base'
    /\ base' <= expected_seq
    /\ \A p \in data_net' :
          \/ p \in data_net
          \/ \E s \in DOMAIN unacked_packets : p = unacked_packets[s]

LEMMA NoPacketMovesStep ==
    ASSUME NEW u, ThreadsInvAt(u), NoPacketMoves,
           pc' \in [Threads -> Labels], peer_rwnd' \in 1..MAX_RWND,
           CCInv', Made', KeysAcked', Overrun(u)'
    PROVE  ThreadsInvAt(u)'
<1>0. /\ u \in Nat /\ base \in Nat /\ expected_seq \in Nat
      /\ base <= expected_seq /\ expected_seq <= u /\ u <= Len(written)
      /\ Len(written) \in Nat
  BY ThreadsInvNumbers
<1>1. ThreadsTypes'
  BY DEF ThreadsInvAt, ThreadsTypes, NoPacketMoves
<1>2. Waiting(u)'
  BY DEF ThreadsInvAt, Waiting, NoPacketMoves
<1>3. Filed(u)'
  BY DEF ThreadsInvAt, Filed, NoPacketMoves
<1>4. Held(u)'
  BY DEF ThreadsInvAt, Held, NoPacketMoves
<1>5. HandsDiffer'
  <2> SUFFICES ASSUME NEW t \in Threads, NEW r \in Threads, t # r,
                      pc'[t] \in {"insert", "add"}, pc'[r] \in {"insert", "add"}
               PROVE  hand'[t].seq_num # hand'[r].seq_num
    BY Zenon DEF HandsDiffer
  <2>1. pc[t] \in {"insert", "add"} /\ pc[r] \in {"insert", "add"} /\ hand' = hand
    BY DEF NoPacketMoves
  <2> QED BY <2>1 DEF ThreadsInvAt, HandsDiffer
<1>6. HeldFresh'
  <2> SUFFICES ASSUME NEW t \in Threads, pc'[t] = "insert"
               PROVE  Fresh(hand[t].seq_num)'
    BY Zenon DEF HeldFresh, NoPacketMoves
  <2>0. PICK s : s = hand[t].seq_num
    OBVIOUS
  <2>1. pc[t] = "insert" /\ hand'[t].seq_num = s
    BY <2>0 DEF NoPacketMoves
  <2>2. Fresh(s)
    BY <2>0, <2>1 DEF ThreadsInvAt, HeldFresh
  <2>3. ASSUME NEW p \in data_net' PROVE p.seq_num # s
    <3>1. CASE p \in data_net
      BY <3>1, <2>2 DEF Fresh
    <3>2. CASE \E k \in DOMAIN unacked_packets : p = unacked_packets[k]
      <4>1. PICK k \in DOMAIN unacked_packets : p = unacked_packets[k]
        BY <3>2
      <4>2. k \in 0..(u - 1) /\ p = written[k + 1]
        BY <4>1 DEF ThreadsInvAt, Filed
      <4>3. p.seq_num = k
        BY <4>2, <1>0 DEF ThreadsInvAt, Waiting
      <4> QED BY <4>1, <4>3, <2>2 DEF Fresh
    <3> QED BY <3>1, <3>2 DEF NoPacketMoves
  <2> QED BY <2>0, <2>1, <2>2, <2>3 DEF Fresh, NoPacketMoves, rcvVars
<1>7. Kept(u)'
  <2> SUFFICES ASSUME NEW s \in base'..(u - 1)
               PROVE  \/ s \in DOMAIN unacked_packets'
                      \/ \E t \in Threads : pc'[t] = "insert" /\ hand'[t].seq_num = s
    BY DEF Kept, Holds
  <2>1. s \in base..(u - 1)
    BY <1>0 DEF NoPacketMoves
  <2>2. s \in DOMAIN unacked_packets \/ \E t \in Threads : Holds(t, s)
    BY <2>1 DEF ThreadsInvAt, Kept
  <2> QED BY <2>2 DEF Holds, NoPacketMoves
<1>8. RcvInv(written)'
  <2>1. ack_net \subseteq AckPacket
    BY DEF ThreadsInvAt, RcvInv, RcvTypeOK
  <2>2. /\ RcvInv(written) /\ UNCHANGED rcvVars /\ ack_net' \subseteq AckPacket
        /\ written' = written
    BY <2>1 DEF ThreadsInvAt, NoPacketMoves
  <2>3. PICK w : w = written
    OBVIOUS
  <2> QED BY <2>2, <2>3, ReceiverUntouched
<1>9. NetInv(u)'
  <2>1. ASSUME NEW p \in data_net' PROVE \E i \in 1..u : p = written[i]
    <3>1. CASE p \in data_net
      BY <3>1 DEF ThreadsInvAt, NetInv
    <3>2. CASE \E k \in DOMAIN unacked_packets : p = unacked_packets[k]
      <4>1. PICK k \in DOMAIN unacked_packets : p = unacked_packets[k]
        BY <3>2
      <4>2. k \in 0..(u - 1) /\ p = written[k + 1]
        BY <4>1 DEF ThreadsInvAt, Filed
      <4>3. k + 1 \in 1..u
        BY <4>2, <1>0
      <4> QED BY <4>2, <4>3
    <3> QED BY <3>1, <3>2 DEF NoPacketMoves
  <2> QED BY <2>1 DEF ThreadsInvAt, NetInv, NoPacketMoves, rcvVars
<1> QED BY <1>1, <1>2, <1>3, <1>4, <1>5, <1>6, <1>7, <1>8, <1>9
        DEF ThreadsInvAt

-----------------------------------------------------------------------------
(***************************************************************************)
(* The steps that move no packet.                                          *)
(***************************************************************************)

\* The packets of a message continue the numbering of those written.
LEMMA ChunksMade ==
    ASSUME NEW len \in Nat, written \in Seq(DataPacket), next_seq \in Nat
    PROVE  /\ Chunks(len) \in Seq(DataPacket)
           /\ Len(Chunks(len)) > 0
           /\ \A i \in 1..Len(Chunks(len)) :
                 Chunks(len)[i].seq_num = next_seq + i - 1
           /\ \A i \in 1..Len(Chunks(len)) :
                 Chunks(len)[i].is_fin <=> i = Len(Chunks(len))
<1> DEFINE n == NumChunks(len)
           c == Chunks(len)
           S == StreamEnd
<1>1. n \in Nat \ {0}
  BY ChunkCount, Zenon
<1>2. S \in Nat
  <2>1. CASE written = <<>>
    BY <2>1 DEF StreamEnd
  <2>2. CASE written # <<>>
    <3>1. Len(written) \in 1..Len(written)
      BY <2>2
    <3>2. written[Len(written)].hi \in Nat
      BY <3>1, PacketFields
    <3> QED BY <2>2, <3>2 DEF StreamEnd
  <2> QED BY <2>1, <2>2
<1>3. /\ c = [i \in 1..n |-> c[i]]
      /\ \A i \in 1..n : /\ c[i] = [seq_num |-> next_seq + i - 1, is_fin |-> i = n,
                                    lo |-> S + (i - 1) * MSS,
                                    hi |-> S + Smaller(i * MSS, len)]
                         /\ c[i].seq_num = next_seq + i - 1
                         /\ c[i].is_fin = (i = n)
  BY DEF Chunks
<1> HIDE DEF S, c
<1>4. \A i \in 1..n : (i - 1) * MSS \in Nat /\ Smaller(i * MSS, len) \in Nat
  BY ChunkBytes
<1> HIDE DEF n
<1>5. ASSUME NEW i \in 1..n PROVE c[i] \in DataPacket
  <2> DEFINE a == (i - 1) * MSS
             d == Smaller(i * MSS, len)
  <2>1. a \in Nat /\ d \in Nat
    BY <1>4, Zenon
  <2>2. c[i] = [seq_num |-> next_seq + i - 1, is_fin |-> i = n,
                lo |-> S + a, hi |-> S + d]
    BY <1>3, Zenon
  <2> HIDE DEF a, d
  <2>3. /\ next_seq + i - 1 \in Nat /\ S + a \in Nat /\ S + d \in Nat
    BY <2>1, <1>1, <1>2
  <2>4. (i = n) \in BOOLEAN
    BY Zenon
  <2> QED BY <2>2, <2>3, <2>4 DEF DataPacket
<1>6. c \in [1..n -> DataPacket]
  BY <1>3, <1>5
<1>7. c \in Seq(DataPacket) /\ Len(c) = n
  BY <1>1, <1>6
<1>8. /\ Len(c) > 0
      /\ \A i \in 1..Len(c) : c[i].seq_num = next_seq + i - 1
      /\ \A i \in 1..Len(c) : c[i].is_fin <=> i = Len(c)
  <2>1. n > 0
    BY <1>1
  <2> QED BY <2>1, <1>3, <1>7, Zenon
<1> QED BY <1>7, <1>8 DEF c

LEMMA AtPopType ==
    ASSUME NEW t \in Threads
    PROVE  AtPop(t) \in 0..1
  BY DEF AtPop

\* A thread that moves between places where it has no packet, with nothing else
\* changed, preserves the invariant unless it is to pop.
LEMMA ThreadMovesStep ==
    ASSUME NEW u, ThreadsInvAt(u), NEW t \in Threads, NEW to \in Labels,
           pc' = [pc EXCEPT ![t] = to], UNCHANGED <<vars, hand>>,
           pc[t] # "insert", to \notin {"insert", "add"},
           Made', KeysAcked', Overrun(u)'
    PROVE  ThreadsInvAt(u)'
<1>1. pc \in [Threads -> Labels] /\ peer_rwnd \in 1..MAX_RWND
      /\ base \in Nat /\ CCInv
  BY DEF ThreadsInvAt, ThreadsTypes
<1>2. base <= expected_seq
  BY ThreadsInvNumbers
<1>3. CCInv'
  BY <1>1 DEF vars, CCInv, CongestionWindow
<1>4. NoPacketMoves
  BY <1>1, <1>2 DEF NoPacketMoves, vars, rcvVars
<1>5. pc' \in [Threads -> Labels] /\ peer_rwnd' \in 1..MAX_RWND
  BY <1>1 DEF vars
<1> QED BY <1>3, <1>4, <1>5, NoPacketMovesStep

\* If a thread does not come to "pop", the window is overrun by no more.
LEMMA NoMoreOverrun ==
    ASSUME NEW u, u \in Nat, base \in Nat, base' \in Nat, base <= base', Overrun(u),
           \A t \in Threads : pc'[t] = "pop" => pc[t] = "pop"
    PROVE  Overrun(u)'
<1>1. /\ AtPop("app") \in 0..1 /\ AtPop("receive") \in 0..1
      /\ AtPop("app")' \in 0..1 /\ AtPop("receive")' \in 0..1
  BY DEF AtPop
<1>2. AtPop("app")' <= AtPop("app") /\ AtPop("receive")' <= AtPop("receive")
  BY DEF AtPop, Threads
<1>3. MAX_RWND \in Nat
  BY RwndAssumption
<1> QED BY <1>1, <1>2, <1>3 DEF Overrun

LEMMA SendThreadsStep ==
    ASSUME NEW u, ThreadsInvAt(u), NEW len \in Nat, Send(len)
    PROVE  ThreadsInvAt(u)'
<1>1. /\ pc["app"] = "idle" /\ pc' = [pc EXCEPT !["app"] = "append"]
      /\ making' = Chunks(len) /\ UNCHANGED <<vars, hand, keys>>
  BY DEF Send, Goes
<1>2. /\ written \in Seq(DataPacket) /\ next_seq \in Nat /\ u \in Nat
      /\ base \in Nat /\ base' = base /\ next_seq' = next_seq
  BY <1>1, ThreadsInvNumbers DEF vars
<1>0. pc \in [Threads -> Labels] /\ "app" \in Threads /\ "receive" \in Threads
  BY DEF ThreadsInvAt, ThreadsTypes, Threads
<1>3. Made'
  BY <1>1, <1>2, ChunksMade DEF Made
<1>4. KeysAcked'
  BY <1>0, <1>1, <1>2 DEF ThreadsInvAt, KeysAcked
<1>5. Overrun(u)'
  BY <1>0, <1>1, <1>2, NoMoreOverrun DEF ThreadsInvAt
<1>6. "append" \in Labels \ {"insert", "add"}
  BY DEF Labels
<1> QED BY <1>0, <1>1, <1>3, <1>4, <1>5, <1>6, ThreadMovesStep

\* Thread t moves on among the places of _try_send, or out of it.
LEMMA QuietMoveStep ==
    ASSUME NEW u, ThreadsInvAt(u), NEW t \in Threads, NEW to,
           to \in {"idle", "bytes", "segments", "dead"},
           pc' = [pc EXCEPT ![t] = to], UNCHANGED <<vars, making, hand, keys>>,
           pc[t] # "insert"
    PROVE  ThreadsInvAt(u)'
<1>0. pc \in [Threads -> Labels] /\ "app" \in Threads /\ "receive" \in Threads
  BY DEF ThreadsInvAt, ThreadsTypes, Threads
<1>1. /\ u \in Nat /\ base \in Nat /\ base' = base /\ next_seq' = next_seq
  BY ThreadsInvNumbers DEF vars
<1>2. Made'
  BY <1>0, <1>1 DEF ThreadsInvAt, Made
<1>3. KeysAcked'
  BY <1>0, <1>1 DEF ThreadsInvAt, KeysAcked
<1>4. Overrun(u)'
  BY <1>0, <1>1, NoMoreOverrun DEF ThreadsInvAt
<1>5. to \in Labels \ {"insert", "add"}
  BY DEF Labels
<1> QED BY <1>2, <1>3, <1>4, <1>5, ThreadMovesStep

LEMMA CheckBytesStep ==
    ASSUME NEW u, ThreadsInvAt(u), NEW t \in Threads, CheckBytes(t)
    PROVE  ThreadsInvAt(u)'
<1>1. PICK to \in {"idle", "segments"} :
         /\ pc[t] = "bytes" /\ pc' = [pc EXCEPT ![t] = to]
         /\ UNCHANGED <<vars, making, hand, keys>>
  BY DEF CheckBytes, Goes
<1> QED BY <1>1, QuietMoveStep

\* Seen from a thread that holds none: every packet taken since base is filed,
\* but for the one the other thread may hold.
LEMMA TakenAreFiled ==
    ASSUME NEW u, ThreadsInvAt(u), NEW t \in Threads, NEW r \in Threads, t # r,
           pc[t] # "insert"
    PROVE  /\ Cardinality(DOMAIN unacked_packets) \in Nat
           /\ u - base <= Cardinality(DOMAIN unacked_packets)
                          + (IF pc[r] = "insert" THEN 1 ELSE 0)
<1> DEFINE D == DOMAIN unacked_packets
           h == hand[r].seq_num
           I == base..(u - 1)
<1>1. u \in Nat /\ base \in Nat /\ base <= u
  BY ThreadsInvNumbers
<1>2. IsFiniteSet(D) /\ Cardinality(D) \in Nat
  <2>1. D \subseteq 0..(u - 1)
    BY DEF ThreadsInvAt, Filed
  <2>2. IsFiniteSet(0..(u - 1))
    BY <1>1, FS_Interval
  <2>3. IsFiniteSet(D)
    BY <2>1, <2>2, FS_Subset
  <2> QED BY <2>3, FS_CardinalityType
<1>3. IsFiniteSet(I) /\ Cardinality(I) = u - base
  BY <1>1, FS_Interval
<1>4. \A s \in I : s \in D \/ (pc[r] = "insert" /\ s = h)
  <2>1. \A x \in Threads : x = t \/ x = r
    BY DEF Threads
  <2> QED BY <2>1 DEF ThreadsInvAt, Kept, Holds
<1>5. CASE pc[r] = "insert"
  <2>1. I \subseteq D \cup {h}
    BY <1>4
  <2>2. IsFiniteSet(D \cup {h}) /\ Cardinality(D \cup {h}) <= Cardinality(D) + 1
    <3>1. IsFiniteSet(D \cup {h})
          /\ Cardinality(D \cup {h}) = IF h \in D THEN Cardinality(D)
                                       ELSE Cardinality(D) + 1
      BY <1>2, FS_AddElement
    <3> QED BY <3>1, <1>2
  <2>3. Cardinality(I) <= Cardinality(D \cup {h}) /\ Cardinality(D \cup {h}) \in Nat
    BY <2>1, <2>2, FS_Subset, FS_CardinalityType
  <2> QED BY <1>1, <1>2, <1>3, <1>5, <2>2, <2>3
<1>6. CASE pc[r] # "insert"
  <2>1. I \subseteq D
    BY <1>4, <1>6
  <2>2. Cardinality(I) <= Cardinality(D)
    BY <2>1, <1>2, FS_Subset
  <2> QED BY <1>1, <1>2, <1>3, <1>6, <2>2
<1> QED BY <1>5, <1>6

\* The check on segments counts only what is filed.  The other thread may hold
\* one packet or be about to take one, and not both: one more than the window.
LEMMA CheckSegmentsStep ==
    ASSUME NEW u, ThreadsInvAt(u), NEW t \in Threads, CheckSegments(t)
    PROVE  ThreadsInvAt(u)'
<1> DEFINE n == Cardinality(DOMAIN unacked_packets)
           W == EffectiveWindow(cwnd, peer_rwnd)
<1>0. pc \in [Threads -> Labels] /\ "app" \in Threads /\ "receive" \in Threads
  BY DEF ThreadsInvAt, ThreadsTypes, Threads
<1>1. /\ pc[t] = "segments" /\ UNCHANGED <<vars, making, hand, keys>>
      /\ pc' = [pc EXCEPT ![t] = IF n >= W THEN "idle" ELSE "pop"]
  BY DEF CheckSegments, Goes
<1>2. CASE n >= W
  <2>1. pc' = [pc EXCEPT ![t] = "idle"]
    BY <1>1, <1>2
  <2> QED BY <1>1, <2>1, QuietMoveStep
<1>3. CASE ~ (n >= W)
  <2>1. pc' = [pc EXCEPT ![t] = "pop"]
    BY <1>1, <1>3
  <2>2. /\ u \in Nat /\ base \in Nat /\ base' = base /\ next_seq' = next_seq
        /\ MAX_RWND \in Nat \ {0} /\ base <= u
    BY <1>1, ThreadsInvNumbers DEF vars
  <2>3. Made'
    BY <1>0, <1>1, <2>1, <2>2 DEF ThreadsInvAt, Made
  <2>4. KeysAcked'
    BY <1>0, <1>1, <2>1, <2>2 DEF ThreadsInvAt, KeysAcked
  <2>5. Overrun(u)'
    <3>1. PICK r \in Threads : r # t /\ Threads = {t, r}
      BY DEF Threads
    <3>2. n \in Nat /\ u - base <= n + (IF pc[r] = "insert" THEN 1 ELSE 0)
      BY <1>1, <3>1, TakenAreFiled
    <3>3. W \in 1..MAX_RWND
      <4>1. cwnd \in Nat /\ peer_rwnd \in 1..MAX_RWND
        BY DEF ThreadsInvAt, CCInv, ThreadsTypes
      <4>2. peer_rwnd \in Nat \ {0} /\ peer_rwnd <= MAX_RWND
        BY <4>1, <2>2
      <4>3. W \in 1..peer_rwnd
        BY <4>1, <4>2, EffectiveWindowBounds
      <4> HIDE DEF W
      <4> QED BY <4>2, <4>3, <2>2
    <3> HIDE DEF n, W
    <3>4. n <= MAX_RWND - 1
      BY <1>3, <3>2, <3>3, <2>2
    <3>5. /\ pc'[r] = pc[r] /\ pc'[t] = "pop"
      BY <1>0, <2>1, <3>1
    <3>6. u + 1 + (IF pc'[r] = "pop" THEN 1 ELSE 0) <= base + MAX_RWND + 1
      <4>1. CASE pc[r] = "insert"
        BY <4>1, <2>2, <3>2, <3>4, <3>5
      <4>2. CASE pc[r] # "insert"
        BY <4>2, <2>2, <3>2, <3>4, <3>5
      <4> QED BY <4>1, <4>2
    <3>7. CASE t = "app" /\ r = "receive"
      BY <3>7, <3>5, <3>6, <2>2 DEF Overrun, AtPop
    <3>8. CASE t = "receive" /\ r = "app"
      BY <3>8, <3>5, <3>6, <2>2 DEF Overrun, AtPop
    <3> QED BY <3>1, <3>7, <3>8 DEF Threads
  <2>6. "pop" \in Labels \ {"insert", "add"}
    BY DEF Labels
  <2> QED BY <1>1, <2>1, <2>3, <2>4, <2>5, <2>6, ThreadMovesStep
<1> QED BY <1>2, <1>3

\* What is known of an ACK on its way.
LEMMA AckOnItsWay ==
    ASSUME NEW u, ThreadsInvAt(u), NEW a \in ack_net
    PROVE  /\ a.ack_num \in Nat
           /\ a.ack_num <= expected_seq
           /\ a.rwnd \in 1..MAX_RWND
<1>1. a \in AckPacket
  BY DEF ThreadsInvAt, RcvInv, RcvTypeOK
<1> QED BY <1>1 DEF ThreadsInvAt, NetInv, AckPacket

\* A step of the receive thread's own that sends nothing but packets of
\* unacked_packets.
LEMMA ReceiveMovesStep ==
    ASSUME NEW u, ThreadsInvAt(u), NEW to,
           to \in {"idle", "scan", "load", "subtract", "grow", "bytes"},
           pc' = [pc EXCEPT !["receive"] = to],
           UNCHANGED <<written, next_seq, send_buffer, unacked_packets, rcvVars,
                       ack_net, hand, making>>,
           pc["receive"] # "insert",
           \A p \in data_net' :
              \/ p \in data_net
              \/ \E s \in DOMAIN unacked_packets : p = unacked_packets[s],
           base' \in Nat, base <= base', base' <= expected_seq,
           peer_rwnd' \in 1..MAX_RWND, CCInv', KeysAcked'
    PROVE  ThreadsInvAt(u)'
<1>0. pc \in [Threads -> Labels] /\ "app" \in Threads /\ "receive" \in Threads
  BY DEF ThreadsInvAt, ThreadsTypes, Threads
<1>1. u \in Nat /\ base \in Nat
  BY ThreadsInvNumbers
<1>2. \A t \in Threads : (t = "receive" /\ pc'[t] = to) \/ pc'[t] = pc[t]
  BY <1>0
<1>3. NoPacketMoves
  <2>1. /\ \A t \in Threads : pc'[t] \in {"insert", "add"} => pc'[t] = pc[t]
        /\ \A t \in Threads : pc[t] = "insert" => pc'[t] = "insert"
    BY <1>2
  <2> QED BY <2>1 DEF NoPacketMoves
<1>4. Made'
  <2>1. pc'["app"] = pc["app"]
    BY <1>0
  <2> QED BY <2>1 DEF ThreadsInvAt, Made
<1>5. Overrun(u)'
  <2>1. \A t \in Threads : pc'[t] = "pop" => pc[t] = "pop"
    BY <1>2
  <2>2. Overrun(u)
    BY DEF ThreadsInvAt
  <2> QED BY <1>1, <2>1, <2>2, NoMoreOverrun
<1>6. pc' \in [Threads -> Labels]
  BY <1>0 DEF Labels
<1> QED BY <1>3, <1>4, <1>5, <1>6, NoPacketMovesStep

\* The congestion state is untouched.
LEMMA CCUntouched ==
    ASSUME CCInv, UNCHANGED ccVars
    PROVE  CCInv'
  BY DEF CCInv, ccVars, CongestionWindow

\* No key is added and base does not move back.
LEMMA KeysUntouched ==
    ASSUME KeysAcked, keys' = keys, base \in Nat, base' \in Nat, base <= base',
           pc'["receive"] \in {"load", "subtract"} =>
              pc["receive"] \in {"load", "subtract"}
    PROVE  KeysAcked'
<1>1. \A s \in keys : s \in Nat /\ s < base'
  BY DEF KeysAcked
<1> QED BY <1>1 DEF KeysAcked

LEMMA StartNewAckStep ==
    ASSUME NEW u, ThreadsInvAt(u), NEW a \in ack_net, StartNewAck(a)
    PROVE  ThreadsInvAt(u)'
<1>0. pc \in [Threads -> Labels] /\ "receive" \in Threads
  BY DEF ThreadsInvAt, ThreadsTypes, Threads
<1>1. /\ pc["receive"] = "idle" /\ pc' = [pc EXCEPT !["receive"] = "scan"]
      /\ a.ack_num > base /\ base' = a.ack_num /\ peer_rwnd' = a.rwnd
      /\ UNCHANGED <<rcvVars, ack_net>>
      /\ UNCHANGED <<next_seq, ccVars, unacked_packets, send_buffer, written,
                     data_net, making, hand, keys>>
  BY DEF StartNewAck, Goes
<1>2. /\ base' \in Nat /\ base <= base' /\ base' <= expected_seq
      /\ peer_rwnd' \in 1..MAX_RWND /\ base \in Nat
  BY <1>1, AckOnItsWay, ThreadsInvNumbers
<1>3. CCInv'
  BY <1>1, CCUntouched DEF ThreadsInvAt
<1>4. KeysAcked'
  BY <1>0, <1>1, <1>2, KeysUntouched DEF ThreadsInvAt
<1> QED BY <1>1, <1>2, <1>3, <1>4, ReceiveMovesStep

LEMMA GrowStep ==
    ASSUME NEW u, ThreadsInvAt(u), Grow
    PROVE  ThreadsInvAt(u)'
<1>0. pc \in [Threads -> Labels] /\ "receive" \in Threads
      /\ peer_rwnd \in 1..MAX_RWND
  BY DEF ThreadsInvAt, ThreadsTypes, Threads
<1>1. /\ pc["receive"] = "grow" /\ pc' = [pc EXCEPT !["receive"] = "bytes"]
      /\ GrowCwnd
      /\ UNCHANGED <<base, next_seq, peer_rwnd, unacked_packets, send_buffer,
                     written, data_net, rcvVars, ack_net, making, hand, keys>>
  BY DEF Grow, Goes
<1>2. base' \in Nat /\ base <= base' /\ base' <= expected_seq /\ base \in Nat
  BY <1>1, ThreadsInvNumbers
<1>3. CCInv'
  BY <1>1, GrowCwndStep DEF ThreadsInvAt
<1>4. KeysAcked'
  BY <1>0, <1>1, <1>2, KeysUntouched DEF ThreadsInvAt
<1> QED BY <1>0, <1>1, <1>2, <1>3, <1>4, ReceiveMovesStep

LEMMA LoadStep ==
    ASSUME NEW u, ThreadsInvAt(u), Load
    PROVE  ThreadsInvAt(u)'
<1>0. pc \in [Threads -> Labels] /\ "receive" \in Threads
      /\ peer_rwnd \in 1..MAX_RWND
  BY DEF ThreadsInvAt, ThreadsTypes, Threads
<1>1. /\ pc["receive"] = "load" /\ pc' = [pc EXCEPT !["receive"] = "subtract"]
      /\ UNCHANGED <<vars, making, hand, keys>>
  BY DEF Load, Goes
<1>2. base' \in Nat /\ base <= base' /\ base' <= expected_seq /\ base \in Nat
  BY <1>1, ThreadsInvNumbers DEF vars
<1>3. CCInv'
  BY <1>1, CCUntouched DEF ThreadsInvAt, ccVars, vars
<1>4. KeysAcked'
  BY <1>0, <1>1, <1>2, KeysUntouched DEF ThreadsInvAt
<1>5. /\ UNCHANGED <<written, next_seq, send_buffer, unacked_packets, rcvVars,
                     ack_net, hand, making>>
      /\ data_net' = data_net /\ peer_rwnd' = peer_rwnd
  BY <1>1 DEF vars, rcvVars
<1> QED BY <1>0, <1>1, <1>2, <1>3, <1>4, <1>5, ReceiveMovesStep

LEMMA ScanStep ==
    ASSUME NEW u, ThreadsInvAt(u), Scan
    PROVE  ThreadsInvAt(u)'
<1>0. pc \in [Threads -> Labels] /\ "receive" \in Threads
      /\ "app" \in Threads
  BY DEF ThreadsInvAt, ThreadsTypes, Threads
<1>1. PICK to \in {"dead", "grow", "load"} :
         /\ pc["receive"] = "scan" /\ pc' = [pc EXCEPT !["receive"] = to]
         /\ to = "load" => ToRemove # {} /\ ~ Resized
         /\ keys' = IF Resized THEN {} ELSE ToRemove
         /\ UNCHANGED <<vars, making, hand>>
  BY DEF Scan, Goes
<1>2. u \in Nat /\ base \in Nat /\ base' = base /\ next_seq' = next_seq
  BY <1>1, ThreadsInvNumbers DEF vars
<1>3. KeysAcked'
  <2>1. keys' \subseteq ToRemove
    BY <1>1
  <2>2. pc'["receive"] = to
    BY <1>0, <1>1
  <2>3. \A s \in ToRemove : s \in Nat /\ s < base
    BY ThreadsInvNumbers DEF ToRemove
  <2>4. pc'["receive"] \in {"load", "subtract"} => keys' # {}
    BY <1>1, <2>2
  <2> QED BY <1>2, <2>1, <2>3, <2>4 DEF KeysAcked
<1>4. Made'
  BY <1>0, <1>1, <1>2 DEF ThreadsInvAt, Made
<1>5. Overrun(u)'
  BY <1>0, <1>1, <1>2, NoMoreOverrun DEF ThreadsInvAt
<1>6. to \in Labels /\ to \notin {"insert", "add"}
  BY DEF Labels
<1> QED BY <1>0, <1>1, <1>3, <1>4, <1>5, <1>6, ThreadMovesStep

\* ResendBase sends a packet of unacked_packets.
LEMMA ResendsFiled ==
    ASSUME ResendBase
    PROVE  \A p \in data_net' :
              \/ p \in data_net
              \/ \E s \in DOMAIN unacked_packets : p = unacked_packets[s]
  BY DEF ResendBase

LEMMA OtherAckStep ==
    ASSUME NEW u, ThreadsInvAt(u), NEW a \in ack_net, OtherAck(a)
    PROVE  ThreadsInvAt(u)'
<1>0. pc \in [Threads -> Labels] /\ "receive" \in Threads
  BY DEF ThreadsInvAt, ThreadsTypes, Threads
<1>1. /\ pc["receive"] = "idle" /\ pc' = [pc EXCEPT !["receive"] = "idle"]
      /\ UNCHANGED <<rcvVars, ack_net, making, hand, keys>>
  BY DEF OtherAck, Goes
<1>2. \/ FastRetransmit(a.ack_num, a.rwnd)
      \/ OtherDupAck(a.ack_num, a.rwnd)
      \/ StaleAck(a.ack_num, a.rwnd)
  BY DEF OtherAck
<1>3. /\ UNCHANGED <<base, written, next_seq, send_buffer, unacked_packets>>
      /\ peer_rwnd' = a.rwnd
      /\ data_net' = data_net \/ ResendBase
  BY <1>2 DEF FastRetransmit, OtherDupAck, StaleAck, CountDupAck
<1>4. /\ base' \in Nat /\ base <= base' /\ base' <= expected_seq /\ base \in Nat
      /\ peer_rwnd' \in 1..MAX_RWND
  BY <1>3, AckOnItsWay, ThreadsInvNumbers
<1>5. CCInv'
  <2>1. CASE FastRetransmit(a.ack_num, a.rwnd)
    <3>0. CCInv /\ cwnd \in Nat
      BY DEF ThreadsInvAt, CCInv
    <3>1. HalvedCwnd \in Nat /\ HalvedCwnd >= 2 * MSS /\ MSS \in Nat \ {0}
      BY <3>0, HalvedCwndFloor, MSSAssumption
    <3>2. /\ cc_state' = "FAST_RECOVERY" /\ ssthresh' = HalvedCwnd
          /\ cwnd' = HalvedCwnd + 3 * MSS
      BY <2>1 DEF FastRetransmit
    <3> QED BY <3>1, <3>2 DEF CCInv, CongestionWindow, CCStates
  <2>2. CASE OtherDupAck(a.ack_num, a.rwnd) \/ StaleAck(a.ack_num, a.rwnd)
    <3>1. UNCHANGED ccVars /\ CCInv
      BY <2>2 DEF OtherDupAck, StaleAck, ccVars, ThreadsInvAt
    <3> QED BY <3>1, CCUntouched
  <2> QED BY <1>2, <2>1, <2>2
<1>6. KeysAcked'
  BY <1>0, <1>1, <1>4, KeysUntouched DEF ThreadsInvAt
<1>7. \A p \in data_net' :
         \/ p \in data_net
         \/ \E s \in DOMAIN unacked_packets : p = unacked_packets[s]
  BY <1>3, ResendsFiled
<1> QED BY <1>1, <1>3, <1>4, <1>5, <1>6, <1>7, ReceiveMovesStep

LEMMA StartInflateStep ==
    ASSUME NEW u, ThreadsInvAt(u), NEW a \in ack_net, StartInflate(a)
    PROVE  ThreadsInvAt(u)'
<1>0. pc \in [Threads -> Labels] /\ "receive" \in Threads
  BY DEF ThreadsInvAt, ThreadsTypes, Threads
<1>1. /\ pc["receive"] = "idle" /\ pc' = [pc EXCEPT !["receive"] = "bytes"]
      /\ UNCHANGED <<rcvVars, ack_net>>
      /\ UNCHANGED <<unacked_packets, send_buffer, data_net, making, hand, keys>>
      /\ UNCHANGED <<cc_state, ssthresh>>
      /\ cc_state = "FAST_RECOVERY" /\ cwnd' = cwnd + MSS
  BY DEF StartInflate, Goes
<1>2. UNCHANGED <<base, next_seq, written>> /\ peer_rwnd' = a.rwnd
  BY DEF StartInflate, CountDupAck
<1>3. /\ base' \in Nat /\ base <= base' /\ base' <= expected_seq /\ base \in Nat
      /\ peer_rwnd' \in 1..MAX_RWND
  BY <1>2, AckOnItsWay, ThreadsInvNumbers
<1>4. CCInv'
  <2>1. CCInv /\ MSS \in Nat \ {0}
    BY MSSAssumption DEF ThreadsInvAt
  <2> QED BY <1>1, <2>1 DEF CCInv, CongestionWindow
<1>5. KeysAcked'
  BY <1>0, <1>1, <1>3, KeysUntouched DEF ThreadsInvAt
<1> QED BY <1>1, <1>2, <1>3, <1>4, <1>5, ReceiveMovesStep

LEMMA TickThreadStep ==
    ASSUME NEW u, ThreadsInvAt(u), TickThread
    PROVE  ThreadsInvAt(u)'
<1>0. pc \in [Threads -> Labels] /\ "receive" \in Threads
      /\ peer_rwnd \in 1..MAX_RWND
  BY DEF ThreadsInvAt, ThreadsTypes, Threads
<1>1. /\ pc["receive"] = "idle" /\ pc' = pc
      /\ UNCHANGED <<rcvVars, ack_net, making, hand, keys>>
      /\ UNCHANGED <<base, next_seq, peer_rwnd, unacked_packets, send_buffer, written>>
      /\ ResendBase
      /\ ssthresh' = HalvedCwnd /\ cwnd' = MSS /\ cc_state' = "SLOW_START"
  BY DEF TickThread, Tick, CheckTimeouts, threadVars
<1>2. base' \in Nat /\ base <= base' /\ base' <= expected_seq /\ base \in Nat
  BY <1>1, ThreadsInvNumbers
<1>3. CCInv'
  <2>0. cwnd \in Nat
    BY DEF ThreadsInvAt, CCInv
  <2>1. HalvedCwnd \in Nat /\ HalvedCwnd >= 2 * MSS /\ MSS \in Nat \ {0}
    BY <2>0, HalvedCwndFloor, MSSAssumption
  <2> QED BY <1>1, <2>1 DEF CCInv, CongestionWindow, CCStates
<1>4. KeysAcked'
  BY <1>0, <1>1, <1>2, KeysUntouched DEF ThreadsInvAt
<1>5. pc' = [pc EXCEPT !["receive"] = "idle"]
  BY <1>0, <1>1
<1>6. \A p \in data_net' :
         \/ p \in data_net
         \/ \E s \in DOMAIN unacked_packets : p = unacked_packets[s]
  BY <1>1, ResendsFiled
<1> QED BY <1>0, <1>1, <1>2, <1>3, <1>4, <1>5, <1>6, ReceiveMovesStep

-----------------------------------------------------------------------------
(***************************************************************************)
(* The steps that move a packet.                                           *)
(***************************************************************************)

\* The peer consumes and buffers packets that were on the wire, so none that a
\* thread has not yet filed.
LEMMA PeerReceivesStep ==
    ASSUME NEW u, ThreadsInvAt(u), NEW p \in data_net, PeerReceives(p)
    PROVE  ThreadsInvAt(u)'
<1>1. /\ ProcessSegment(p)
      /\ UNCHANGED <<base, next_seq, cc_state, cwnd, ssthresh, peer_rwnd,
                     unacked_packets, send_buffer, written, data_net>>
      /\ UNCHANGED <<pc, making, hand, keys>>
  BY DEF PeerReceives, sndVars, threadVars
<1>2. /\ u \in Nat /\ base \in Nat /\ expected_seq \in Nat /\ Len(written) \in Nat
      /\ base <= expected_seq /\ expected_seq <= u /\ u <= Len(written)
      /\ written \in Seq(DataPacket)
  BY ThreadsInvNumbers
<1>3. /\ p \in DataPacket /\ p.seq_num \in 0..(u - 1)
      /\ p = written[p.seq_num + 1]
  <2>1. PICK i \in 1..u : p = written[i]
    BY DEF ThreadsInvAt, NetInv
  <2>2. i \in 1..Len(written)
    BY <1>2
  <2>3. p.seq_num = i - 1
    BY <2>1, <2>2 DEF ThreadsInvAt, Waiting
  <2>4. p \in DataPacket
    BY <2>1, <2>2, <1>2
  <2> QED BY <2>1, <2>3, <2>4, <1>2
<1>4. PICK w : w = written
  OBVIOUS
<1>5. /\ w \in Seq(DataPacket) /\ RcvInv(w) /\ u \in 0..Len(w)
      /\ \A n \in DOMAIN ooo_buffer : n < u
      /\ p.seq_num < u /\ p.seq_num < Len(w) /\ p = w[p.seq_num + 1]
  BY <1>2, <1>3, <1>4 DEF ThreadsInvAt, NetInv
<1>6. /\ RcvInv(w)'
      /\ expected_seq <= expected_seq' /\ expected_seq' <= u
      /\ \A n \in DOMAIN ooo_buffer' : n < u
      /\ \E r \in 1..MAX_RWND :
            ack_net' = ack_net \cup {[ack_num |-> expected_seq', rwnd |-> r]}
  BY <1>1, <1>2, <1>3, <1>5, ProcessSegmentStep
<1>7. /\ \A n \in expected_seq..(expected_seq' - 1) :
            n = p.seq_num \/ n \in DOMAIN ooo_buffer
      /\ DOMAIN ooo_buffer' \subseteq DOMAIN ooo_buffer \cup {p.seq_num}
  BY <1>1, <1>3, <1>5, ProcessSegmentConsumes
<1>8. expected_seq' \in Nat
  BY <1>6 DEF RcvInv, RcvTypeOK
<1>9. RcvInv(written)'
  BY <1>1, <1>4, <1>6
<1>10. NetInv(u)'
  <2>1. base' <= expected_seq'
    BY <1>1, <1>2, <1>6, <1>8
  <2>2. \A q \in data_net' : \E i \in 1..u : q = written'[i]
    BY <1>1 DEF ThreadsInvAt, NetInv
  <2>3. ASSUME NEW a \in ack_net'
        PROVE  a.ack_num <= expected_seq' /\ a.rwnd \in 1..MAX_RWND
    <3>1. CASE a \in ack_net
      BY <3>1, AckOnItsWay, <1>2, <1>6, <1>8
    <3>2. CASE a \notin ack_net
      BY <3>2, <1>6, <1>8
    <3> QED BY <3>1, <3>2
  <2> QED BY <1>6, <2>1, <2>2, <2>3 DEF NetInv
<1>11. HeldFresh'
  <2> SUFFICES ASSUME NEW t \in Threads, pc[t] = "insert"
               PROVE  Fresh(hand[t].seq_num)'
    BY <1>1, Zenon DEF HeldFresh
  <2>0. PICK s : s = hand[t].seq_num
    OBVIOUS
  <2>1. Fresh(s) /\ s \in 0..(u - 1)
    BY <2>0 DEF ThreadsInvAt, HeldFresh, Held
  <2>2. s # p.seq_num /\ s \notin DOMAIN ooo_buffer /\ s >= expected_seq
    BY <2>1 DEF Fresh
  <2>3. s >= expected_seq'
    <3>1. PICK f \in Nat : f = expected_seq'
      BY <1>8
    <3>2. s \notin expected_seq..(f - 1)
      BY <2>2, <3>1, <1>7, Zenon
    <3>3. s \in Nat
      BY <2>1, <1>2
    <3>4. s >= f
      BY <2>2, <3>1, <3>2, <3>3, <1>2, AboveInterval, Zenon
    <3> QED BY <3>1, <3>4
  <2>4. s \notin DOMAIN ooo_buffer'
    BY <2>2, <1>7
  <2>5. Fresh(s)'
    BY <2>1, <2>3, <2>4, <1>1 DEF Fresh
  <2> QED BY <2>0, <2>5, <1>1 DEF Fresh
<1>12. CCInv'
  BY <1>1, CCUntouched DEF ThreadsInvAt, ccVars
<1>13. ThreadsTypes' /\ Waiting(u)' /\ Made'
  BY <1>1 DEF ThreadsInvAt, ThreadsTypes, Waiting, Made
<1>14. Filed(u)' /\ Held(u)' /\ HandsDiffer'
  BY <1>1 DEF ThreadsInvAt, Filed, Held, HandsDiffer
<1>15. Kept(u)' /\ KeysAcked' /\ Overrun(u)'
  BY <1>1 DEF ThreadsInvAt, Kept, Holds, KeysAcked, Overrun, AtPop
<1> QED BY <1>9, <1>10, <1>11, <1>12, <1>13, <1>14, <1>15 DEF ThreadsInvAt

\* enqueue_data appends a packet behind all others.
LEMMA AppendChunkStep ==
    ASSUME NEW u, ThreadsInvAt(u), AppendChunk
    PROVE  ThreadsInvAt(u)'
<1>0. pc \in [Threads -> Labels] /\ "app" \in Threads /\ "receive" \in Threads
  BY DEF ThreadsInvAt, ThreadsTypes, Threads
<1>1. PICK to \in {"append", "bytes"} :
         /\ pc["app"] = "append" /\ pc' = [pc EXCEPT !["app"] = to]
         /\ to = "append" => Len(making) # 1
  BY DEF AppendChunk, Goes
<1>2. /\ making' = Tail(making)
      /\ send_buffer' = Append(send_buffer, Head(making))
      /\ written' = Append(written, Head(making))
      /\ next_seq' = next_seq + 1
      /\ UNCHANGED <<base, ccVars, peer_rwnd, unacked_packets, data_net, rcvVars,
                     ack_net, hand, keys>>
  BY DEF AppendChunk
<1>3. /\ u \in Nat /\ base \in Nat /\ expected_seq \in Nat /\ Len(written) \in Nat
      /\ u <= Len(written) /\ written \in Seq(DataPacket) /\ next_seq = Len(written)
      /\ send_buffer \in Seq(DataPacket) /\ Len(send_buffer) = Len(written) - u
      /\ Len(send_buffer) \in Nat
  <2>1. send_buffer \in Seq(DataPacket) /\ Len(send_buffer) = Len(written) - u
    BY DEF ThreadsInvAt, Waiting
  <2>2. Len(send_buffer) \in Nat
    BY <2>1
  <2> QED BY <2>1, <2>2, ThreadsInvNumbers
<1>4. /\ making \in Seq(DataPacket) /\ Len(making) > 0 /\ making # <<>>
      /\ Len(making) \in Nat
      /\ \A i \in 1..Len(making) : making[i].seq_num = next_seq + i - 1
  BY <1>1 DEF ThreadsInvAt, Made
<1>5. PICK h : h = Head(making)
  OBVIOUS
<1>6. /\ h \in DataPacket /\ h.seq_num = Len(written)
      /\ Tail(making) \in Seq(DataPacket) /\ Len(Tail(making)) = Len(making) - 1
      /\ \A i \in 1..Len(Tail(making)) : Tail(making)[i] = making[i + 1]
  <2>1. h = making[1] /\ 1 \in 1..Len(making)
    BY <1>4, <1>5
  <2>2. h.seq_num = Len(written)
    BY <2>1, <1>3, <1>4
  <2> QED BY <2>2, <1>4, <1>5, HeadTailProperties
<1>7. /\ written' \in Seq(DataPacket) /\ Len(written') = Len(written) + 1
      /\ \A i \in 1..Len(written) : written'[i] = written[i]
      /\ written'[Len(written) + 1] = h
  BY <1>2, <1>3, <1>5, <1>6, AppendProperties
<1>8. /\ send_buffer' \in Seq(DataPacket)
      /\ Len(send_buffer') = Len(send_buffer) + 1
      /\ \A i \in 1..Len(send_buffer) : send_buffer'[i] = send_buffer[i]
      /\ send_buffer'[Len(send_buffer) + 1] = h
  BY <1>2, <1>3, <1>5, <1>6, AppendProperties
<1>9. Waiting(u)'
  <2>1. ASSUME NEW i \in 1..Len(written') PROVE written'[i].seq_num = i - 1
    <3>1. CASE i \in 1..Len(written)
      BY <3>1, <1>7 DEF ThreadsInvAt, Waiting
    <3>2. CASE i = Len(written) + 1
      BY <3>2, <1>3, <1>6, <1>7
    <3> QED BY <3>1, <3>2, <1>3, <1>7
  <2>2. Len(send_buffer') = Len(written') - u /\ u <= Len(written')
    BY <1>3, <1>7, <1>8
  <2>3. ASSUME NEW i \in 1..(Len(written') - u) PROVE send_buffer'[i] = written'[u + i]
    <3>1. CASE i \in 1..(Len(written) - u)
      <4>1. u + i \in 1..Len(written)
        BY <3>1, <1>3
      <4>2. send_buffer[i] = written[u + i]
        BY <3>1 DEF ThreadsInvAt, Waiting
      <4>3. send_buffer'[i] = send_buffer[i]
        BY <3>1, <1>3, <1>8
      <4> QED BY <4>1, <4>2, <4>3, <1>7
    <3>2. CASE i = Len(written) - u + 1
      <4>1. i = Len(send_buffer) + 1 /\ u + i = Len(written) + 1
        BY <3>2, <1>3
      <4> QED BY <4>1, <1>7, <1>8
    <3> QED BY <3>1, <3>2, <1>3, <1>7
  <2>4. next_seq' = Len(written')
    BY <1>2, <1>3, <1>7
  <2> QED BY <2>1, <2>2, <2>3, <2>4, <1>3, <1>7, <1>8 DEF Waiting
<1>10. Made'
  <2> SUFFICES ASSUME pc'["app"] = "append"
               PROVE  /\ making' \in Seq(DataPacket) /\ Len(making') > 0
                      /\ \A i \in 1..Len(making') : making'[i].seq_num = next_seq' + i - 1
    BY Zenon DEF Made
  <2>1. Len(making) # 1
    BY <1>0, <1>1
  <2>2. making' \in Seq(DataPacket) /\ Len(making') = Len(making) - 1
        /\ Len(making') > 0
    BY <2>1, <1>2, <1>4, <1>6
  <2>3. ASSUME NEW i \in 1..Len(making')
        PROVE  making'[i].seq_num = next_seq' + i - 1
    <3>1. i + 1 \in 1..Len(making) /\ i \in Nat
      BY <2>2, <1>4
    <3>2. making'[i] = making[i + 1]
      BY <1>2, <1>6
    <3>3. making[i + 1].seq_num = next_seq + (i + 1) - 1
      BY <3>1, <1>4
    <3> QED BY <3>1, <3>2, <3>3, <1>2, <1>3
  <2> QED BY <2>2, <2>3
<1>11. Filed(u)'
  <2> SUFFICES ASSUME NEW s \in DOMAIN unacked_packets
               PROVE  s \in 0..(u - 1) /\ unacked_packets[s] = written'[s + 1]
    BY <1>2 DEF Filed
  <2>1. s \in 0..(u - 1) /\ unacked_packets[s] = written[s + 1]
    BY DEF ThreadsInvAt, Filed
  <2>2. s + 1 \in 1..Len(written)
    BY <2>1, <1>3
  <2> QED BY <2>1, <2>2, <1>7
<1>12. \A t \in Threads : pc'[t] \in {"insert", "add", "pop"} => pc'[t] = pc[t]
  BY <1>0, <1>1
<1>13. \A t \in Threads : pc[t] \in {"insert", "add"} => pc'[t] = pc[t]
  BY <1>0, <1>1
<1>14. Held(u)'
  <2> SUFFICES ASSUME NEW t \in Threads, pc'[t] \in {"insert", "add"}
               PROVE  /\ hand[t].seq_num \in 0..(u - 1)
                      /\ hand[t] = written'[hand[t].seq_num + 1]
    BY <1>2 DEF Held
  <2>1. pc[t] \in {"insert", "add"}
    BY <1>12
  <2>2. hand[t].seq_num \in 0..(u - 1) /\ hand[t] = written[hand[t].seq_num + 1]
    BY <2>1 DEF ThreadsInvAt, Held
  <2>3. hand[t].seq_num + 1 \in 1..Len(written)
    BY <2>2, <1>3
  <2> QED BY <2>2, <2>3, <1>7
<1>15. HandsDiffer' /\ HeldFresh'
  <2>1. HandsDiffer /\ HeldFresh
    BY DEF ThreadsInvAt
  <2>2. HandsDiffer'
    BY <2>1, <1>2, <1>12 DEF HandsDiffer
  <2>3. HeldFresh'
    BY <2>1, <1>2, <1>12 DEF HeldFresh, Fresh, rcvVars
  <2> QED BY <2>2, <2>3
<1>16. Kept(u)'
  BY <1>2, <1>13 DEF ThreadsInvAt, Kept, Holds
<1>17. KeysAcked'
  BY <1>0, <1>1, <1>2, <1>3, KeysUntouched DEF ThreadsInvAt
<1>18. Overrun(u)'
  BY <1>2, <1>3, <1>12, NoMoreOverrun DEF ThreadsInvAt
<1>19. RcvInv(written)'
  <2>1. PICK w, x : w = written /\ x = written'
    OBVIOUS
  <2>2. RcvInv(x)
    <3>1. /\ w \in Seq(DataPacket) /\ x \in Seq(DataPacket) /\ Len(w) <= Len(x)
          /\ \A i \in 1..Len(w) : x[i] = w[i]
      BY <2>1, <1>3, <1>7
    <3>2. RcvInv(w)
      BY <2>1 DEF ThreadsInvAt
    <3> QED BY <3>1, <3>2, LongerStream
  <2>3. ack_net' \subseteq AckPacket
    BY <1>2 DEF ThreadsInvAt, RcvInv, RcvTypeOK
  <2> QED BY <2>1, <2>2, <2>3, <1>2, ReceiverUntouched
<1>20. NetInv(u)'
  <2>1. ASSUME NEW p \in data_net PROVE \E i \in 1..u : p = written'[i]
    <3>1. PICK i \in 1..u : p = written[i]
      BY DEF ThreadsInvAt, NetInv
    <3>2. i \in 1..Len(written)
      BY <1>3
    <3> QED BY <3>1, <3>2, <1>7
  <2> QED BY <2>1, <1>2 DEF ThreadsInvAt, NetInv, rcvVars
<1>21. ThreadsTypes'
  BY <1>0, <1>1, <1>2 DEF ThreadsInvAt, ThreadsTypes, Labels
<1>22. CCInv'
  BY <1>2, CCUntouched DEF ThreadsInvAt
<1> QED BY <1>9, <1>10, <1>11, <1>14, <1>15, <1>16, <1>17, <1>18, <1>19, <1>20,
           <1>21, <1>22 DEF ThreadsInvAt

\* The packet that is taken is the first that waits.  It was never sent.
LEMMA PopTakesStep ==
    ASSUME NEW u, ThreadsInvAt(u), NEW t \in Threads, Pop(t), send_buffer # <<>>
    PROVE  ThreadsInvAt(u + 1)'
<1>0. pc \in [Threads -> Labels] /\ "app" \in Threads /\ "receive" \in Threads
      /\ hand \in [Threads -> DataPacket]
  BY DEF ThreadsInvAt, ThreadsTypes, Threads
<1>1. /\ pc[t] = "pop" /\ pc' = [pc EXCEPT ![t] = "insert"]
      /\ hand' = [hand EXCEPT ![t] = Head(send_buffer)]
      /\ send_buffer' = Tail(send_buffer)
      /\ UNCHANGED <<base, next_seq, ccVars, peer_rwnd, unacked_packets, written,
                     data_net, rcvVars, ack_net, making, keys>>
  BY DEF Pop, Goes
<1>2. /\ u \in Nat /\ base \in Nat /\ expected_seq \in Nat /\ Len(written) \in Nat
      /\ u <= Len(written) /\ written \in Seq(DataPacket) /\ next_seq = Len(written)
      /\ base <= expected_seq /\ expected_seq <= u
  BY ThreadsInvNumbers
<1>3. /\ send_buffer \in Seq(DataPacket) /\ Len(send_buffer) = Len(written) - u
      /\ \A i \in 1..(Len(written) - u) : send_buffer[i] = written[u + i]
  BY DEF ThreadsInvAt, Waiting
<1>4. Len(send_buffer) \in Nat \ {0}
  BY <1>3
<1>5. u + 1 \in 1..Len(written) /\ u + 1 \in Nat /\ u \in 0..((u + 1) - 1)
  BY <1>2, <1>3, <1>4
<1>6. PICK h : h = Head(send_buffer)
  OBVIOUS
<1>7. h = written[u + 1] /\ h.seq_num = u /\ h \in DataPacket
  <2>1. h = send_buffer[1] /\ 1 \in 1..(Len(written) - u)
    BY <1>2, <1>3, <1>4, <1>6
  <2>2. h = written[u + 1]
    BY <2>1, <1>3
  <2>3. h.seq_num = u
    BY <2>2, <1>2, <1>5 DEF ThreadsInvAt, Waiting
  <2> QED BY <2>2, <2>3, <1>2, <1>5
<1>8. /\ pc'[t] = "insert" /\ hand'[t] = h
      /\ \A r \in Threads \ {t} : pc'[r] = pc[r] /\ hand'[r] = hand[r]
  BY <1>0, <1>1, <1>6
<1>9. ThreadsTypes'
  BY <1>0, <1>1, <1>6, <1>7 DEF ThreadsInvAt, ThreadsTypes, Labels
<1>10. CCInv'
  BY <1>1, CCUntouched DEF ThreadsInvAt
<1>11. Waiting(u + 1)'
  <2>1. /\ Tail(send_buffer) \in Seq(DataPacket)
        /\ Len(Tail(send_buffer)) = Len(send_buffer) - 1
        /\ \A i \in 1..Len(Tail(send_buffer)) :
              Tail(send_buffer)[i] = send_buffer[i + 1]
    BY <1>3, HeadTailProperties
  <2>2. Len(send_buffer') = Len(written) - (u + 1)
    BY <2>1, <1>1, <1>2, <1>3
  <2>3. ASSUME NEW i \in 1..(Len(written) - (u + 1))
        PROVE  send_buffer'[i] = written[(u + 1) + i]
    <3>1. i + 1 \in 1..(Len(written) - u) /\ u + (i + 1) = (u + 1) + i
      BY <1>2
    <3>2. send_buffer'[i] = send_buffer[i + 1]
      BY <2>1, <2>2, <1>1
    <3>3. send_buffer[i + 1] = written[u + (i + 1)]
      BY <3>1, <1>3
    <3> QED BY <3>1, <3>2, <3>3
  <2>4. /\ \A i \in 1..Len(written) : written[i].seq_num = i - 1
        /\ u + 1 <= Len(written)
    BY <1>2, <1>5 DEF ThreadsInvAt, Waiting
  <2> QED BY <2>1, <2>2, <2>3, <2>4, <1>1, <1>2, <1>5 DEF Waiting
<1>12. Made'
  BY <1>0, <1>1 DEF ThreadsInvAt, Made
<1>13. Filed(u + 1)'
  BY <1>1, <1>2 DEF ThreadsInvAt, Filed
<1>14. Held(u + 1)'
  <2> SUFFICES ASSUME NEW r \in Threads, pc'[r] \in {"insert", "add"}
               PROVE  /\ hand'[r].seq_num \in 0..((u + 1) - 1)
                      /\ hand'[r] = written[hand'[r].seq_num + 1]
    BY <1>1 DEF Held
  <2>1. CASE r = t
    BY <2>1, <1>5, <1>7, <1>8
  <2>2. CASE r # t
    <3>1. hand[r].seq_num \in 0..(u - 1) /\ hand[r] = written[hand[r].seq_num + 1]
      BY <2>2, <1>8 DEF ThreadsInvAt, Held
    <3>2. hand[r].seq_num \in 0..((u + 1) - 1)
      BY <3>1, <1>2
    <3> QED BY <2>2, <3>1, <3>2, <1>8
  <2> QED BY <2>1, <2>2
<1>15. HandsDiffer'
  <2>1. ASSUME NEW r \in Threads, r # t, pc'[r] \in {"insert", "add"}
        PROVE  hand'[r].seq_num # u
    <3>1. hand[r].seq_num \in 0..(u - 1) /\ hand'[r] = hand[r]
      BY <2>1, <1>8 DEF ThreadsInvAt, Held
    <3> QED BY <3>1, <1>2
  <2>2. ASSUME NEW q \in Threads, NEW r \in Threads, q # r, q # t, r # t
        PROVE  FALSE
    BY <2>2 DEF Threads
  <2> QED BY <2>1, <2>2, <1>7, <1>8 DEF HandsDiffer
<1>16. HeldFresh'
  <2> SUFFICES ASSUME NEW r \in Threads, pc'[r] = "insert"
               PROVE  Fresh(hand[r].seq_num)'
    BY Zenon DEF HeldFresh
  <2>1. CASE r = t
    <3>1. u \notin DOMAIN unacked_packets
      BY <1>2 DEF ThreadsInvAt, Filed
    <3>2. u \notin DOMAIN ooo_buffer
      BY <1>2 DEF ThreadsInvAt, NetInv
    <3>3. ASSUME NEW p \in data_net PROVE p.seq_num # u
      <4>1. PICK i \in 1..u : p = written[i]
        BY DEF ThreadsInvAt, NetInv
      <4>2. i \in 1..Len(written)
        BY <1>2
      <4>3. p.seq_num = i - 1
        BY <4>1, <4>2 DEF ThreadsInvAt, Waiting
      <4> QED BY <4>3, <1>2
    <3>4. u >= expected_seq
      BY <1>2
    <3>5. hand'[r].seq_num = u
      BY <2>1, <1>7, <1>8
    <3> QED BY <3>1, <3>2, <3>3, <3>4, <3>5, <1>1 DEF Fresh, rcvVars
  <2>2. CASE r # t
    <3>1. pc[r] = "insert" /\ hand'[r] = hand[r]
      BY <2>2, <1>8
    <3>2. Fresh(hand[r].seq_num)
      BY <3>1 DEF ThreadsInvAt, HeldFresh
    <3> QED BY <3>1, <3>2, <1>1 DEF Fresh, rcvVars
  <2> QED BY <2>1, <2>2
<1>17. Kept(u + 1)'
  <2> SUFFICES ASSUME NEW s \in base..((u + 1) - 1)
               PROVE  \/ s \in DOMAIN unacked_packets
                      \/ \E r \in Threads : pc'[r] = "insert" /\ hand'[r].seq_num = s
    BY <1>1 DEF Kept, Holds
  <2>1. CASE s = u
    BY <2>1, <1>7, <1>8
  <2>2. CASE s # u
    <3>1. s \in base..(u - 1)
      BY <2>2, <1>2
    <3>2. s \in DOMAIN unacked_packets \/ \E r \in Threads : Holds(r, s)
      BY <3>1 DEF ThreadsInvAt, Kept
    <3>3. ~ Holds(t, s)
      BY <1>1 DEF Holds
    <3> QED BY <3>2, <3>3, <1>8 DEF Holds
  <2> QED BY <2>1, <2>2
<1>18. KeysAcked'
  BY <1>0, <1>1, <1>2, KeysUntouched DEF ThreadsInvAt
<1>19. Overrun(u + 1)'
  <2>0. MAX_RWND \in Nat
    BY RwndAssumption
  <2>1. u + AtPop("app") + AtPop("receive") <= base + MAX_RWND + 1
    BY DEF ThreadsInvAt, Overrun
  <2>2. CASE t = "app"
    <3>1. /\ AtPop("app") = 1 /\ AtPop("app")' = 0 /\ AtPop("receive") \in 0..1
          /\ AtPop("receive")' = AtPop("receive")
      BY <2>2, <1>0, <1>1 DEF AtPop
    <3> QED BY <2>0, <2>1, <3>1, <1>1, <1>2 DEF Overrun
  <2>3. CASE t = "receive"
    <3>1. /\ AtPop("receive") = 1 /\ AtPop("receive")' = 0 /\ AtPop("app") \in 0..1
          /\ AtPop("app")' = AtPop("app")
      BY <2>3, <1>0, <1>1 DEF AtPop
    <3> QED BY <2>0, <2>1, <3>1, <1>1, <1>2 DEF Overrun
  <2> QED BY <2>2, <2>3 DEF Threads
<1>20. RcvInv(written)'
  <2>1. PICK w : w = written
    OBVIOUS
  <2>2. ack_net' \subseteq AckPacket
    BY <1>1 DEF ThreadsInvAt, RcvInv, RcvTypeOK
  <2> QED BY <2>1, <2>2, <1>1, ReceiverUntouched DEF ThreadsInvAt
<1>21. NetInv(u + 1)'
  <2>1. ASSUME NEW p \in data_net PROVE \E i \in 1..(u + 1) : p = written[i]
    <3>1. PICK i \in 1..u : p = written[i]
      BY DEF ThreadsInvAt, NetInv
    <3>2. i \in 1..(u + 1)
      BY <1>2
    <3> QED BY <3>1, <3>2
  <2>2. ASSUME NEW n \in DOMAIN ooo_buffer PROVE n < u + 1
    <3>1. n < u /\ n \in Nat
      BY DEF ThreadsInvAt, NetInv, RcvInv, RcvTypeOK
    <3> QED BY <3>1, <1>2
  <2>3. expected_seq <= u + 1
    BY <1>2
  <2> QED BY <2>1, <2>2, <2>3, <1>1, <1>2 DEF ThreadsInvAt, NetInv, rcvVars
<1> QED BY <1>9, <1>10, <1>11, <1>12, <1>13, <1>14, <1>15, <1>16, <1>17, <1>18,
           <1>19, <1>20, <1>21 DEF ThreadsInvAt

\* A thread that finds the buffer empty is out of _try_send.
LEMMA PopStep ==
    ASSUME NEW u, ThreadsInvAt(u), NEW t \in Threads, Pop(t)
    PROVE  \E v : ThreadsInvAt(v)'
<1>1. CASE send_buffer # <<>>
  BY <1>1, PopTakesStep
<1>2. CASE send_buffer = <<>>
  <2>1. PICK to \in {"idle", "dead"} :
           /\ pc[t] = "pop" /\ pc' = [pc EXCEPT ![t] = to]
           /\ UNCHANGED <<send_buffer, hand>>
    BY <1>2 DEF Pop, Goes, Raised
  <2>2. UNCHANGED <<vars, making, hand, keys>>
    BY <2>1 DEF Pop, vars, ccVars, rcvVars
  <2> QED BY <2>1, <2>2, QuietMoveStep
<1> QED BY <1>1, <1>2

\* The packet moves from the thread's hand to unacked_packets.
LEMMA InsertStep ==
    ASSUME NEW u, ThreadsInvAt(u), NEW t \in Threads, Insert(t)
    PROVE  ThreadsInvAt(u)'
<1>0. pc \in [Threads -> Labels] /\ "app" \in Threads /\ "receive" \in Threads
  BY DEF ThreadsInvAt, ThreadsTypes, Threads
<1>1. /\ pc[t] = "insert" /\ pc' = [pc EXCEPT ![t] = "add"]
      /\ UNCHANGED <<base, next_seq, ccVars, peer_rwnd, send_buffer, written,
                     data_net, rcvVars, ack_net, making, hand, keys>>
  BY DEF Insert, Goes
<1>2. PICK h : h = hand[t].seq_num
  OBVIOUS
<1>3. /\ DOMAIN unacked_packets' = DOMAIN unacked_packets \cup {h}
      /\ unacked_packets'[h] = hand[t]
      /\ \A s \in DOMAIN unacked_packets : s # h => unacked_packets'[s] = unacked_packets[s]
  BY <1>2 DEF Insert
<1>4. h \in 0..(u - 1) /\ hand[t] = written[h + 1]
  BY <1>1, <1>2 DEF ThreadsInvAt, Held
<1>5. /\ pc'[t] = "add"
      /\ \A r \in Threads \ {t} : pc'[r] = pc[r]
  BY <1>0, <1>1
<1>6. u \in Nat /\ base \in Nat
  BY ThreadsInvNumbers
<1>7. ThreadsTypes'
  BY <1>0, <1>1 DEF ThreadsInvAt, ThreadsTypes, Labels
<1>8. CCInv'
  BY <1>1, CCUntouched DEF ThreadsInvAt
<1>9. Waiting(u)'
  BY <1>1 DEF ThreadsInvAt, Waiting
<1>10. Made'
  BY <1>0, <1>1 DEF ThreadsInvAt, Made
<1>11. Filed(u)'
  BY <1>1, <1>3, <1>4 DEF ThreadsInvAt, Filed
<1>12. \A r \in Threads : pc'[r] \in {"insert", "add"} => pc[r] \in {"insert", "add"}
  BY <1>1, <1>5
<1>13. Held(u)' /\ HandsDiffer'
  <2>1. Held(u)'
    BY <1>1, <1>12 DEF ThreadsInvAt, Held
  <2>2. HandsDiffer'
    BY <1>1, <1>12 DEF ThreadsInvAt, HandsDiffer
  <2> QED BY <2>1, <2>2
<1>14. HeldFresh'
  <2> SUFFICES ASSUME NEW r \in Threads, pc'[r] = "insert"
               PROVE  Fresh(hand[r].seq_num)'
    BY Zenon DEF HeldFresh
  <2>1. r # t /\ pc[r] = "insert" /\ hand' = hand
    BY <1>1, <1>5
  <2>2. Fresh(hand[r].seq_num)
    BY <2>1 DEF ThreadsInvAt, HeldFresh
  <2>3. hand[r].seq_num # h
    BY <2>1, <1>1, <1>2 DEF ThreadsInvAt, HandsDiffer
  <2> QED BY <2>1, <2>2, <2>3, <1>1, <1>3 DEF Fresh, rcvVars
<1>15. Kept(u)'
  <2> SUFFICES ASSUME NEW s \in base..(u - 1)
               PROVE  \/ s \in DOMAIN unacked_packets'
                      \/ \E r \in Threads : pc'[r] = "insert" /\ hand[r].seq_num = s
    BY <1>1 DEF Kept, Holds
  <2>1. CASE s \in DOMAIN unacked_packets
    BY <2>1, <1>3
  <2>2. CASE s \notin DOMAIN unacked_packets
    <3>1. PICK r \in Threads : Holds(r, s)
      BY <2>2 DEF ThreadsInvAt, Kept
    <3> QED BY <3>1, <1>2, <1>3, <1>5 DEF Holds
  <2> QED BY <2>1, <2>2
<1>16. KeysAcked'
  BY <1>0, <1>1, <1>6, KeysUntouched DEF ThreadsInvAt
<1>17. Overrun(u)'
  BY <1>0, <1>1, <1>6, NoMoreOverrun DEF ThreadsInvAt
<1>18. RcvInv(written)'
  <2>1. PICK w : w = written
    OBVIOUS
  <2>2. ack_net' \subseteq AckPacket
    BY <1>1 DEF ThreadsInvAt, RcvInv, RcvTypeOK
  <2> QED BY <2>1, <2>2, <1>1, ReceiverUntouched DEF ThreadsInvAt
<1>19. NetInv(u)'
  BY <1>1 DEF ThreadsInvAt, NetInv, rcvVars
<1> QED BY <1>7, <1>8, <1>9, <1>10, <1>11, <1>13, <1>14, <1>15, <1>16, <1>17,
           <1>18, <1>19 DEF ThreadsInvAt

\* The packet goes on the wire; the other thread holds a different one.
LEMMA AddAndSendStep ==
    ASSUME NEW u, ThreadsInvAt(u), NEW t \in Threads, AddAndSend(t)
    PROVE  ThreadsInvAt(u)'
<1>0. pc \in [Threads -> Labels] /\ "app" \in Threads /\ "receive" \in Threads
      /\ hand \in [Threads -> DataPacket]
  BY DEF ThreadsInvAt, ThreadsTypes, Threads
<1>1. /\ pc[t] = "add" /\ pc' = [pc EXCEPT ![t] = "bytes"]
      /\ data_net' = data_net \cup {hand[t]}
      /\ hand' = [hand EXCEPT ![t] = NoPacket]
      /\ UNCHANGED <<base, next_seq, ccVars, peer_rwnd, unacked_packets,
                     send_buffer, written, rcvVars, ack_net, making, keys>>
  BY DEF AddAndSend, Goes
<1>2. /\ pc'[t] = "bytes"
      /\ \A r \in Threads \ {t} : pc'[r] = pc[r] /\ hand'[r] = hand[r]
  BY <1>0, <1>1
<1>3. u \in Nat /\ base \in Nat
  BY ThreadsInvNumbers
<1>4. \A r \in Threads : pc'[r] \in {"insert", "add"} =>
         r # t /\ pc[r] = pc'[r] /\ hand'[r] = hand[r]
  BY <1>2
<1>5. ThreadsTypes'
  <2>1. NoPacket \in DataPacket
    BY DEF NoPacket, DataPacket
  <2> QED BY <1>0, <1>1, <2>1 DEF ThreadsInvAt, ThreadsTypes, Labels
<1>6. CCInv'
  BY <1>1, CCUntouched DEF ThreadsInvAt
<1>7. Waiting(u)' /\ Filed(u)'
  BY <1>1 DEF ThreadsInvAt, Waiting, Filed
<1>8. Made'
  BY <1>0, <1>1 DEF ThreadsInvAt, Made
<1>9. Held(u)'
  BY <1>1, <1>4 DEF ThreadsInvAt, Held
<1>10. HandsDiffer'
  BY <1>4 DEF ThreadsInvAt, HandsDiffer
<1>11. HeldFresh'
  <2> SUFFICES ASSUME NEW r \in Threads, pc'[r] = "insert"
               PROVE  Fresh(hand[r].seq_num)'
    BY Zenon DEF HeldFresh
  <2>1. r # t /\ pc[r] = "insert" /\ hand'[r] = hand[r]
    BY <1>4
  <2>2. Fresh(hand[r].seq_num)
    BY <2>1 DEF ThreadsInvAt, HeldFresh
  <2>3. hand[t].seq_num # hand[r].seq_num
    BY <2>1, <1>1 DEF ThreadsInvAt, HandsDiffer
  <2> QED BY <2>1, <2>2, <2>3, <1>1 DEF Fresh, rcvVars
<1>12. Kept(u)'
  <2> SUFFICES ASSUME NEW s \in base..(u - 1), s \notin DOMAIN unacked_packets
               PROVE  \E r \in Threads : pc'[r] = "insert" /\ hand'[r].seq_num = s
    BY <1>1 DEF Kept, Holds
  <2>1. PICK r \in Threads : pc[r] = "insert" /\ hand[r].seq_num = s
    BY DEF ThreadsInvAt, Kept, Holds
  <2> QED BY <2>1, <1>1, <1>2
<1>13. KeysAcked'
  BY <1>0, <1>1, <1>3, KeysUntouched DEF ThreadsInvAt
<1>14. Overrun(u)'
  BY <1>0, <1>1, <1>3, NoMoreOverrun DEF ThreadsInvAt
<1>15. RcvInv(written)'
  <2>1. PICK w : w = written
    OBVIOUS
  <2>2. ack_net' \subseteq AckPacket
    BY <1>1 DEF ThreadsInvAt, RcvInv, RcvTypeOK
  <2> QED BY <2>1, <2>2, <1>1, ReceiverUntouched DEF ThreadsInvAt
<1>16. NetInv(u)'
  <2>1. PICK n \in 0..(u - 1) : hand[t] = written[n + 1]
    BY <1>1 DEF ThreadsInvAt, Held
  <2>2. n + 1 \in 1..u
    BY <1>3
  <2>3. \A p \in data_net' : \E i \in 1..u : p = written[i]
    BY <1>1, <2>1, <2>2 DEF ThreadsInvAt, NetInv
  <2> QED BY <2>3, <1>1 DEF ThreadsInvAt, NetInv, rcvVars
<1> QED BY <1>5, <1>6, <1>7, <1>8, <1>9, <1>10, <1>11, <1>12, <1>13, <1>14,
           <1>15, <1>16 DEF ThreadsInvAt

\* The packet that leaves unacked_packets is acknowledged.
LEMMA SubtractAndDeleteStep ==
    ASSUME NEW u, ThreadsInvAt(u), SubtractAndDelete
    PROVE  ThreadsInvAt(u)'
<1>0. pc \in [Threads -> Labels] /\ "app" \in Threads /\ "receive" \in Threads
  BY DEF ThreadsInvAt, ThreadsTypes, Threads
<1>1. PICK k : k = Min(keys)
  OBVIOUS
<1>2. PICK to \in {"grow", "load"} :
         /\ pc["receive"] = "subtract" /\ pc' = [pc EXCEPT !["receive"] = to]
         /\ to = "load" => keys # {k}
  BY <1>1 DEF SubtractAndDelete, Goes
<1>3. /\ unacked_packets' = Restrict(unacked_packets, DOMAIN unacked_packets \ {k})
      /\ keys' = keys \ {k}
      /\ UNCHANGED <<base, next_seq, ccVars, peer_rwnd, send_buffer, written,
                     data_net, rcvVars, ack_net, making, hand>>
  BY <1>1 DEF SubtractAndDelete
<1>4. k \in keys /\ k \in Nat /\ k < base
  <2>1. keys \in SUBSET Nat /\ keys # {} /\ \A s \in keys : s < base
    BY <1>2 DEF ThreadsInvAt, KeysAcked
  <2>2. Min(keys) \in keys
    BY <2>1, LeastElement
  <2> QED BY <1>1, <2>1, <2>2
<1>5. /\ DOMAIN unacked_packets' = DOMAIN unacked_packets \ {k}
      /\ \A s \in DOMAIN unacked_packets' : unacked_packets'[s] = unacked_packets[s]
  BY <1>3 DEF Restrict
<1>6. u \in Nat /\ base \in Nat
  BY ThreadsInvNumbers
<1>7. \A r \in Threads : /\ pc'[r] \in {"insert", "add", "pop"} => pc'[r] = pc[r]
                         /\ pc[r] = "insert" => pc'[r] = "insert"
  BY <1>0, <1>2
<1>8. ThreadsTypes'
  BY <1>0, <1>2, <1>3 DEF ThreadsInvAt, ThreadsTypes, Labels
<1>9. CCInv'
  BY <1>3, CCUntouched DEF ThreadsInvAt
<1>10. Waiting(u)'
  BY <1>3 DEF ThreadsInvAt, Waiting
<1>11. Made'
  BY <1>0, <1>2, <1>3 DEF ThreadsInvAt, Made
<1>12. Filed(u)'
  BY <1>3, <1>5 DEF ThreadsInvAt, Filed
<1>13. Held(u)'
  BY <1>3, <1>7 DEF ThreadsInvAt, Held
<1>14. HandsDiffer'
  BY <1>3, <1>7 DEF ThreadsInvAt, HandsDiffer
<1>15. HeldFresh'
  BY <1>3, <1>5, <1>7 DEF ThreadsInvAt, HeldFresh, Fresh, rcvVars
<1>16. Kept(u)'
  <2> SUFFICES ASSUME NEW s \in base..(u - 1)
               PROVE  \/ s \in DOMAIN unacked_packets'
                      \/ \E r \in Threads : pc'[r] = "insert" /\ hand[r].seq_num = s
    BY <1>3 DEF Kept, Holds
  <2>1. s # k
    BY <1>4, <1>6
  <2>2. s \in DOMAIN unacked_packets \/ \E r \in Threads : Holds(r, s)
    BY DEF ThreadsInvAt, Kept
  <2> QED BY <2>1, <2>2, <1>5, <1>7 DEF Holds
<1>17. KeysAcked'
  <2>1. keys' # {} \/ to = "grow"
    BY <1>2, <1>3, <1>4
  <2>2. pc'["receive"] = to
    BY <1>0, <1>2
  <2> QED BY <2>1, <2>2, <1>3 DEF ThreadsInvAt, KeysAcked
<1>18. Overrun(u)'
  BY <1>3, <1>6, <1>7, NoMoreOverrun DEF ThreadsInvAt
<1>19. RcvInv(written)'
  <2>1. PICK w : w = written
    OBVIOUS
  <2>2. ack_net' \subseteq AckPacket
    BY <1>3 DEF ThreadsInvAt, RcvInv, RcvTypeOK
  <2> QED BY <2>1, <2>2, <1>3, ReceiverUntouched DEF ThreadsInvAt
<1>20. NetInv(u)'
  BY <1>3 DEF ThreadsInvAt, NetInv, rcvVars
<1> QED BY <1>8, <1>9, <1>10, <1>11, <1>12, <1>13, <1>14, <1>15, <1>16, <1>17,
           <1>18, <1>19, <1>20 DEF ThreadsInvAt

-----------------------------------------------------------------------------
(***************************************************************************)
(* The invariant is inductive.                                             *)
(***************************************************************************)

LEMMA ThreadsInitInv == ThreadsInit => ThreadsInv
<1> SUFFICES ASSUME ThreadsInit PROVE ThreadsInvAt(0)
  BY ThreadsInvIntro
<1> DEFINE none == <<>>
<1>0. none \in Seq(DataPacket) /\ Len(none) = 0 /\ DOMAIN none = {}
  OBVIOUS
<1>1. /\ written = none /\ base = 0 /\ next_seq = 0 /\ send_buffer = none
      /\ unacked_packets = none
      /\ pc = [t \in Threads |-> "idle"] /\ hand = [t \in Threads |-> NoPacket]
      /\ keys = {} /\ peer_rwnd = MAX_RWND
  BY DEF ThreadsInit, Init, SndInit
<1>2. CCInv /\ RcvInv(written) /\ NetInv(0)
  <2>1. Init
    BY DEF ThreadsInit
  <2>2. PICK u \in base..next_seq : IndInvAt(u)
    BY <2>1, InitIndInv DEF IndInv
  <2>3. u = 0
    BY <1>1, <2>2
  <2>4. IndInvAt(0)
    BY <2>2, <2>3
  <2> QED BY <2>4 DEF IndInvAt, SndInv
<1>3. ThreadsTypes
  <2>1. NoPacket \in DataPacket
    BY DEF NoPacket, DataPacket
  <2>2. peer_rwnd \in 1..MAX_RWND
    BY <1>1, RwndAssumption
  <2> QED BY <1>1, <2>1, <2>2 DEF ThreadsTypes, Labels
<1>4. Waiting(0) /\ Filed(0)
  BY <1>0, <1>1 DEF Waiting, Filed
<1>5. pc["app"] = "idle" /\ pc["receive"] = "idle"
      /\ \A t \in Threads : pc[t] = "idle"
  BY <1>1 DEF Threads
<1>6. Made /\ Held(0) /\ HandsDiffer /\ HeldFresh
  BY <1>5 DEF Made, Held, HandsDiffer, HeldFresh
<1>7. Kept(0) /\ KeysAcked
  BY <1>1, <1>5 DEF Kept, KeysAcked
<1>8. Overrun(0)
  BY <1>1, <1>5, RwndAssumption DEF Overrun, AtPop
<1> QED BY <1>2, <1>3, <1>4, <1>6, <1>7, <1>8 DEF ThreadsInvAt

LEMMA ThreadsNextInv == ThreadsInv /\ [ThreadsNext]_tvars => ThreadsInv'
<1> SUFFICES ASSUME ThreadsInv, [ThreadsNext]_tvars PROVE ThreadsInv'
  OBVIOUS
<1>1. PICK u : ThreadsInvAt(u)
  BY DEF ThreadsInv
<1> SUFFICES \E v : ThreadsInvAt(v)'
  BY ThreadsInvIntroNext
<1>2. CASE \E len \in MessageLengths : Send(len)
  <2>1. PICK len \in MessageLengths : Send(len)
    BY <1>2
  <2>2. len \in Nat
    BY LengthsAssumption
  <2> QED BY <1>1, <2>1, <2>2, SendThreadsStep
<1>3. CASE AppendChunk
  BY <1>1, <1>3, AppendChunkStep
<1>4. ASSUME NEW t \in Threads, TrySendStep(t)
      PROVE  \E v : ThreadsInvAt(v)'
  <2>1. CASE CheckBytes(t)
    BY <1>1, <2>1, CheckBytesStep
  <2>2. CASE CheckSegments(t)
    BY <1>1, <2>2, CheckSegmentsStep
  <2>3. CASE Pop(t)
    BY <1>1, <2>3, PopStep
  <2>4. CASE Insert(t)
    BY <1>1, <2>4, InsertStep
  <2>5. CASE AddAndSend(t)
    BY <1>1, <2>5, AddAndSendStep
  <2> QED BY <1>4, <2>1, <2>2, <2>3, <2>4, <2>5 DEF TrySendStep
<1>5. CASE ReceiveThreadStep
  <2>1. ASSUME NEW a \in ack_net, StartNewAck(a) PROVE \E v : ThreadsInvAt(v)'
    BY <1>1, <2>1, StartNewAckStep
  <2>2. ASSUME NEW a \in ack_net, OtherAck(a) PROVE \E v : ThreadsInvAt(v)'
    BY <1>1, <2>2, OtherAckStep
  <2>3. ASSUME NEW a \in ack_net, StartInflate(a) PROVE \E v : ThreadsInvAt(v)'
    BY <1>1, <2>3, StartInflateStep
  <2>4. CASE Scan
    BY <1>1, <2>4, ScanStep
  <2>5. CASE Load
    BY <1>1, <2>5, LoadStep
  <2>6. CASE SubtractAndDelete
    BY <1>1, <2>6, SubtractAndDeleteStep
  <2>7. CASE Grow
    BY <1>1, <2>7, GrowStep
  <2>8. CASE TickThread
    BY <1>1, <2>8, TickThreadStep
  <2> QED BY <1>5, <2>1, <2>2, <2>3, <2>4, <2>5, <2>6, <2>7, <2>8
          DEF ReceiveThreadStep
<1>6. CASE \E p \in data_net : PeerReceives(p)
  BY <1>1, <1>6, PeerReceivesStep
<1>7. CASE UNCHANGED tvars
  <2>1. UNCHANGED <<vars, pc, making, hand, keys>>
    BY <1>7 DEF tvars, threadVars
  <2>2. /\ pc \in [Threads -> Labels] /\ u \in Nat /\ base \in Nat
        /\ base <= expected_seq /\ base' = base /\ next_seq' = next_seq
        /\ peer_rwnd \in 1..MAX_RWND
    BY <1>1, <2>1, ThreadsInvNumbers DEF ThreadsInvAt, ThreadsTypes, vars
  <2>3. NoPacketMoves
    BY <2>1, <2>2 DEF NoPacketMoves, vars, rcvVars
  <2>4. CCInv'
    BY <1>1, <2>1, CCUntouched DEF ThreadsInvAt, vars, ccVars
  <2>5. Made' /\ KeysAcked'
    BY <1>1, <2>1, <2>2 DEF ThreadsInvAt, Made, KeysAcked
  <2>6. Overrun(u)'
    BY <1>1, <2>1, <2>2, NoMoreOverrun DEF ThreadsInvAt
  <2>7. pc' \in [Threads -> Labels] /\ peer_rwnd' \in 1..MAX_RWND
    BY <2>1, <2>2 DEF vars
  <2> QED BY <1>1, <2>3, <2>4, <2>5, <2>6, <2>7, NoPacketMovesStep
<1> QED BY <1>2, <1>3, <1>4, <1>5, <1>6, <1>7 DEF ThreadsNext, AppStep, Threads

LEMMA ThreadsInvariance == ThreadsSpec => []ThreadsInv
  BY ThreadsInitInv, ThreadsNextInv, PTL DEF ThreadsSpec

-----------------------------------------------------------------------------
(***************************************************************************)
(* What the two threads guarantee.                                         *)
(***************************************************************************)

\* The race in _try_send neither loses a packet nor gives it to both threads:
\* every packet from base on is in exactly one place.
THEOREM PacketsKept == ThreadsSpec => []EveryPacketKept
<1>1. ThreadsInv => EveryPacketKept
  <2> SUFFICES ASSUME ThreadsInv, NEW s \in base..(next_seq - 1)
               PROVE  Cardinality({i \in 1..Len(send_buffer) : send_buffer[i].seq_num = s})
                      + Cardinality({t \in Threads : Holds(t, s)})
                      + Cardinality({s} \cap DOMAIN unacked_packets) = 1
    BY DEF EveryPacketKept
  <2> DEFINE A == {i \in 1..Len(send_buffer) : send_buffer[i].seq_num = s}
             B == {t \in Threads : Holds(t, s)}
             C == {s} \cap DOMAIN unacked_packets
  <2>1. PICK u : ThreadsInvAt(u)
    BY DEF ThreadsInv
  <2>2. /\ u \in Nat /\ base \in Nat /\ Len(written) \in Nat /\ u <= Len(written)
        /\ next_seq = Len(written) /\ s \in Nat /\ base <= s /\ s < Len(written)
    BY <2>1, ThreadsInvNumbers
  <2>3. ASSUME NEW i \in 1..Len(send_buffer)
        PROVE  send_buffer[i].seq_num = u + i - 1 /\ i \in Nat
    <3>1. /\ send_buffer \in Seq(DataPacket) /\ Len(send_buffer) = Len(written) - u
          /\ \A j \in 1..(Len(written) - u) : send_buffer[j] = written[u + j]
          /\ \A j \in 1..Len(written) : written[j].seq_num = j - 1
      BY <2>1 DEF ThreadsInvAt, Waiting
    <3>2. i \in 1..(Len(written) - u) /\ u + i \in 1..Len(written)
      BY <3>1, <2>2
    <3> QED BY <3>1, <3>2, <2>2
  <2>4. Len(send_buffer) = Len(written) - u
    BY <2>1 DEF ThreadsInvAt, Waiting
  <2>5. \A t \in Threads : Holds(t, s) => s < u /\ s \notin DOMAIN unacked_packets
    <3> SUFFICES ASSUME NEW t \in Threads, Holds(t, s)
                 PROVE  s < u /\ s \notin DOMAIN unacked_packets
      OBVIOUS
    <3>1. pc[t] = "insert" /\ hand[t].seq_num = s
      BY DEF Holds
    <3>2. s \in 0..(u - 1)
      BY <3>1, <2>1 DEF ThreadsInvAt, Held
    <3>3. Fresh(s)
      BY <3>1, <2>1 DEF ThreadsInvAt, HeldFresh
    <3> QED BY <3>2, <3>3, <2>2 DEF Fresh
  <2>6. \A r, t \in Threads : Holds(t, s) /\ Holds(r, s) => t = r
    BY <2>1 DEF ThreadsInvAt, HandsDiffer, Holds
  <2>7. s \in DOMAIN unacked_packets => s < u
    BY <2>1, <2>2 DEF ThreadsInvAt, Filed
  <2>8. CASE s >= u
    <3>1. s - u + 1 \in 1..Len(send_buffer)
      BY <2>2, <2>4, <2>8
    <3>2. A = {s - u + 1}
      BY <2>2, <2>3, <3>1
    <3>3. B = {} /\ C = {}
      BY <2>2, <2>5, <2>7, <2>8
    <3>4. Cardinality(A) = 1 /\ Cardinality(B) = 0 /\ Cardinality(C) = 0
      BY <3>2, <3>3, FS_Singleton, FS_EmptySet
    <3> QED BY <3>4
  <2>9. CASE s < u /\ s \in DOMAIN unacked_packets
    <3>1. A = {}
      BY <2>2, <2>3, <2>9
    <3>2. B = {} /\ C = {s}
      BY <2>5, <2>9
    <3>3. Cardinality(A) = 0 /\ Cardinality(B) = 0 /\ Cardinality(C) = 1
      BY <3>1, <3>2, FS_Singleton, FS_EmptySet
    <3> QED BY <3>3
  <2>10. CASE s < u /\ s \notin DOMAIN unacked_packets
    <3>1. A = {} /\ C = {}
      BY <2>2, <2>3, <2>10
    <3>2. s \in base..(u - 1)
      BY <2>2, <2>10
    <3>3. PICK t \in Threads : Holds(t, s)
      BY <2>1, <2>10, <3>2 DEF ThreadsInvAt, Kept
    <3>4. B = {t}
      BY <2>6, <3>3
    <3>5. Cardinality(A) = 0 /\ Cardinality(B) = 1 /\ Cardinality(C) = 0
      BY <3>1, <3>4, FS_Singleton, FS_EmptySet
    <3> QED BY <3>5
  <2> QED BY <2>2, <2>8, <2>9, <2>10
<1> QED BY <1>1, ThreadsInvariance, PTL

\* The oldest outstanding packet is where check_timeouts looks for it, except
\* while a thread has a packet in its hand.
THEOREM OldestFound == ThreadsSpec => []OldestAtBase
<1>1. ThreadsInv => OldestAtBase
  <2> SUFFICES ASSUME ThreadsInv, \A t \in Threads : pc[t] # "insert",
                      NEW s \in DOMAIN unacked_packets, s >= base
               PROVE  base \in DOMAIN unacked_packets
    BY DEF OldestAtBase
  <2>1. PICK u : ThreadsInvAt(u)
    BY DEF ThreadsInv
  <2>2. u \in Nat /\ base \in Nat /\ s \in 0..(u - 1)
    BY <2>1, ThreadsInvNumbers DEF ThreadsInvAt, Filed
  <2>3. base \in base..(u - 1)
    BY <2>2
  <2> QED BY <2>1, <2>3 DEF ThreadsInvAt, Kept, Holds
<1> QED BY <1>1, ThreadsInvariance, PTL

\* Two threads that pass the window check together overrun the receiver's
\* window by one packet and never by more.
THEOREM OverrunByOne == ThreadsSpec => []OneBeyondWindow
<1>1. ThreadsInv => OneBeyondWindow
  <2> SUFFICES ASSUME ThreadsInv, NEW p \in data_net
               PROVE  p.seq_num <= expected_seq + MAX_RWND
    BY DEF OneBeyondWindow
  <2>1. PICK u : ThreadsInvAt(u)
    BY DEF ThreadsInv
  <2>2. /\ u \in Nat /\ base \in Nat /\ expected_seq \in Nat /\ MAX_RWND \in Nat
        /\ base <= expected_seq /\ u <= Len(written) /\ Len(written) \in Nat
    BY <2>1, ThreadsInvNumbers
  <2>3. PICK i \in 1..u : p = written[i]
    BY <2>1 DEF ThreadsInvAt, NetInv
  <2>4. i \in 1..Len(written)
    BY <2>2
  <2>5. p.seq_num = i - 1
    BY <2>1, <2>3, <2>4 DEF ThreadsInvAt, Waiting
  <2>6. u <= base + MAX_RWND + 1
    <3>1. AtPop("app") \in 0..1 /\ AtPop("receive") \in 0..1
      BY DEF AtPop
    <3> QED BY <2>1, <2>2, <3>1 DEF ThreadsInvAt, Overrun
  <2> QED BY <2>2, <2>5, <2>6
<1> QED BY <1>1, ThreadsInvariance, PTL

\* Whatever the threads do to each other, the peer consumes every packet exactly
\* once and in order.
THEOREM InOrderDespiteRace == ThreadsSpec => []InOrderExactlyOnce
<1>1. ThreadsInv => InOrderExactlyOnce
  <2> SUFFICES ASSUME ThreadsInv PROVE InOrderExactlyOnce
    OBVIOUS
  <2>1. PICK u : ThreadsInvAt(u)
    BY DEF ThreadsInv
  <2>2. written \in Seq(DataPacket) /\ RcvTypeOK /\ Consumed(written)
    BY <2>1, ThreadsInvNumbers DEF ThreadsInvAt, RcvInv
  <2>3. expected_seq <= Len(written)
    BY <2>2 DEF Consumed
  <2> QED BY <2>2, <2>3, ConsumedIsPrefix DEF InOrderExactlyOnce
<1> QED BY <1>1, ThreadsInvariance, PTL

\* Nor does the sender ever take a packet for acknowledged that the peer does
\* not have.
THEOREM AcksTrueDespiteRace == ThreadsSpec => []AckedIsReceived
<1>1. ThreadsInv => AckedIsReceived
  <2> SUFFICES ASSUME ThreadsInv PROVE AckedIsReceived
    OBVIOUS
  <2>1. PICK u : ThreadsInvAt(u)
    BY DEF ThreadsInv
  <2>2. /\ base <= expected_seq /\ expected_seq <= next_seq
    BY <2>1, ThreadsInvNumbers
  <2>3. \A a \in ack_net : a.ack_num <= expected_seq
    BY <2>1, AckOnItsWay
  <2> QED BY <2>2, <2>3 DEF AckedIsReceived
<1> QED BY <1>1, ThreadsInvariance, PTL

-----------------------------------------------------------------------------
(***************************************************************************)
(* The two threads and the message stream.                                 *)
(***************************************************************************)

\* Outside its loop enqueue_data has nothing left to append.
MakingInv == pc["app"] # "append" => making = <<>>

\* A thread that is not appending leaves the one that is where it is.
LEMMA GoesElsewhere ==
    ASSUME pc \in [Threads -> Labels], NEW t \in Threads, NEW from, NEW to,
           Goes(t, from, to), from # "append", making' = making, MakingInv
    PROVE  MakingInv'
<1>1. PICK app \in Threads : app = "app"
  BY DEF Threads
<1>2. pc[app] = "append" => pc'[app] = "append"
  <2>1. pc[t] = from /\ pc' = [pc EXCEPT ![t] = to]
    BY DEF Goes
  <2> QED BY <2>1
<1> QED BY <1>1, <1>2, Zenon DEF MakingInv

\* What is sent, what is still being made and what was delivered stay as they
\* are in a step of _try_send or of the receive thread.
LEMMA ThreadStutters ==
    ASSUME NEW u, ThreadsInvAt(u), MakingInv,
           (\E t \in Threads : TrySendStep(t)) \/ ReceiveThreadStep \/ UNCHANGED tvars
    PROVE  UNCHANGED <<written, making, delivered>> /\ MakingInv'
<1>1. pc \in [Threads -> Labels] /\ "receive" \in Threads
  BY DEF ThreadsInvAt, ThreadsTypes, Threads
<1> DEFINE Stutter == UNCHANGED <<written, making, delivered>>
<1>2. ASSUME NEW t \in Threads, CheckBytes(t) PROVE Stutter /\ MakingInv'
  <2>1. Stutter /\ \E to : Goes(t, "bytes", to)
    BY <1>2 DEF CheckBytes, vars
  <2> QED BY <1>1, <2>1, GoesElsewhere
<1>3. ASSUME NEW t \in Threads, CheckSegments(t) PROVE Stutter /\ MakingInv'
  <2>1. Stutter /\ \E to : Goes(t, "segments", to)
    BY <1>3 DEF CheckSegments, vars
  <2> QED BY <1>1, <2>1, GoesElsewhere
<1>4. ASSUME NEW t \in Threads, Pop(t) PROVE Stutter /\ MakingInv'
  <2>1. Stutter /\ \E to : Goes(t, "pop", to)
    BY <1>4 DEF Pop, rcvVars
  <2> QED BY <1>1, <2>1, GoesElsewhere
<1>5. ASSUME NEW t \in Threads, Insert(t) PROVE Stutter /\ MakingInv'
  <2>1. Stutter /\ \E to : Goes(t, "insert", to)
    BY <1>5 DEF Insert, rcvVars
  <2> QED BY <1>1, <2>1, GoesElsewhere
<1>6. ASSUME NEW t \in Threads, AddAndSend(t) PROVE Stutter /\ MakingInv'
  <2>1. Stutter /\ \E to : Goes(t, "add", to)
    BY <1>6 DEF AddAndSend, rcvVars
  <2> QED BY <1>1, <2>1, GoesElsewhere
<1>7. ASSUME NEW a \in ack_net, StartNewAck(a) PROVE Stutter /\ MakingInv'
  <2>1. Stutter /\ \E to : Goes("receive", "idle", to)
    BY <1>7 DEF StartNewAck, rcvVars
  <2> QED BY <1>1, <2>1, GoesElsewhere
<1>8. ASSUME NEW a \in ack_net, OtherAck(a) PROVE Stutter /\ MakingInv'
  <2>1. Stutter /\ \E to : Goes("receive", "idle", to)
    BY <1>8 DEF OtherAck, rcvVars, FastRetransmit, OtherDupAck, StaleAck, CountDupAck
  <2> QED BY <1>1, <2>1, GoesElsewhere
<1>9. ASSUME NEW a \in ack_net, StartInflate(a) PROVE Stutter /\ MakingInv'
  <2>1. Stutter /\ \E to : Goes("receive", "idle", to)
    BY <1>9 DEF StartInflate, rcvVars, CountDupAck
  <2> QED BY <1>1, <2>1, GoesElsewhere
<1>10. CASE Scan
  <2>1. Stutter /\ \E to : Goes("receive", "scan", to)
    BY <1>10 DEF Scan, vars
  <2> QED BY <1>1, <2>1, GoesElsewhere
<1>11. CASE Load
  <2>1. Stutter /\ \E to : Goes("receive", "load", to)
    BY <1>11 DEF Load, vars
  <2> QED BY <1>1, <2>1, GoesElsewhere
<1>12. CASE SubtractAndDelete
  <2>1. Stutter /\ \E to : Goes("receive", "subtract", to)
    BY <1>12 DEF SubtractAndDelete, rcvVars
  <2> QED BY <1>1, <2>1, GoesElsewhere
<1>13. CASE Grow
  <2>1. Stutter /\ \E to : Goes("receive", "grow", to)
    BY <1>13 DEF Grow, rcvVars
  <2> QED BY <1>1, <2>1, GoesElsewhere
<1>14. CASE TickThread
  <2>1. Stutter /\ pc' = pc
    BY <1>14 DEF TickThread, Tick, CheckTimeouts, rcvVars, threadVars
  <2> QED BY <2>1 DEF MakingInv
<1>15. CASE UNCHANGED tvars
  <2>1. Stutter /\ pc' = pc
    BY <1>15 DEF tvars, vars, threadVars
  <2> QED BY <2>1 DEF MakingInv
<1>16. ASSUME NEW t \in Threads, TrySendStep(t) PROVE Stutter /\ MakingInv'
  BY <1>2, <1>3, <1>4, <1>5, <1>6, <1>16 DEF TrySendStep
<1>17. CASE ReceiveThreadStep
  BY <1>7, <1>8, <1>9, <1>10, <1>11, <1>12, <1>13, <1>14, <1>17 DEF ReceiveThreadStep
<1> QED BY <1>15, <1>16, <1>17

\* enqueue_data begins: the whole message counts as sent.
LEMMA SendIsSend ==
    ASSUME NEW u, ThreadsInvAt(u), MakingInv, NEW len \in Nat, Send(len)
    PROVE  ThreadsStream!Send /\ MakingInv'
<1>1. /\ pc["app"] = "idle" /\ pc' = [pc EXCEPT !["app"] = "append"]
      /\ making' = Chunks(len) /\ written' = written /\ delivered' = delivered
  BY DEF Send, Goes, vars
<1>2. /\ written \in Seq(DataPacket) /\ next_seq \in Nat
  BY ThreadsInvNumbers
<1>3. making = <<>>
  BY <1>1 DEF MakingInv
<1>4. PICK c \in Seq(DataPacket) :
          /\ c = Chunks(len) /\ Len(c) > 0
          /\ \A i \in 1..Len(c) : c[i].is_fin <=> i = Len(c)
  BY <1>2, ChunksMade, Zenon
<1>5. OneMessageMore(written, written \o c)
  BY <1>2, <1>4, AppendedMessage
<1>6. written \o making = written /\ (written \o making)' = written \o c
  BY <1>1, <1>2, <1>3, <1>4
<1>7. ThreadsStream!Send
  <2>1. PICK a : a = written \o making
    OBVIOUS
  <2>2. PICK b : b = (written \o making)'
    OBVIOUS
  <2>3. OneMessageMore(a, b)
    BY <1>5, <1>6, <2>1, <2>2
  <2>4. \E n \in 1..(Len(b) - Len(a)) :
            /\ Len(b) = Len(a) + n
            /\ SubSeq(b, 1, Len(a)) = a
            /\ \A i \in 1..n : b[Len(a) + i].is_fin <=> i = n
    BY <2>3 DEF OneMessageMore
  <2> QED BY <1>1, <2>1, <2>2, <2>4 DEF ThreadsStream!Send
<1>8. MakingInv'
  <2>1. pc \in [Threads -> Labels] /\ "app" \in Threads
    BY DEF ThreadsInvAt, ThreadsTypes, Threads
  <2> QED BY <1>1, <2>1 DEF MakingInv
<1> QED BY <1>7, <1>8

\* A packet goes from those being made to the buffer.
LEMMA AppendChunkStutters ==
    ASSUME NEW u, ThreadsInvAt(u), AppendChunk
    PROVE  /\ (written \o making)' = written \o making
           /\ delivered' = delivered
           /\ MakingInv'
<1>0. pc \in [Threads -> Labels] /\ "app" \in Threads
  BY DEF ThreadsInvAt, ThreadsTypes, Threads
<1>1. /\ pc["app"] = "append"
      /\ pc' = [pc EXCEPT !["app"] = IF Len(making) = 1 THEN "bytes" ELSE "append"]
      /\ making' = Tail(making) /\ written' = Append(written, Head(making))
      /\ delivered' = delivered
  BY DEF AppendChunk, Goes, rcvVars
<1>2. written \in Seq(DataPacket) /\ Len(written) \in Nat
  BY ThreadsInvNumbers
<1>3. making \in Seq(DataPacket) /\ Len(making) > 0 /\ Len(making) \in Nat
  BY <1>1 DEF ThreadsInvAt, Made
<1>4. PICK h, tl \in Seq(DataPacket) :
          /\ h = <<Head(making)>> /\ tl = Tail(making)
          /\ making = h \o tl /\ Append(written, Head(making)) = written \o h
  <2>1. making # <<>>
    BY <1>3
  <2>2. /\ <<Head(making)>> \in Seq(DataPacket) /\ Tail(making) \in Seq(DataPacket)
        /\ making = <<Head(making)>> \o Tail(making)
        /\ Append(written, Head(making)) = written \o <<Head(making)>>
    BY <2>1, <1>2, <1>3
  <2> QED BY <2>2, Zenon
<1>5. (written \o h) \o tl = written \o (h \o tl)
  BY <1>2, <1>4, ConcatAssociative
<1>6. (written \o making)' = written \o making
  BY <1>1, <1>4, <1>5
<1>7. MakingInv'
  <2>1. CASE Len(making) = 1
    <3>1. making' = <<>>
      <4>1. Tail(making) \in Seq(DataPacket) /\ Len(Tail(making)) = 0
        BY <1>3, <2>1
      <4> QED BY <4>1, <1>1, EmptySeq
    <3> QED BY <3>1 DEF MakingInv
  <2>2. CASE Len(making) # 1
    <3>1. pc'["app"] = "append"
      BY <1>0, <1>1, <2>2
    <3> QED BY <3>1 DEF MakingInv
  <2> QED BY <2>1, <2>2
<1> QED BY <1>1, <1>6, <1>7

\* The peer's application gets the next whole messages, or nothing.
LEMMA PeerReceivesIsDeliver ==
    ASSUME NEW u, ThreadsInvAt(u), MakingInv, NEW p \in data_net, PeerReceives(p)
    PROVE  /\ ThreadsStream!Deliver \/ UNCHANGED <<written \o making, delivered>>
           /\ MakingInv'
<1>1. ProcessSegment(p) /\ UNCHANGED <<written, pc, making>>
  BY DEF PeerReceives, sndVars, threadVars
<1>2. /\ u \in Nat /\ expected_seq \in Nat /\ Len(written) \in Nat
      /\ expected_seq <= u /\ u <= Len(written)
      /\ written \in Seq(DataPacket)
  BY ThreadsInvNumbers
<1>3. /\ p \in DataPacket /\ p.seq_num \in 0..(u - 1)
      /\ p = written[p.seq_num + 1]
  <2>1. PICK i \in 1..u : p = written[i]
    BY DEF ThreadsInvAt, NetInv
  <2>2. i \in 1..Len(written)
    BY <1>2
  <2>3. p.seq_num = i - 1
    BY <2>1, <2>2 DEF ThreadsInvAt, Waiting
  <2>4. p \in DataPacket
    BY <2>1, <2>2, <1>2
  <2> QED BY <2>1, <2>3, <2>4, <1>2
<1>4. PICK w : w = written
  OBVIOUS
<1>5. /\ w \in Seq(DataPacket) /\ RcvInv(w) /\ u \in 0..Len(w)
      /\ \A n \in DOMAIN ooo_buffer : n < u
      /\ p.seq_num < u /\ p = w[p.seq_num + 1]
  BY <1>2, <1>3, <1>4 DEF ThreadsInvAt, NetInv
<1>6. RcvInv(w)' /\ Len(delivered) <= Len(delivered')
  BY <1>1, <1>2, <1>3, <1>5, ProcessSegmentStep
<1>7. MakingInv'
  BY <1>1 DEF MakingInv
<1>8. CASE delivered' = delivered
  BY <1>1, <1>7, <1>8
<1>9. CASE \E n \in 1..Len(w) : /\ n > Len(delivered) /\ w[n].is_fin
                                /\ delivered' = SubSeq(w, 1, n)
  <2>1. PICK n \in 1..Len(w) : /\ n > Len(delivered) /\ w[n].is_fin
                               /\ delivered' = SubSeq(w, 1, n)
    BY <1>9
  <2>2. PICK x \in Seq(DataPacket) :
            /\ x = w \o making /\ Len(x) >= Len(w) /\ Len(x) \in Nat
            /\ \A i \in 1..Len(w) : x[i] = w[i]
    <3>1. making \in Seq(DataPacket)
      <4>1. CASE pc["app"] = "append"
        BY <4>1 DEF ThreadsInvAt, Made
      <4>2. CASE pc["app"] # "append"
        BY <4>2, EmptySeq, Zenon DEF MakingInv
      <4> QED BY <4>1, <4>2
    <3>2. /\ w \o making \in Seq(DataPacket)
          /\ Len(w \o making) = Len(w) + Len(making)
          /\ \A i \in 1..Len(w) : (w \o making)[i] = w[i]
      BY <1>5, <3>1, ConcatElements
    <3>3. Len(w \o making) >= Len(w) /\ Len(w \o making) \in Nat
      BY <3>1, <3>2, <1>5, LenProperties
    <3> QED BY <3>2, <3>3, Zenon
  <2>3. n \in DOMAIN x /\ n \in 0..Len(w) /\ n \in 0..Len(x) /\ n \in Nat
    BY <2>2, <1>2, <1>4
  <2>4. SubSeq(w, 1, n) = SubSeq(x, 1, n)
    <3> DEFINE y == SubSeq(w, 1, n)
               z == SubSeq(x, 1, n)
    <3>1. /\ y \in Seq(DataPacket) /\ Len(y) = n
          /\ \A i \in 1..n : y[i] = w[i]
      BY <1>5, <2>3, PrefixElements
    <3>2. /\ z \in Seq(DataPacket) /\ Len(z) = n
          /\ \A i \in 1..n : z[i] = x[i]
      BY <2>2, <2>3, PrefixElements
    <3> HIDE DEF y, z
    <3>3. \A i \in 1..n : i \in 1..Len(w)
      BY <2>3, <1>2, <1>4
    <3>4. \A i \in 1..n : y[i] = z[i]
      BY <3>1, <3>2, <3>3, <2>2, Zenon
    <3>5. y = z
      BY <3>1, <3>2, <3>4, SeqEqual
    <3> QED BY <3>5 DEF y, z
  <2>5. x = written \o making /\ x[n].is_fin /\ UNCHANGED (written \o making)
    BY <2>1, <2>2, <1>1, <1>4
  <2>6. ThreadsStream!DeliverUpTo(n)
    BY <2>1, <2>4, <2>5 DEF ThreadsStream!DeliverUpTo
  <2>7. ThreadsStream!Deliver
    BY <2>3, <2>5, <2>6 DEF ThreadsStream!Deliver
  <2> QED BY <2>7, <1>7
<1> QED BY <1>5, <1>6, <1>8, <1>9, WholeDelivery

\* The two threads without a lock still refine the message stream: whatever the
\* interleaving, the peer's application gets whole messages, once and in the
\* order in which enqueue_data was called.
THEOREM ThreadsRefineMessageStream == ThreadsSpec => ThreadsStreamSafety
<1>1. ThreadsInit => ThreadsStream!StreamInit /\ MakingInv
  <2> SUFFICES ASSUME ThreadsInit PROVE ThreadsStream!StreamInit /\ MakingInv
    OBVIOUS
  <2>1. written = <<>> /\ making = <<>> /\ delivered = <<>>
    BY DEF ThreadsInit, Init, SndInit, RcvInit
  <2>2. written \o making = <<>>
    BY <2>1
  <2> QED BY <2>1, <2>2 DEF ThreadsStream!StreamInit, MakingInv
<1>2. ThreadsInv /\ MakingInv /\ [ThreadsNext]_tvars
      => MakingInv' /\ [ThreadsStream!StreamNext]_<<written \o making, delivered>>
  <2> DEFINE Stutter == UNCHANGED <<written \o making, delivered>>
             Goal == MakingInv' /\ (ThreadsStream!StreamNext \/ Stutter)
  <2> SUFFICES ASSUME ThreadsInv, MakingInv, [ThreadsNext]_tvars PROVE Goal
    OBVIOUS
  <2>1. PICK u : ThreadsInvAt(u)
    BY DEF ThreadsInv
  <2>2. ASSUME NEW len \in MessageLengths, Send(len) PROVE Goal
    <3>1. len \in Nat
      BY LengthsAssumption
    <3> QED BY <2>1, <2>2, <3>1, SendIsSend DEF ThreadsStream!StreamNext
  <2>3. CASE AppendChunk
    BY <2>1, <2>3, AppendChunkStutters
  <2>4. ASSUME NEW p \in data_net, PeerReceives(p) PROVE Goal
    BY <2>1, <2>4, PeerReceivesIsDeliver DEF ThreadsStream!StreamNext
  <2>5. ASSUME (\E t \in Threads : TrySendStep(t)) \/ ReceiveThreadStep \/ UNCHANGED tvars
        PROVE  Goal
    <3>1. UNCHANGED <<written, making, delivered>> /\ MakingInv'
      BY <2>1, <2>5, ThreadStutters, Zenon
    <3> QED BY <3>1
  <2>6. "app" \in Threads /\ "receive" \in Threads
    BY DEF Threads
  <2> HIDE DEF Goal
  <2> QED BY <2>2, <2>3, <2>4, <2>5, <2>6 DEF ThreadsNext, AppStep
<1> QED BY <1>1, <1>2, ThreadsInvariance, PTL DEF ThreadsSpec, ThreadsStreamSafety

=============================================================================
