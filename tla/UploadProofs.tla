---------------------------- MODULE UploadProofs ----------------------------
(***************************************************************************)
(* Uploads, for every file size, chunk size, number of clients, uploads and*)
(* files, and for both modes of the session manager.                       *)
(*                                                                         *)
(* First the session manager against chunks in any order (PeersSpec): what *)
(* is on disk is always a beginning of the upload.  The drain loop of      *)
(* _process_buffer is a recursive function; that it is defined, and where  *)
(* it stops, is shown by taking a greatest offset where it would not be.   *)
(*                                                                         *)
(* Then the clients that share files (Spec): every chunk on its way is the *)
(* one its session expects, because a client has one chunk of an upload    *)
(* under way at a time and no two clients ever hold the same upload.       *)
(***************************************************************************)
EXTENDS Upload, MCUploadSession, FiniteSetTheorems, TLAPS

\* Every nonempty set of naturals with an upper bound has a greatest element.
\* The intervals x..b, x in S, are finite sets, and strict inclusion of finite
\* sets is well-founded.
LEMMA GreatestOf ==
    ASSUME NEW b \in Nat, NEW S \in SUBSET (0..b), S # {}
    PROVE  /\ Max(S) \in S
           /\ \A x \in S : x <= Max(S)
<1> DEFINE T == {x..b : x \in S}
<1>1. T \subseteq FiniteSubsetsOf(Nat)
  <2> SUFFICES ASSUME NEW x \in S
               PROVE  x..b \in FiniteSubsetsOf(Nat)
    BY Zenon
  <2>1. x \in Nat
    OBVIOUS
  <2>2. IsFiniteSet(x..b)
    BY <2>1, FS_Interval
  <2> QED BY <2>1, <2>2 DEF FiniteSubsetsOf
<1>2. T # {}
  OBVIOUS
<1>3. PICK t \in T : \A u \in T : ~ (<<u, t>> \in StrictSubsetOrdering(Nat))
  BY <1>1, <1>2, FS_StrictSubsetOrderingWellFounded, WFMin, Zenon
<1>4. PICK m \in S : t = m..b
  OBVIOUS
<1>5. ASSUME NEW y \in S, y > m PROVE FALSE
  <2>1. /\ y..b \subseteq m..b
        /\ y..b # m..b
        /\ y..b \in SUBSET Nat
        /\ m..b \in SUBSET Nat
    BY <1>5
  <2>2. y..b \in T
    OBVIOUS
  <2>3. <<y..b, m..b>> \in StrictSubsetOrdering(Nat)
    BY <2>1, Zenon DEF StrictSubsetOrdering
  <2> QED BY <2>2, <2>3, <1>3, <1>4, Zenon
<1>6. \A y \in S : y <= m
  BY <1>5
<1> QED BY <1>6 DEF Max

\* Multiplication by a natural is monotonic.
LEMMA ProductsGrow ==
    ASSUME NEW i \in Nat, NEW j \in Nat, i <= j, NEW m \in Nat
    PROVE  i * m \in Nat /\ j * m \in Nat /\ i * m <= j * m
<1>1. PICK d \in Nat : j = i + d
  <2>1. j - i \in Nat /\ j = i + (j - i)
    OBVIOUS
  <2> QED BY <2>1
<1>2. j * m = i * m + d * m /\ i * m \in Nat /\ d * m \in Nat
  BY <1>1
<1> QED BY <1>2

-----------------------------------------------------------------------------
(***************************************************************************)
(* Where an upload is cut.                                                 *)
(***************************************************************************)

\* The length of a chunk is the chunk size or what remains.
LEMMA LengthIs ==
    ASSUME NEW s \in Nat, NEW o \in Nat, o < s
    PROVE  /\ Length(s, o) \in Nat \ {0}
           /\ Length(s, o) <= chunk_size
           /\ o + Length(s, o) <= s
           /\ Length(s, o) = chunk_size \/ o + Length(s, o) = s
<1>1. chunk_size \in Nat \ {0} /\ s - o \in Nat \ {0}
  BY ChunkSizeAssumption
<1>2. PICK m \in {chunk_size, s - o} : \A y \in {chunk_size, s - o} : m <= y
  BY <1>1
<1>3. \A n \in {chunk_size, s - o} :
          (\A y \in {chunk_size, s - o} : n <= y) => n = m
  BY <1>1, <1>2
<1>4. Length(s, o) = m
  BY <1>2, <1>3 DEF Length, Min
<1> QED BY <1>1, <1>2, <1>4

\* Two chunks are at least a chunk size apart.
LEMMA OffsetsApart ==
    ASSUME NEW s \in Nat, NEW o \in Offsets(s), NEW p \in Offsets(s), o < p
    PROVE  o + chunk_size <= p
<1>1. chunk_size \in Nat
  BY ChunkSizeAssumption
<1>2. s \div chunk_size \in Nat
  BY ChunkSizeAssumption
<1>3. PICK k \in Nat, j \in Nat : o = k * chunk_size /\ p = j * chunk_size
  <2>1. \A q \in Offsets(s) : \E i \in 0..(s \div chunk_size) : q = i * chunk_size
    BY Zenon DEF Offsets
  <2> QED BY <2>1, <1>2
<1>4. k < j
  <2> SUFFICES ASSUME j <= k PROVE FALSE
    OBVIOUS
  <2> QED BY <1>1, <1>3, ProductsGrow
<1>5. (k + 1) * chunk_size <= j * chunk_size
  BY <1>1, <1>4, ProductsGrow
<1>6. (k + 1) * chunk_size = k * chunk_size + chunk_size
  BY <1>1
<1> QED BY <1>3, <1>5, <1>6

\* The first chunk.
LEMMA FirstOffset ==
    ASSUME NEW s \in Nat, s > 0
    PROVE  0 \in Offsets(s)
<1>1. s \div chunk_size \in Nat /\ 0 = 0 * chunk_size
  BY ChunkSizeAssumption
<1>2. 0 \in 0..(s \div chunk_size) /\ 0 \in 0..(s - 1)
  BY <1>1
<1> QED BY <1>1, <1>2 DEF Offsets

\* A chunk ends where the next one begins, or with the file.
LEMMA NextOffset ==
    ASSUME NEW s \in Nat, NEW o \in Offsets(s)
    PROVE  /\ o \in Nat /\ o < s
           /\ Length(s, o) \in Nat \ {0} /\ Length(s, o) <= chunk_size
           /\ o + Length(s, o) <= s
           /\ o + Length(s, o) < s => o + Length(s, o) \in Offsets(s)
<1>1. chunk_size \in Nat \ {0}
  BY ChunkSizeAssumption
<1>2. PICK d \in Nat : d = s \div chunk_size /\ s < d * chunk_size + chunk_size
  <2>1. s \div chunk_size \in Nat /\ s < chunk_size * (s \div chunk_size) + chunk_size
    BY <1>1, SMTT(30)
  <2> QED BY <2>1, <1>1
<1>3. PICK k \in 0..d : o = k * chunk_size
  BY <1>2 DEF Offsets
<1>4. o \in Nat /\ o < s
  BY DEF Offsets
<1>5. /\ Length(s, o) \in Nat \ {0} /\ Length(s, o) <= chunk_size
      /\ o + Length(s, o) <= s
      /\ Length(s, o) = chunk_size \/ o + Length(s, o) = s
  BY <1>4, LengthIs
<1>6. ASSUME o + Length(s, o) < s
      PROVE  o + Length(s, o) \in Offsets(s)
  <2>1. o + Length(s, o) = (k + 1) * chunk_size
    BY <1>1, <1>3, <1>5, <1>6
  <2>2. k + 1 \in 0..d
    <3> SUFFICES ASSUME k >= d PROVE FALSE
      BY <1>2
    <3>1. (d + 1) * chunk_size <= (k + 1) * chunk_size
      BY <1>1, <1>2, ProductsGrow
    <3>2. (d + 1) * chunk_size = d * chunk_size + chunk_size
      BY <1>1, <1>2
    <3>3. d * chunk_size \in Nat /\ (k + 1) * chunk_size \in Nat
      BY <1>1, <1>2
    <3> QED BY <2>1, <3>1, <3>2, <3>3, <1>1, <1>2, <1>6
  <2>3. o + Length(s, o) \in 0..(s - 1)
    BY <1>4, <1>5, <1>6
  <2> QED BY <2>1, <2>2, <2>3, <1>2 DEF Offsets
<1> QED BY <1>4, <1>5, <1>6

-----------------------------------------------------------------------------
(***************************************************************************)
(* The drain loop.                                                         *)
(***************************************************************************)

\* Chunks of an upload of size s, by their offsets.
WellCut(b, s) ==
    /\ DOMAIN b \subseteq Offsets(s)
    /\ \A k \in DOMAIN b : b[k] = Length(s, k)

\* A buffered chunk ends within the file, beyond its beginning.
LEMMA WellCutEnds ==
    ASSUME NEW s \in 0..MAX_FILE_SIZE, NEW b, WellCut(b, s), NEW k \in DOMAIN b
    PROVE  /\ k \in Nat /\ k < s
           /\ b[k] \in Nat \ {0} /\ b[k] <= chunk_size
           /\ k + b[k] <= s
           /\ k + b[k] < s => k + b[k] \in Offsets(s)
           /\ k + b[k] \in 0..MAX_FILE_SIZE /\ k \in 0..MAX_FILE_SIZE
<1>1. k \in Offsets(s) /\ b[k] = Length(s, k) /\ s \in Nat
  BY SizeAssumption DEF WellCut
<1> QED BY <1>1, NextOffset, SizeAssumption

\* The function of the drain loop, from j on.
UnfoldsFrom(f, b, j) ==
    \A k \in j..MAX_FILE_SIZE :
        f[k] = IF k \in DOMAIN b THEN {k} \cup f[k + b[k]] ELSE {}

\* It can be defined one offset further down.
LEMMA DrainDownOne ==
    ASSUME NEW s \in 0..MAX_FILE_SIZE, NEW b, WellCut(b, s),
           NEW m \in 0..MAX_FILE_SIZE, NEW f, UnfoldsFrom(f, b, m + 1)
    PROVE  \E g : UnfoldsFrom(g, b, m)
<1>1. MAX_FILE_SIZE \in Nat
  BY SizeAssumption
<1>2. PICK first : first = IF m \in DOMAIN b THEN {m} \cup f[m + b[m]] ELSE {}
  BY Zenon
<1> DEFINE g == [k \in 0..MAX_FILE_SIZE |-> IF k = m THEN first ELSE f[k]]
<1>3. g[m] = first /\ \A k \in (m + 1)..MAX_FILE_SIZE : g[k] = f[k]
  BY <1>1
<1> HIDE DEF g
<1>4. ASSUME NEW k \in m..MAX_FILE_SIZE
      PROVE  g[k] = IF k \in DOMAIN b THEN {k} \cup g[k + b[k]] ELSE {}
  <2>1. k \in DOMAIN b => k + b[k] \in (m + 1)..MAX_FILE_SIZE
    BY <1>1, WellCutEnds
  <2>2. CASE k = m
    BY <2>1, <2>2, <1>2, <1>3
  <2>3. CASE k # m
    <3>1. k \in (m + 1)..MAX_FILE_SIZE
      BY <2>3, <1>1
    <3> QED BY <3>1, <2>1, <1>3 DEF UnfoldsFrom
  <2> QED BY <2>2, <2>3
<1> QED BY <1>4 DEF UnfoldsFrom

\* So it is defined everywhere.
LEMMA DrainDefined ==
    ASSUME NEW s \in 0..MAX_FILE_SIZE, NEW b, WellCut(b, s)
    PROVE  \E f : UnfoldsFrom(f, b, 0)
<1>1. MAX_FILE_SIZE \in Nat
  BY SizeAssumption
<1> DEFINE T == {j \in 0..(MAX_FILE_SIZE + 1) : ~ \E f : UnfoldsFrom(f, b, j)}
<1>2. MAX_FILE_SIZE + 1 \notin T
  <2>1. (MAX_FILE_SIZE + 1)..MAX_FILE_SIZE = {}
    BY <1>1
  <2> QED BY <2>1 DEF UnfoldsFrom
<1>3. CASE T # {}
  <2>1. T \in SUBSET (0..(MAX_FILE_SIZE + 1))
    OBVIOUS
  <2>2. Max(T) \in T /\ \A x \in T : x <= Max(T)
    <3>1. MAX_FILE_SIZE + 1 \in Nat
      BY <1>1
    <3> HIDE DEF T
    <3> QED BY <3>1, <1>3, <2>1, GreatestOf
  <2>3. PICK m \in T : \A x \in T : x <= m
    BY <2>2, Zenon
  <2>4. m \in 0..MAX_FILE_SIZE /\ m + 1 \in 0..(MAX_FILE_SIZE + 1) /\ m + 1 \notin T
    <3>1. m \in 0..(MAX_FILE_SIZE + 1) /\ m # MAX_FILE_SIZE + 1
      BY <1>2
    <3>2. m + 1 \notin T
      BY <2>3, <3>1
    <3> HIDE DEF T
    <3> QED BY <3>1, <3>2, <1>1
  <2>5. \E f : UnfoldsFrom(f, b, m + 1)
    BY <2>4
  <2>6. \E g : UnfoldsFrom(g, b, m)
    BY <2>4, <2>5, DrainDownOne
  <2> QED BY <2>6
<1>4. CASE T = {}
  <2>1. 0 \in 0..(MAX_FILE_SIZE + 1)
    BY <1>1
  <2> QED BY <1>4, <2>1
<1> QED BY <1>3, <1>4

\* One round of the drain loop.
LEMMA RunUnfolds ==
    ASSUME NEW s \in 0..MAX_FILE_SIZE, NEW b, WellCut(b, s),
           NEW n \in 0..MAX_FILE_SIZE
    PROVE  Run(b, n) = IF n \in DOMAIN b THEN {n} \cup Run(b, n + b[n]) ELSE {}
<1> DEFINE Body(f) == [k \in 0..MAX_FILE_SIZE |->
                          IF k \in DOMAIN b THEN {k} \cup f[k + b[k]] ELSE {}]
           run == CHOOSE f : f = Body(f)
<1>1. PICK f : UnfoldsFrom(f, b, 0)
  BY DrainDefined
<1>2. PICK h : h = [k \in 0..MAX_FILE_SIZE |-> f[k]]
  BY Zenon
<1>3. h = Body(h)
  <2>1. \A k \in 0..MAX_FILE_SIZE : k \in DOMAIN b => k + b[k] \in 0..MAX_FILE_SIZE
    BY WellCutEnds
  <2>2. ASSUME NEW k \in 0..MAX_FILE_SIZE
        PROVE  h[k] = IF k \in DOMAIN b THEN {k} \cup h[k + b[k]] ELSE {}
    BY <1>1, <1>2, <2>1 DEF UnfoldsFrom
  <2> QED BY <1>2, <2>2
<1>4. run = Body(run)
  BY <1>3
<1>5. \A m : Run(b, m) = run[m]
  BY DEF Run
<1> HIDE DEF run
<1>6. run[n] = IF n \in DOMAIN b THEN {n} \cup run[n + b[n]] ELSE {}
  BY <1>4
<1> QED BY <1>5, <1>6

\* Where a run from n ends: at r, which is the end of the file or the beginning
\* of a chunk that is not there; its chunks cover n..(r - 1).
Reaches(R, b, s, n, r) ==
    /\ r \in n..s
    /\ r = s \/ r \in Offsets(s)
    /\ r \notin DOMAIN b
    /\ R \subseteq DOMAIN b
    /\ \A k \in R : n <= k
    /\ R = {} => r = n
    /\ R # {} => \E last \in R : r = last + b[last] /\ \A k \in R : k <= last
    /\ \A x \in Nat :
          (\E k \in R : x \in k..(k + b[k] - 1)) <=> n <= x /\ x < r

\* A run that goes on from the end of its first chunk.
LEMMA RunContinues ==
    ASSUME NEW s \in 0..MAX_FILE_SIZE, NEW b, WellCut(b, s),
           NEW n \in DOMAIN b, NEW R, NEW r, Reaches(R, b, s, n + b[n], r)
    PROVE  Reaches({n} \cup R, b, s, n, r)
<1>1. /\ s \in Nat /\ n \in Nat /\ n < s /\ b[n] \in Nat \ {0} /\ n + b[n] <= s
  BY WellCutEnds, SizeAssumption
<1>2. PICK e \in Nat : e = n + b[n] /\ n < e
  BY <1>1
<1>3. r \in Nat /\ r \in e..s /\ r \in n..s
  BY <1>1, <1>2 DEF Reaches
<1>4. R \subseteq DOMAIN b /\ \A k \in R : k \in Nat /\ b[k] \in Nat /\ e <= k
  BY <1>2, WellCutEnds DEF Reaches
<1>5. \A k \in {n} \cup R : n <= k
  BY <1>1, <1>2, <1>4
<1>6. \E last \in {n} \cup R : r = last + b[last] /\ \A k \in {n} \cup R : k <= last
  <2>1. CASE R = {}
    <3>1. r = n + b[n]
      BY <2>1 DEF Reaches
    <3> QED BY <2>1, <3>1, <1>1
  <2>2. CASE R # {}
    <3>1. PICK last \in R : r = last + b[last] /\ \A k \in R : k <= last
      BY <2>2 DEF Reaches
    <3> QED BY <3>1, <1>1, <1>2, <1>4
  <2> QED BY <2>1, <2>2
<1>7. ASSUME NEW x \in Nat
      PROVE  (\E k \in {n} \cup R : x \in k..(k + b[k] - 1)) <=> n <= x /\ x < r
  <2>1. (\E k \in R : x \in k..(k + b[k] - 1)) <=> e <= x /\ x < r
    BY <1>2 DEF Reaches
  <2>2. x \in n..(n + b[n] - 1) <=> n <= x /\ x < e
    BY <1>1, <1>2
  <2>3. n <= x /\ x < r <=> (n <= x /\ x < e) \/ (e <= x /\ x < r)
    BY <1>1, <1>2, <1>3
  <2> QED BY <2>1, <2>2, <2>3
<1> QED BY <1>3, <1>4, <1>5, <1>6, <1>7 DEF Reaches

\* The drain loop, from wherever a chunk ends.
LEMMA RunReaches ==
    ASSUME NEW s \in 0..MAX_FILE_SIZE, NEW b, WellCut(b, s),
           NEW n \in 0..s, n = s \/ n \in Offsets(s)
    PROVE  \E r : Reaches(Run(b, n), b, s, n, r)
<1>1. MAX_FILE_SIZE \in Nat /\ s \in Nat
  BY SizeAssumption
<1> DEFINE Cut == {k \in 0..s : k = s \/ k \in Offsets(s)}
           T == {k \in Cut : ~ \E r : Reaches(Run(b, k), b, s, k, r)}
<1>2. CASE T # {}
  <2>1. Max(T) \in T /\ \A x \in T : x <= Max(T)
    <3>1. T \in SUBSET (0..s)
      OBVIOUS
    <3> HIDE DEF T
    <3> QED BY <3>1, <1>1, <1>2, GreatestOf
  <2>2. PICK m \in T : \A x \in T : x <= m
    BY <2>1, Zenon
  <2>3. m \in 0..s /\ m \in 0..MAX_FILE_SIZE /\ (m = s \/ m \in Offsets(s))
    BY <1>1
  <2>4. Run(b, m) = IF m \in DOMAIN b THEN {m} \cup Run(b, m + b[m]) ELSE {}
    BY <2>3, RunUnfolds
  <2>5. CASE m \notin DOMAIN b
    <3>1. Run(b, m) = {}
      BY <2>4, <2>5
    <3>2. \A x \in Nat : ~ (m <= x /\ x < m)
      BY <2>3
    <3>3. Reaches({}, b, s, m, m)
      BY <2>3, <2>5, <3>2 DEF Reaches
    <3> QED BY <3>1, <3>3
  <2>6. CASE m \in DOMAIN b
    <3>1. m + b[m] \in Cut /\ m + b[m] > m
      BY <2>6, <1>1, WellCutEnds
    <3>2. m + b[m] \notin T
      <4> HIDE DEF T
      <4> QED BY <2>2, <2>3, <3>1
    <3>3. PICK r : Reaches(Run(b, m + b[m]), b, s, m + b[m], r)
      BY <3>1, <3>2
    <3>4. Reaches(Run(b, m), b, s, m, r)
      BY <2>4, <2>6, <3>3, RunContinues
    <3> QED BY <3>4
  <2> QED BY <2>5, <2>6
<1>3. CASE T = {}
  <2>1. n \in Cut
    OBVIOUS
  <2> QED BY <1>3, <2>1
<1> QED BY <1>2, <1>3

-----------------------------------------------------------------------------
(***************************************************************************)
(* The operations of the session manager.                                  *)
(***************************************************************************)

\* A beginning of an upload, continued.
LEMMA WrittenPrefix ==
    ASSUME NEW u, NEW o \in Nat, NEW r \in Nat, o < r
    PROVE  Written(Bytes(u, o), u, o..(r - 1)) = Bytes(u, r)
<1> DEFINE E == {Len(Bytes(u, o))} \cup {x + 1 : x \in o..(r - 1)}
<1>1. Len(Bytes(u, o)) = o /\ \A i \in 1..o : Bytes(u, o)[i] = <<u, i - 1>>
  BY DEF Bytes
<1>2. E \in SUBSET (0..r) /\ r \in E
  <2>1. \A x \in o..(r - 1) : x + 1 \in 0..r
    OBVIOUS
  <2>2. r - 1 \in o..(r - 1) /\ r = (r - 1) + 1
    OBVIOUS
  <2>3. o \in 0..r
    OBVIOUS
  <2> QED BY <1>1, <2>1, <2>2, <2>3
<1> HIDE DEF E
<1>3. Max(E) = r
  <2>1. Max(E) \in E /\ \A x \in E : x <= Max(E)
    BY <1>2, GreatestOf
  <2>2. PICK m : m = Max(E)
    BY Zenon
  <2>3. m \in 0..r /\ r <= m
    <3>1. m \in E /\ \A x \in E : x <= m
      BY <2>1, <2>2, Zenon
    <3> QED BY <3>1, <1>2
  <2>4. m = r
    BY <2>3
  <2> QED BY <2>2, <2>4, Zenon
<1>4. ASSUME NEW i \in 1..r
      PROVE  (IF i - 1 \in o..(r - 1) THEN <<u, i - 1>>
              ELSE IF i \in 1..Len(Bytes(u, o)) THEN Bytes(u, o)[i]
              ELSE Zero) = <<u, i - 1>>
  BY <1>1
<1>5. Written(Bytes(u, o), u, o..(r - 1)) =
          [i \in 1..r |-> IF i - 1 \in o..(r - 1) THEN <<u, i - 1>>
                          ELSE IF i \in 1..Len(Bytes(u, o)) THEN Bytes(u, o)[i]
                          ELSE Zero]
  BY <1>3, Zenon DEF Written, E
<1> QED BY <1>4, <1>5 DEF Bytes

Chunks == UNION {[D -> Nat] : D \in SUBSET (0..MAX_FILE_SIZE)}

Session ==
    [filename : Filenames, total_size : 0..MAX_FILE_SIZE,
     next_expected_offset : 0..MAX_FILE_SIZE, buffered_chunks : Chunks]

\* An open session: its buffered chunks are chunks of the upload that lie ahead
\* of the expected offset, which is the beginning of a chunk.
SessionOK(t) ==
    /\ t \in Session
    /\ WellCut(t.buffered_chunks, t.total_size)
    /\ \A k \in DOMAIN t.buffered_chunks : k > t.next_expected_offset
    /\ upload_mode = "STRICT" => DOMAIN t.buffered_chunks = {}
    /\ t.total_size = 0 => t.next_expected_offset = 0
    /\ t.total_size > 0 => t.next_expected_offset \in Offsets(t.total_size)

SessionsInv ==
    /\ SessionTypeOK
    /\ \A u \in DOMAIN sessions : SessionOK(sessions[u])

\* What CreateSession does, whether or not it overwrites.
Created(u, f, n) ==
    /\ u \in UploadIds \ used
    /\ n <= MAX_FILE_SIZE
    /\ used' = used \cup {u}
    /\ files' = Emptied(f)
    /\ sessions' = [v \in DOMAIN sessions \cup {u} |->
                      IF v = u
                      THEN [filename |-> f, total_size |-> n,
                            next_expected_offset |-> 0, buffered_chunks |-> <<>>]
                      ELSE sessions[v]]

\* The state after it.
CreateResult(u, f, n) ==
    /\ u \notin used /\ u \in UploadIds /\ n <= MAX_FILE_SIZE
    /\ used' = used \cup {u}
    /\ DOMAIN sessions' = DOMAIN sessions \cup {u}
    /\ sessions'[u].filename = f /\ sessions'[u].total_size = n
    /\ sessions'[u].next_expected_offset = 0
    /\ \A k : k \notin DOMAIN sessions'[u].buffered_chunks
    /\ \A v \in DOMAIN sessions : v # u /\ sessions'[v] = sessions[v]
    /\ DOMAIN files' = DOMAIN files \cup {f}
    /\ files'[f] = Bytes(u, 0)
    /\ \A g \in DOMAIN files : g # f => files'[g] = files[g]

\* A session is opened.
LEMMA CreateStep ==
    ASSUME SessionsInv, NEW u, NEW f \in Filenames, NEW n \in Nat, Created(u, f, n)
    PROVE  SessionsInv' /\ CreateResult(u, f, n)
<1>1. /\ u \in UploadIds /\ u \notin used /\ n <= MAX_FILE_SIZE
      /\ used' = used \cup {u}
      /\ files' = Emptied(f)
  BY DEF Created
<1>2. PICK t : t = [filename |-> f, total_size |-> n,
                    next_expected_offset |-> 0, buffered_chunks |-> <<>>]
  BY Zenon
<1>3. sessions' = [v \in DOMAIN sessions \cup {u} |->
                      IF v = u THEN t ELSE sessions[v]]
  BY <1>2, Zenon DEF Created
<1>4. DOMAIN sessions \subseteq used /\ used \subseteq UploadIds
  BY DEF SessionsInv, SessionTypeOK
<1>5. /\ DOMAIN sessions' = DOMAIN sessions \cup {u}
      /\ sessions'[u] = t
      /\ \A v \in DOMAIN sessions : v # u /\ sessions'[v] = sessions[v]
  BY <1>1, <1>3, <1>4
<1>6. <<>> = Bytes(u, 0)
  BY DEF Bytes
<1>7. /\ DOMAIN files' = DOMAIN files \cup {f}
      /\ files'[f] = Bytes(u, 0)
      /\ \A g \in DOMAIN files : g # f => files'[g] = files[g]
  BY <1>1, <1>6 DEF Emptied
<1>8. SessionOK(t)
  <2>1. n \in 0..MAX_FILE_SIZE /\ 0 \in 0..MAX_FILE_SIZE
    BY <1>1, SizeAssumption
  <2>2. /\ t.filename = f /\ t.total_size = n /\ t.next_expected_offset = 0
        /\ t.buffered_chunks = <<>> /\ DOMAIN t.buffered_chunks = {}
    BY <1>2
  <2>3. <<>> \in Chunks
    <3>1. <<>> \in [{} -> Nat]
      OBVIOUS
    <3>2. {} \in SUBSET (0..MAX_FILE_SIZE)
      OBVIOUS
    <3> QED BY <3>1, <3>2, Zenon DEF Chunks
  <2>4. t \in Session
    BY <1>2, <2>1, <2>3 DEF Session
  <2>5. n > 0 => 0 \in Offsets(n)
    BY FirstOffset
  <2> QED BY <2>1, <2>2, <2>4, <2>5 DEF SessionOK, WellCut
<1>9. \A v \in DOMAIN sessions' : SessionOK(sessions'[v])
  BY <1>5, <1>8 DEF SessionsInv
<1>10. SessionTypeOK'
  <2>1. \A v \in DOMAIN sessions' : sessions'[v].filename \in DOMAIN files'
    BY <1>2, <1>5, <1>7 DEF SessionsInv, SessionTypeOK
  <2>2. \A v \in DOMAIN sessions' :
          /\ sessions'[v].total_size \in 0..MAX_FILE_SIZE
          /\ sessions'[v].next_expected_offset \in 0..MAX_FILE_SIZE
          /\ DOMAIN sessions'[v].buffered_chunks \subseteq 0..MAX_FILE_SIZE
    BY <1>9 DEF SessionOK, Session, Chunks
  <2>3. DOMAIN sessions' \subseteq used' /\ used' \subseteq UploadIds
        /\ DOMAIN files' \subseteq Filenames
    BY <1>1, <1>4, <1>5, <1>7 DEF SessionsInv, SessionTypeOK
  <2> QED BY <2>1, <2>2, <2>3 DEF SessionTypeOK
<1>11. SessionsInv'
  BY <1>9, <1>10, Zenon DEF SessionsInv
<1>12. /\ t.filename = f /\ t.total_size = n /\ t.next_expected_offset = 0
       /\ \A k : k \notin DOMAIN t.buffered_chunks
  BY <1>2
<1> QED BY <1>1, <1>5, <1>7, <1>11, <1>12, Zenon DEF CreateResult

\* What the drain loop writes after the chunk that ends at n.
LEMMA DrainReaches ==
    ASSUME SessionsInv, NEW u \in DOMAIN sessions, NEW n \in 0..sessions[u].total_size,
           n = sessions[u].total_size \/ n \in Offsets(sessions[u].total_size)
    PROVE  \E r : /\ Reaches(Drained(u, n), sessions[u].buffered_chunks,
                             sessions[u].total_size, n, r)
                  /\ Reached(u, n) = r
<1>1. PICK t : t = sessions[u]
  BY Zenon
<1>2. PICK s, b : s = t.total_size /\ b = t.buffered_chunks
  BY Zenon
<1>3. SessionOK(t)
  BY <1>1 DEF SessionsInv
<1>4. /\ s \in 0..MAX_FILE_SIZE /\ WellCut(b, s) /\ DOMAIN b \subseteq 0..MAX_FILE_SIZE
      /\ upload_mode = "STRICT" => DOMAIN b = {}
  <2>1. s \in 0..MAX_FILE_SIZE /\ b \in Chunks
    BY <1>2, <1>3 DEF SessionOK, Session
  <2>2. WellCut(b, s) /\ (upload_mode = "STRICT" => DOMAIN b = {})
    BY <1>2, <1>3 DEF SessionOK
  <2> QED BY <2>1, <2>2 DEF Chunks
<1>5. n \in 0..s /\ (n = s \/ n \in Offsets(s))
  BY <1>1, <1>2
<1>6. PICK R : R = Drained(u, n)
  BY Zenon
<1>7. PICK r : Reaches(R, b, s, n, r)
  <2>1. CASE upload_mode = "BUFFERABLE"
    <3>1. R = Run(b, n)
      BY <2>1, <1>1, <1>2, <1>6 DEF Drained
    <3> QED BY <3>1, <1>4, <1>5, RunReaches
  <2>2. CASE upload_mode = "STRICT"
    <3>1. R = {} /\ DOMAIN b = {}
      BY <2>2, <1>4, <1>6 DEF Drained
    <3>2. \A x \in Nat : ~ (n <= x /\ x < n)
      BY <1>5
    <3>3. n \in n..s
      BY <1>4, <1>5, SizeAssumption
    <3>4. Reaches(R, b, s, n, n)
      BY <3>1, <3>2, <3>3, <1>5 DEF Reaches
    <3> QED BY <3>4
  <2> QED BY <2>1, <2>2, ModeAssumption
<1>8. Reached(u, n) = IF R = {} THEN n ELSE Max(R) + b[Max(R)]
  BY <1>1, <1>2, <1>6, Zenon DEF Reached
<1>9. Reached(u, n) = r
  <2>1. CASE R = {}
    BY <2>1, <1>7, <1>8 DEF Reaches
  <2>2. CASE R # {}
    <3>1. R \in SUBSET (0..MAX_FILE_SIZE)
      BY <1>4, <1>7 DEF Reaches
    <3>2. Max(R) \in R /\ \A x \in R : x <= Max(R)
      BY <2>2, <3>1, SizeAssumption, GreatestOf
    <3>3. PICK last \in R : r = last + b[last] /\ \A k \in R : k <= last
      BY <2>2, <1>7 DEF Reaches
    <3>4. PICK m \in R : m = Max(R) /\ \A x \in R : x <= m
      BY <3>2, Zenon
    <3>5. m = last
      BY <3>1, <3>3, <3>4
    <3> QED BY <2>2, <3>3, <3>4, <3>5, <1>8, Zenon
  <2> QED BY <2>1, <2>2
<1> QED BY <1>1, <1>2, <1>6, <1>7, <1>9, Zenon

\* What is written is one piece of the upload.
LEMMA ExtentIs ==
    ASSUME SessionsInv, NEW u \in DOMAIN sessions, NEW o \in Nat, NEW len \in Nat \ {0},
           NEW r \in Nat,
           Reaches(Drained(u, o + len), sessions[u].buffered_chunks,
                   sessions[u].total_size, o + len, r)
    PROVE  Extent(u, o, len) = o..(r - 1)
<1>1. PICK R, b : R = Drained(u, o + len) /\ b = sessions[u].buffered_chunks
  BY Zenon
<1>2. PICK s : s = sessions[u].total_size
  BY Zenon
<1>3. SessionOK(sessions[u])
  BY DEF SessionsInv
<1>4. s \in 0..MAX_FILE_SIZE /\ WellCut(b, s)
  BY <1>1, <1>2, <1>3 DEF SessionOK, Session
<1>5. Reaches(R, b, s, o + len, r)
  BY <1>1, <1>2, Zenon
<1>6. /\ r >= o + len
      /\ \A k \in R : k \in Nat /\ b[k] \in Nat
      /\ \A x \in Nat : (\E k \in R : x \in k..(k + b[k] - 1)) <=> o + len <= x /\ x < r
  BY <1>4, <1>5, WellCutEnds DEF Reaches
<1>7. Extent(u, o, len) = o..(o + len - 1) \cup UNION {k..(k + b[k] - 1) : k \in R}
  BY <1>1, Zenon DEF Extent
<1>8. \A x : x \in UNION {k..(k + b[k] - 1) : k \in R} <=>
             x \in Nat /\ o + len <= x /\ x < r
  <2>1. \A x : x \in UNION {k..(k + b[k] - 1) : k \in R} <=>
                \E k \in R : x \in k..(k + b[k] - 1)
    BY Zenon
  <2>2. \A x : (\E k \in R : x \in k..(k + b[k] - 1)) => x \in Nat
    BY <1>6
  <2> QED BY <2>1, <2>2, <1>6
<1>9. \A x : x \in o..(r - 1) <=> x \in o..(o + len - 1) \/ (x \in Nat /\ o + len <= x /\ x < r)
  BY <1>6
<1> QED BY <1>7, <1>8, <1>9

\* What the expected chunk does: the upload grows to r, and the session is
\* deleted when r is the end.
WriteResult(u, t, r) ==
    /\ r \in Nat /\ t.next_expected_offset < r /\ r <= t.total_size
    /\ used' = used
    /\ files' = [files EXCEPT ![t.filename] =
                    Written(@, u, t.next_expected_offset..(r - 1))]
    /\ \A v \in DOMAIN sessions \ {u} : v \in DOMAIN sessions' /\ sessions'[v] = sessions[v]
    /\ r = t.total_size => DOMAIN sessions' = DOMAIN sessions \ {u}
    /\ r # t.total_size =>
          /\ DOMAIN sessions' = DOMAIN sessions
          /\ sessions'[u].filename = t.filename
          /\ sessions'[u].total_size = t.total_size
          /\ sessions'[u].next_expected_offset = r
          /\ DOMAIN sessions'[u].buffered_chunks \subseteq DOMAIN t.buffered_chunks

\* The session after the chunks up to r were written.
Advanced(t, r, R) ==
    [t EXCEPT !.next_expected_offset = r,
              !.buffered_chunks = Restrict(@, DOMAIN @ \ R)]

\* Its chunks lie ahead of r: they are chunks of the same upload and not below
\* the end of the first one written, and those up to r have been written.
LEMMA AdvancedOK ==
    ASSUME NEW t, SessionOK(t), t.next_expected_offset \in Offsets(t.total_size),
           NEW R, NEW r,
           Reaches(R, t.buffered_chunks, t.total_size,
                   t.next_expected_offset + Length(t.total_size, t.next_expected_offset), r),
           r # t.total_size
    PROVE  /\ SessionOK(Advanced(t, r, R))
           /\ Advanced(t, r, R).filename = t.filename
           /\ Advanced(t, r, R).total_size = t.total_size
           /\ Advanced(t, r, R).next_expected_offset = r
           /\ DOMAIN Advanced(t, r, R).buffered_chunks \subseteq DOMAIN t.buffered_chunks
<1>1. PICK s, b, o : s = t.total_size /\ b = t.buffered_chunks /\ o = t.next_expected_offset
  BY Zenon
<1>2. PICK c : c = Restrict(b, DOMAIN b \ R)
  BY Zenon
<1>3. PICK a : a = Advanced(t, r, R)
  BY Zenon
<1>4. t \in Session /\ s \in 0..MAX_FILE_SIZE /\ s \in Nat /\ o \in 0..MAX_FILE_SIZE /\ b \in Chunks
  BY <1>1, SizeAssumption DEF SessionOK, Session
<1>5. /\ DOMAIN a = DOMAIN t
      /\ a.filename = t.filename /\ a.total_size = s
      /\ a.next_expected_offset = r /\ a.buffered_chunks = c
      /\ a = [filename |-> t.filename, total_size |-> s,
              next_expected_offset |-> r, buffered_chunks |-> c]
  BY <1>1, <1>2, <1>3, <1>4 DEF Advanced, Session
<1>6. /\ DOMAIN c = DOMAIN b \ R /\ \A k \in DOMAIN c : c[k] = b[k]
  BY <1>2 DEF Restrict
<1>7. /\ WellCut(b, s) /\ \A k \in DOMAIN b : k > o
      /\ upload_mode = "STRICT" => DOMAIN b = {}
  BY <1>1 DEF SessionOK
<1>8. PICK n : n = o + Length(s, o)
  BY Zenon
<1>9. /\ o \in Nat /\ n \in Nat /\ n <= o + chunk_size /\ n <= s
      /\ chunk_size \in Nat
  BY <1>1, <1>4, <1>8, NextOffset, ChunkSizeAssumption
<1>10. Reaches(R, b, s, n, r)
  BY <1>1, <1>8, Zenon
<1>11. r \in Nat /\ r < s /\ r \in Offsets(s) /\ r \in 0..MAX_FILE_SIZE
  BY <1>1, <1>4, <1>9, <1>10, SizeAssumption DEF Reaches
<1>12. ASSUME NEW k \in DOMAIN c PROVE k > r
  <2>1. k \in DOMAIN b /\ k \notin R /\ k \in Offsets(s) /\ k \in Nat /\ k > o
    BY <1>4, <1>6, <1>7, WellCutEnds DEF WellCut
  <2>2. n <= k
    <3>1. o + chunk_size <= k
      BY <1>1, <1>4, <1>9, <2>1, OffsetsApart
    <3> QED BY <3>1, <1>9, <2>1
  <2>3. k # r
    BY <2>1, <1>10 DEF Reaches
  <2>4. ASSUME k < r PROVE FALSE
    <3>1. PICK j \in R : k \in j..(j + b[j] - 1)
      BY <2>1, <2>2, <2>4, <1>10 DEF Reaches
    <3>2. j \in DOMAIN b /\ j \in Offsets(s) /\ j \in Nat /\ b[j] \in Nat /\ b[j] <= chunk_size
      BY <3>1, <1>4, <1>7, <1>10, WellCutEnds DEF WellCut, Reaches
    <3>3. j < k
      BY <2>1, <3>1, <3>2
    <3>4. j + chunk_size <= k
      BY <1>4, <2>1, <3>2, <3>3, OffsetsApart
    <3> QED BY <3>1, <3>2, <3>4, <2>1, <1>9
  <2> QED BY <2>1, <2>3, <2>4, <1>11
<1>13. c \in Chunks
  <2>1. DOMAIN c \in SUBSET (0..MAX_FILE_SIZE) /\ \A k \in DOMAIN c : c[k] \in Nat
    BY <1>4, <1>6 DEF Chunks
  <2>2. c \in [DOMAIN c -> Nat]
    <3>1. c = [k \in DOMAIN b \ R |-> b[k]]
      BY <1>2 DEF Restrict
    <3> QED BY <3>1, <2>1
  <2> QED BY <2>1, <2>2, Zenon DEF Chunks
<1>14. a \in Session
  <2>1. t.filename \in Filenames
    BY <1>4 DEF Session
  <2> QED BY <1>4, <1>5, <1>11, <1>13, <2>1 DEF Session
<1>15. WellCut(c, s)
  BY <1>6, <1>7 DEF WellCut
<1>16. SessionOK(a)
  <2>1. s # 0
    BY <1>11
  <2>2. upload_mode = "STRICT" => DOMAIN c = {}
    BY <1>6, <1>7
  <2> QED BY <2>1, <2>2, <1>5, <1>11, <1>12, <1>14, <1>15 DEF SessionOK
<1> QED BY <1>1, <1>3, <1>5, <1>6, <1>16

\* Where every other session is left alone, the type invariant is kept.
LEMMA TypesKept ==
    ASSUME SessionsInv, used' = used, DOMAIN files' = DOMAIN files,
           DOMAIN sessions' \subseteq DOMAIN sessions,
           NEW u,
           \A v \in DOMAIN sessions' : v # u => sessions'[v] = sessions[v],
           u \in DOMAIN sessions' =>
              SessionOK(sessions'[u]) /\ sessions'[u].filename = sessions[u].filename
    PROVE  SessionsInv'
<1>1. \A v \in DOMAIN sessions' :
        SessionOK(sessions'[v]) /\ sessions'[v].filename = sessions[v].filename
  BY DEF SessionsInv
<1>2. \A v \in DOMAIN sessions' :
          /\ sessions'[v].total_size \in 0..MAX_FILE_SIZE
          /\ sessions'[v].next_expected_offset \in 0..MAX_FILE_SIZE
          /\ DOMAIN sessions'[v].buffered_chunks \subseteq 0..MAX_FILE_SIZE
  BY <1>1 DEF SessionOK, Session, Chunks
<1>3. \A v \in DOMAIN sessions' : sessions'[v].filename \in DOMAIN files'
  BY <1>1 DEF SessionsInv, SessionTypeOK
<1>4. SessionTypeOK'
  BY <1>2, <1>3 DEF SessionsInv, SessionTypeOK
<1> QED BY <1>1, <1>4, Zenon DEF SessionsInv

\* The expected chunk is written.
LEMMA WriteStep ==
    ASSUME SessionsInv, NEW u \in DOMAIN sessions, NEW o, NEW len,
           o < sessions[u].total_size, len = Length(sessions[u].total_size, o),
           WriteChunk(u, o, len)
    PROVE  /\ SessionsInv'
           /\ \E r : /\ WriteResult(u, sessions[u], r)
                     /\ DOMAIN sessions[u].buffered_chunks = {} => r = o + len
<1>1. PICK t : t = sessions[u]
  BY Zenon
<1>2. o = t.next_expected_offset /\ used' = used
  BY <1>1 DEF WriteChunk
<1>3. PICK s : s = t.total_size
  BY Zenon
<1>4. SessionOK(t) /\ t \in Session
  BY <1>1 DEF SessionsInv, SessionOK
<1>5. s \in 0..MAX_FILE_SIZE /\ s \in Nat /\ o \in Nat
  BY <1>2, <1>3, <1>4, SizeAssumption DEF Session
<1>6. s > 0 /\ o \in Offsets(s)
  BY <1>1, <1>2, <1>3, <1>4, <1>5 DEF SessionOK
<1>7. len \in Nat \ {0} /\ len = Length(s, o) /\ o + len \in 0..s
      /\ (o + len = s \/ o + len \in Offsets(s))
  BY <1>1, <1>3, <1>5, <1>6, NextOffset
<1>8. PICK R : R = Drained(u, o + len)
  BY Zenon
<1>9. PICK r : Reaches(R, t.buffered_chunks, s, o + len, r) /\ Reached(u, o + len) = r
  BY <1>1, <1>3, <1>7, <1>8, DrainReaches
<1>10. r \in Nat /\ o < r /\ r <= s
  BY <1>5, <1>7, <1>9 DEF Reaches
<1>11. Extent(u, o, len) = o..(r - 1)
  BY <1>1, <1>3, <1>5, <1>7, <1>8, <1>9, <1>10, ExtentIs
<1>12. files' = [files EXCEPT ![t.filename] = Written(@, u, o..(r - 1))]
  BY <1>1, <1>11 DEF WriteChunk
<1>13. sessions' = IF r = s THEN Restrict(sessions, DOMAIN sessions \ {u})
                   ELSE [sessions EXCEPT
                           ![u].next_expected_offset = r,
                           ![u].buffered_chunks = Restrict(@, DOMAIN @ \ R)]
  BY <1>1, <1>3, <1>8, <1>9 DEF WriteChunk, Finished
<1>14. DOMAIN t.buffered_chunks = {} => r = o + len
  BY <1>9 DEF Reaches
<1>15. CASE r = s
  <2>1. DOMAIN sessions' = DOMAIN sessions \ {u}
        /\ \A v \in DOMAIN sessions \ {u} : sessions'[v] = sessions[v]
    BY <1>13, <1>15 DEF Restrict
  <2>2. DOMAIN files' = DOMAIN files
    BY <1>12
  <2>3. SessionsInv'
    BY <2>1, <2>2, <1>2, TypesKept
  <2>4. WriteResult(u, t, r)
    BY <2>1, <1>2, <1>3, <1>10, <1>12, <1>15 DEF WriteResult
  <2> QED BY <2>3, <2>4, <1>1, <1>14
<1>16. CASE r # s
  <2>1. sessions' = [sessions EXCEPT ![u] = Advanced(t, r, R)]
    BY <1>1, <1>13, <1>16 DEF Advanced
  <2>2. DOMAIN sessions' = DOMAIN sessions /\ sessions'[u] = Advanced(t, r, R)
        /\ \A v \in DOMAIN sessions \ {u} : sessions'[v] = sessions[v]
    BY <2>1
  <2>3. /\ SessionOK(Advanced(t, r, R))
        /\ Advanced(t, r, R).filename = t.filename
        /\ Advanced(t, r, R).total_size = t.total_size
        /\ Advanced(t, r, R).next_expected_offset = r
        /\ DOMAIN Advanced(t, r, R).buffered_chunks \subseteq DOMAIN t.buffered_chunks
    <3>1. /\ t.next_expected_offset \in Offsets(t.total_size) /\ r # t.total_size
          /\ Reaches(R, t.buffered_chunks, t.total_size,
                t.next_expected_offset + Length(t.total_size, t.next_expected_offset), r)
      BY <1>2, <1>3, <1>6, <1>7, <1>9, <1>16, Zenon
    <3> QED BY <3>1, <1>4, AdvancedOK, Zenon
  <2>4. DOMAIN files' = DOMAIN files
    BY <1>12
  <2>5. SessionsInv'
    <3>1. SessionOK(sessions'[u]) /\ sessions'[u].filename = sessions[u].filename
      BY <2>2, <2>3, <1>1, Zenon
    <3> QED BY <2>2, <2>4, <3>1, <1>2, TypesKept
  <2>6. WriteResult(u, t, r)
    BY <2>2, <2>3, <1>2, <1>3, <1>10, <1>12, <1>16 DEF WriteResult
  <2> QED BY <2>5, <2>6, <1>1, <1>14
<1> QED BY <1>15, <1>16

\* A chunk that lies ahead is kept.
LEMMA BufferStep ==
    ASSUME SessionsInv, NEW u \in DOMAIN sessions,
           NEW o \in Offsets(sessions[u].total_size), NEW len,
           len = Length(sessions[u].total_size, o),
           BufferChunk(u, o, len)
    PROVE  /\ SessionsInv'
           /\ used' = used /\ files' = files /\ DOMAIN sessions' = DOMAIN sessions
           /\ \A v \in DOMAIN sessions :
                 /\ sessions'[v].filename = sessions[v].filename
                 /\ sessions'[v].total_size = sessions[v].total_size
                 /\ sessions'[v].next_expected_offset = sessions[v].next_expected_offset
<1>1. PICK t : t = sessions[u]
  BY Zenon
<1>2. PICK s, b : s = t.total_size /\ b = t.buffered_chunks
  BY Zenon
<1>3. SessionOK(t) /\ t \in Session
  BY <1>1 DEF SessionsInv, SessionOK
<1>4. s \in 0..MAX_FILE_SIZE /\ s \in Nat /\ b \in Chunks
  BY <1>2, <1>3, SizeAssumption DEF Session
<1>5. PICK c : c = [k \in DOMAIN b \cup {o} |-> IF k = o THEN len ELSE b[k]]
  BY Zenon
<1>6. /\ upload_mode = "BUFFERABLE" /\ o > t.next_expected_offset
      /\ files' = files /\ used' = used
      /\ sessions' = [sessions EXCEPT ![u].buffered_chunks = c]
  BY <1>1, <1>2, <1>5 DEF BufferChunk
<1>7. PICK a : a = [t EXCEPT !.buffered_chunks = c]
  BY Zenon
<1>8. /\ a.filename = t.filename /\ a.total_size = s
      /\ a.next_expected_offset = t.next_expected_offset /\ a.buffered_chunks = c
      /\ a = [filename |-> t.filename, total_size |-> s,
              next_expected_offset |-> t.next_expected_offset, buffered_chunks |-> c]
  BY <1>2, <1>3, <1>7 DEF Session
<1>9. DOMAIN sessions' = DOMAIN sessions /\ sessions'[u] = a
      /\ \A v \in DOMAIN sessions \ {u} : sessions'[v] = sessions[v]
  BY <1>1, <1>6, <1>7
<1>10. o \in Nat /\ o < s /\ o \in Offsets(s) /\ len = Length(s, o) /\ len \in Nat
  BY <1>1, <1>2, <1>4, NextOffset
<1>11. DOMAIN c = DOMAIN b \cup {o} /\ c[o] = len
       /\ \A k \in DOMAIN b : k # o => c[k] = b[k]
  BY <1>5
<1>12. WellCut(c, s)
  BY <1>2, <1>3, <1>10, <1>11 DEF SessionOK, WellCut
<1>13. c \in Chunks
  <2>1. DOMAIN b \in SUBSET (0..MAX_FILE_SIZE) /\ \A k \in DOMAIN b : b[k] \in Nat
    BY <1>4 DEF Chunks
  <2>2. DOMAIN b \cup {o} \in SUBSET (0..MAX_FILE_SIZE)
    BY <2>1, <1>4, <1>10, SizeAssumption
  <2>3. c \in [DOMAIN b \cup {o} -> Nat]
    BY <2>1, <1>5, <1>10
  <2> QED BY <2>2, <2>3, Zenon DEF Chunks
<1>14. a \in Session
  <2>1. t.filename \in Filenames /\ t.next_expected_offset \in 0..MAX_FILE_SIZE
    BY <1>3 DEF Session
  <2> QED BY <2>1, <1>4, <1>8, <1>13 DEF Session
<1>15. SessionOK(a)
  <2>1. \A k \in DOMAIN c : k > a.next_expected_offset
    BY <1>2, <1>3, <1>6, <1>8, <1>11 DEF SessionOK
  <2>2. /\ a.total_size = 0 => a.next_expected_offset = 0
        /\ a.total_size > 0 => a.next_expected_offset \in Offsets(a.total_size)
    BY <1>2, <1>3, <1>8 DEF SessionOK
  <2>3. upload_mode # "STRICT"
    BY <1>6
  <2> QED BY <2>1, <2>2, <2>3, <1>8, <1>12, <1>14 DEF SessionOK
<1>16. SessionsInv'
  BY <1>1, <1>6, <1>8, <1>9, <1>15, TypesKept
<1> QED BY <1>1, <1>2, <1>6, <1>8, <1>9, <1>16

-----------------------------------------------------------------------------
(***************************************************************************)
(* Chunks in any order (PeersSpec).                                        *)
(***************************************************************************)

\* The last upload of a file is the one that is open on it, if any is.
Owners ==
    /\ \A u \in DOMAIN sessions :
          /\ sessions[u].filename \in DOMAIN owner
          /\ owner[sessions[u].filename] = u
    /\ \A f \in DOMAIN owner :
          /\ f \in DOMAIN files
          /\ owner[f] \in used
          /\ owner[f] \in DOMAIN sessions => sessions[owner[f]].filename = f

\* Sizes are the declared ones, and a completed upload is not open.
Declared ==
    /\ DOMAIN size_of = used
    /\ \A u \in DOMAIN sessions : sessions[u].total_size = size_of[u]
    /\ \A u \in used : size_of[u] \in Nat
    /\ complete \subseteq used
    /\ complete \cap DOMAIN sessions = {}

\* The inductive invariant of PeersSpec.
PeersInv ==
    /\ SessionsInv
    /\ Declared
    /\ Owners
    /\ PrefixOnDisk
    /\ CompleteIsWhole

LEMMA PeersStart == PeersInit => PeersInv
<1> SUFFICES ASSUME PeersInit PROVE PeersInv
  OBVIOUS
<1>1. /\ DOMAIN sessions = {} /\ DOMAIN files = {} /\ used = {}
      /\ DOMAIN size_of = {} /\ DOMAIN owner = {} /\ complete = {}
  BY DEF PeersInit, SessionInit
<1>2. SessionsInv
  BY <1>1 DEF SessionsInv, SessionTypeOK
<1> QED BY <1>1, <1>2 DEF PeersInv, Declared, Owners, PrefixOnDisk, CompleteIsWhole

LEMMA MetaKeeps ==
    ASSUME PeersInv, NEW u, NEW f \in Filenames, NEW n \in Nat,
           NEW overwrite \in BOOLEAN, Meta(u, f, n, overwrite)
    PROVE  PeersInv'
<1>1. /\ SessionsInv'
      /\ u \notin used /\ u \in UploadIds /\ n <= MAX_FILE_SIZE
      /\ used' = used \cup {u}
      /\ DOMAIN sessions' = DOMAIN sessions \cup {u}
      /\ sessions'[u].filename = f /\ sessions'[u].total_size = n
      /\ sessions'[u].next_expected_offset = 0
      /\ \A v \in DOMAIN sessions : v # u /\ sessions'[v] = sessions[v]
      /\ DOMAIN files' = DOMAIN files \cup {f}
      /\ files'[f] = Bytes(u, 0)
      /\ \A g \in DOMAIN files : g # f => files'[g] = files[g]
  <2>1. Created(u, f, n)
    BY SizeAssumption DEF Meta, CreateSession, MetaRefused, Created
  <2>2. SessionsInv
    BY DEF PeersInv
  <2>3. SessionsInv' /\ CreateResult(u, f, n)
    BY <2>1, <2>2, CreateStep, Zenon
  <2> QED BY <2>3, Zenon DEF CreateResult
<1>2. /\ size_of' = [v \in used' |-> IF v = u THEN n ELSE size_of[v]]
      /\ owner' = [g \in DOMAIN owner \cup {f} |-> IF g = f THEN u ELSE owner[g]]
      /\ complete' = complete
      /\ \A v \in DOMAIN sessions : sessions[v].filename # f
  BY DEF Meta, InUse
<1>3. /\ sessions'[u].filename = f /\ sessions'[u].total_size = n
      /\ sessions'[u].next_expected_offset = 0
  BY <1>1, Zenon
<1>4. /\ DOMAIN size_of' = used' /\ size_of'[u] = n
      /\ \A v \in used : size_of'[v] = size_of[v]
  BY <1>1, <1>2
<1>5. /\ DOMAIN owner' = DOMAIN owner \cup {f} /\ owner'[f] = u
      /\ \A g \in DOMAIN owner : g # f => owner'[g] = owner[g]
  BY <1>2
<1>6. /\ DOMAIN sessions \subseteq used
      /\ \A v \in DOMAIN sessions : sessions[v].filename \in DOMAIN files
  BY DEF PeersInv, SessionsInv, SessionTypeOK
<1>7. Declared'
  <2>1. Declared
    BY DEF PeersInv
  <2> QED BY <2>1, <1>1, <1>2, <1>3, <1>4, <1>6 DEF Declared
<1>8. Owners'
  <2>1. Owners
    BY DEF PeersInv
  <2>2. ASSUME NEW v \in DOMAIN sessions'
        PROVE  /\ sessions'[v].filename \in DOMAIN owner'
               /\ owner'[sessions'[v].filename] = v
    <3>1. CASE v = u
      BY <3>1, <1>3, <1>5
    <3>2. CASE v # u
      BY <3>2, <2>1, <1>1, <1>2, <1>5 DEF Owners
    <3> QED BY <3>1, <3>2
  <2>3. ASSUME NEW g \in DOMAIN owner'
        PROVE  /\ g \in DOMAIN files'
               /\ owner'[g] \in used'
               /\ owner'[g] \in DOMAIN sessions' => sessions'[owner'[g]].filename = g
    <3>1. CASE g = f
      BY <3>1, <1>1, <1>3, <1>5
    <3>2. CASE g # f
      BY <3>2, <2>1, <1>1, <1>5 DEF Owners
    <3> QED BY <3>1, <3>2
  <2> QED BY <2>2, <2>3 DEF Owners
<1>9. PrefixOnDisk'
  <2> SUFFICES ASSUME NEW v \in DOMAIN sessions'
               PROVE  files'[sessions'[v].filename] =
                          Bytes(v, sessions'[v].next_expected_offset)
    BY DEF PrefixOnDisk, Bytes
  <2>1. CASE v = u
    BY <2>1, <1>1, <1>3
  <2>2. CASE v # u
    <3>1. v \in DOMAIN sessions /\ sessions'[v] = sessions[v] /\ sessions[v].filename # f
          /\ sessions[v].filename \in DOMAIN files
      BY <2>2, <1>1, <1>2, <1>6
    <3> QED BY <3>1, <1>1 DEF PeersInv, PrefixOnDisk
  <2> QED BY <2>1, <2>2
<1>10. CompleteIsWhole'
  <2> SUFFICES ASSUME NEW g \in DOMAIN owner', owner'[g] \in complete'
               PROVE  files'[g] = Bytes(owner'[g], size_of'[owner'[g]])
    BY DEF CompleteIsWhole, Bytes
  <2>1. u \notin complete
    BY <1>1 DEF PeersInv, Declared
  <2>2. g # f /\ g \in DOMAIN owner /\ owner'[g] = owner[g]
    BY <2>1, <1>2, <1>5
  <2>3. g \in DOMAIN files /\ owner[g] \in used
    BY <2>2 DEF PeersInv, Owners
  <2>4. files[g] = Bytes(owner[g], size_of[owner[g]])
    BY <2>2, <1>2 DEF PeersInv, CompleteIsWhole
  <2> QED BY <2>2, <2>3, <2>4, <1>1, <1>4
<1> QED BY <1>1, <1>7, <1>8, <1>9, <1>10 DEF PeersInv

\* Steps that leave the files alone.
LEMMA FilesStayKeeps ==
    ASSUME PeersInv, SessionsInv', used' = used, files' = files,
           DOMAIN sessions' = DOMAIN sessions,
           \A v \in DOMAIN sessions :
              /\ sessions'[v].filename = sessions[v].filename
              /\ sessions'[v].total_size = sessions[v].total_size
              /\ sessions'[v].next_expected_offset = sessions[v].next_expected_offset,
           UNCHANGED <<size_of, owner, complete>>
    PROVE  PeersInv'
<1>1. Declared'
  BY DEF PeersInv, Declared
<1>2. Owners'
  BY DEF PeersInv, Owners
<1>3. PrefixOnDisk'
  BY DEF PeersInv, PrefixOnDisk, Bytes
<1>4. CompleteIsWhole'
  <2>1. CompleteIsWhole
    BY DEF PeersInv
  <2> QED BY <2>1, Zenon DEF CompleteIsWhole, Bytes
<1> QED BY <1>1, <1>2, <1>3, <1>4 DEF PeersInv

\* The expected chunk: the file of the upload grows, and no other one changes.
LEMMA WriteKeeps ==
    ASSUME PeersInv, NEW u \in DOMAIN sessions, NEW r,
           SessionsInv', WriteResult(u, sessions[u], r),
           complete' = IF u \in DOMAIN sessions \ DOMAIN sessions'
                       THEN complete \cup {u} ELSE complete,
           UNCHANGED <<size_of, owner>>
    PROVE  PeersInv'
<1>1. PICK t : t = sessions[u]
  BY Zenon
<1>2. PICK f, o, s : f = t.filename /\ o = t.next_expected_offset /\ s = t.total_size
  BY Zenon
<1>3. SessionOK(t) /\ o \in Nat
  <2>1. SessionOK(t)
    BY <1>1 DEF PeersInv, SessionsInv
  <2> QED BY <2>1, <1>2, SizeAssumption DEF SessionOK, Session
<1>4. /\ r \in Nat /\ o < r /\ used' = used
      /\ files' = [files EXCEPT ![f] = Written(@, u, o..(r - 1))]
      /\ \A v \in DOMAIN sessions \ {u} : v \in DOMAIN sessions' /\ sessions'[v] = sessions[v]
      /\ r = s => DOMAIN sessions' = DOMAIN sessions \ {u}
      /\ r # s => /\ DOMAIN sessions' = DOMAIN sessions
                  /\ sessions'[u].filename = f
                  /\ sessions'[u].total_size = s
                  /\ sessions'[u].next_expected_offset = r
  BY <1>1, <1>2 DEF WriteResult
<1>5. DOMAIN sessions' \subseteq DOMAIN sessions /\ DOMAIN sessions \subseteq used
  BY <1>4 DEF PeersInv, SessionsInv, SessionTypeOK
<1>6. /\ f \in DOMAIN files /\ f \in DOMAIN owner /\ owner[f] = u
      /\ files[f] = Bytes(u, o) /\ s = size_of[u] /\ u \notin complete
  <2>1. f \in DOMAIN files
    BY <1>1, <1>2 DEF PeersInv, SessionsInv, SessionTypeOK
  <2>2. f \in DOMAIN owner /\ owner[f] = u
    BY <1>1, <1>2 DEF PeersInv, Owners
  <2>3. files[f] = Bytes(u, o)
    BY <1>1, <1>2 DEF PeersInv, PrefixOnDisk
  <2>4. s = size_of[u] /\ u \notin complete
    BY <1>1, <1>2 DEF PeersInv, Declared
  <2> QED BY <2>1, <2>2, <2>3, <2>4
<1>7. /\ DOMAIN files' = DOMAIN files
      /\ files'[f] = Bytes(u, r)
      /\ \A g \in DOMAIN files : g # f => files'[g] = files[g]
  <2>1. Written(files[f], u, o..(r - 1)) = Bytes(u, r)
    BY <1>3, <1>4, <1>6, WrittenPrefix
  <2> QED BY <2>1, <1>4, <1>6
<1>8. /\ r = s => u \notin DOMAIN sessions' /\ complete' = complete \cup {u}
      /\ r # s => u \in DOMAIN sessions' /\ complete' = complete
  BY <1>4
<1>9. \A v \in DOMAIN sessions' : /\ sessions'[v].filename = sessions[v].filename
                                  /\ sessions'[v].total_size = sessions[v].total_size
  BY <1>1, <1>2, <1>4, <1>5
<1>10. Declared'
  <2>1. Declared
    BY DEF PeersInv
  <2> QED BY <2>1, <1>4, <1>5, <1>8, <1>9 DEF Declared
<1>11. Owners'
  <2>1. Owners
    BY DEF PeersInv
  <2> QED BY <2>1, <1>4, <1>5, <1>7, <1>9 DEF Owners
<1>12. PrefixOnDisk'
  <2> SUFFICES ASSUME NEW v \in DOMAIN sessions'
               PROVE  files'[sessions'[v].filename] =
                          Bytes(v, sessions'[v].next_expected_offset)
    BY DEF PrefixOnDisk, Bytes
  <2>1. CASE v = u
    <3>1. r # s
      BY <2>1, <1>8
    <3> QED BY <2>1, <3>1, <1>4, <1>7
  <2>2. CASE v # u
    <3>1. v \in DOMAIN sessions /\ sessions'[v] = sessions[v]
      BY <2>2, <1>4, <1>5
    <3>2. sessions[v].filename \in DOMAIN files /\ sessions[v].filename # f
      <4>1. sessions[v].filename \in DOMAIN files
        BY <3>1 DEF PeersInv, SessionsInv, SessionTypeOK
      <4>2. owner[sessions[v].filename] = v
        BY <3>1 DEF PeersInv, Owners
      <4> QED BY <4>1, <4>2, <2>2, <1>6
    <3>3. files[sessions[v].filename] = Bytes(v, sessions[v].next_expected_offset)
      BY <3>1 DEF PeersInv, PrefixOnDisk
    <3> QED BY <3>1, <3>2, <3>3, <1>7
  <2> QED BY <2>1, <2>2
<1>13. CompleteIsWhole'
  <2> SUFFICES ASSUME NEW g \in DOMAIN owner, owner[g] \in complete'
               PROVE  files'[g] = Bytes(owner[g], size_of[owner[g]])
    BY DEF CompleteIsWhole, Bytes
  <2>1. g \in DOMAIN files /\ (owner[g] = u => g = f)
    BY <1>1, <1>2 DEF PeersInv, Owners
  <2>2. CASE owner[g] = u
    <3>1. r = s
      BY <2>2, <1>6, <1>8
    <3> QED BY <2>1, <2>2, <3>1, <1>6, <1>7
  <2>3. CASE owner[g] # u
    <3>1. owner[g] \in complete /\ g # f
      BY <2>3, <1>6, <1>8
    <3>2. files[g] = Bytes(owner[g], size_of[owner[g]])
      BY <3>1 DEF PeersInv, CompleteIsWhole
    <3> QED BY <3>1, <3>2, <2>1, <1>7
  <2> QED BY <2>2, <2>3
<1> QED BY <1>10, <1>11, <1>12, <1>13 DEF PeersInv

LEMMA ChunkKeeps ==
    ASSUME PeersInv, NEW u \in used, NEW o \in Offsets(size_of[u]), Chunk(u, o)
    PROVE  PeersInv'
<1>1. PICK len : len = Length(size_of[u], o)
  BY Zenon
<1>2. /\ ApplyChunk(u, o, len) \/ RefuseChunk(u, o, len)
      /\ complete' = IF u \in DOMAIN sessions \ DOMAIN sessions'
                     THEN complete \cup {u} ELSE complete
      /\ UNCHANGED <<size_of, owner>>
  BY <1>1 DEF Chunk
<1>3. SessionsInv
  BY DEF PeersInv
<1>4. u \in DOMAIN sessions => sessions[u].total_size = size_of[u]
  BY DEF PeersInv, Declared
<1>5. CASE RefuseChunk(u, o, len) \/ IgnoreChunk(u, o, len)
  <2>1. UNCHANGED <<sessions, files, used>>
    BY <1>5 DEF RefuseChunk, IgnoreChunk, sessionVars
  <2>2. SessionsInv' /\ complete' = complete
    BY <2>1, <1>2, <1>3 DEF SessionsInv, SessionTypeOK
  <2> QED BY <2>1, <2>2, <1>2, FilesStayKeeps
<1>6. CASE BufferChunk(u, o, len)
  <2>1. u \in DOMAIN sessions
    BY <1>6 DEF BufferChunk
  <2>2. /\ SessionsInv'
        /\ used' = used /\ files' = files /\ DOMAIN sessions' = DOMAIN sessions
        /\ \A v \in DOMAIN sessions :
              /\ sessions'[v].filename = sessions[v].filename
              /\ sessions'[v].total_size = sessions[v].total_size
              /\ sessions'[v].next_expected_offset = sessions[v].next_expected_offset
    <3>1. o \in Offsets(sessions[u].total_size) /\ len = Length(sessions[u].total_size, o)
      BY <2>1, <1>1, <1>4
    <3> QED BY <2>1, <3>1, <1>3, <1>6, BufferStep, Zenon
  <2>3. complete' = complete
    BY <2>2, <1>2
  <2> QED BY <2>2, <2>3, <1>2, FilesStayKeeps
<1>7. CASE WriteChunk(u, o, len)
  <2>1. u \in DOMAIN sessions
    BY <1>7 DEF WriteChunk
  <2>2. o < sessions[u].total_size /\ len = Length(sessions[u].total_size, o)
    <3>1. size_of[u] \in Nat
      BY DEF PeersInv, Declared
    <3> QED BY <2>1, <3>1, <1>1, <1>4, NextOffset
  <2>3. SessionsInv' /\ \E r : WriteResult(u, sessions[u], r)
    BY <2>1, <2>2, <1>3, <1>7, WriteStep
  <2> QED BY <2>1, <2>3, <1>2, WriteKeeps
<1> QED BY <1>2, <1>5, <1>6, <1>7 DEF ApplyChunk

LEMMA PeersInvariant == PeersSpec => []PeersInv
<1>1. PeersInit => PeersInv
  BY PeersStart
<1>2. PeersInv /\ [PeersNext]_peersVars => PeersInv'
  <2> SUFFICES ASSUME PeersInv, [PeersNext]_peersVars PROVE PeersInv'
    OBVIOUS
  <2>1. ASSUME UNCHANGED <<sessions, files, used, size_of, owner, complete>>
        PROVE  PeersInv'
    <3>1. SessionsInv'
      BY <2>1 DEF PeersInv, SessionsInv, SessionTypeOK
    <3> QED BY <2>1, <3>1, FilesStayKeeps
  <2>2. ASSUME NEW u \in UploadIds, NEW f \in Filenames, NEW n \in 0..(MAX_FILE_SIZE + 1),
               NEW overwrite \in BOOLEAN, Meta(u, f, n, overwrite)
        PROVE  PeersInv'
    <3>1. n \in Nat
      BY SizeAssumption
    <3> QED BY <2>2, <3>1, MetaKeeps
  <2>3. ASSUME NEW f \in Filenames, NEW n \in 0..(MAX_FILE_SIZE + 1),
               NEW overwrite \in BOOLEAN, BadMeta(f, n, overwrite)
        PROVE  PeersInv'
    BY <2>1, <2>3 DEF BadMeta, RefuseMeta, sessionVars
  <2>4. ASSUME NEW u \in used, NEW o \in Offsets(size_of[u]), Chunk(u, o)
        PROVE  PeersInv'
    BY <2>4, ChunkKeeps
  <2> QED BY <2>1, <2>2, <2>3, <2>4, Zenon DEF PeersNext, peersVars
<1> QED BY <1>1, <1>2, PTL DEF PeersSpec

\* For every size of file and chunk and in both modes, an open session has a
\* file, and its offsets stay within the size that handle_put_meta accepts.
THEOREM SessionTypes == PeersSpec => []SessionTypeOK
<1>1. PeersInv => SessionTypeOK
  BY DEF PeersInv, SessionsInv
<1> QED BY <1>1, PeersInvariant, PTL

\* Whatever order the chunks of an upload come in, and however often, apply_chunk
\* keeps on disk its beginning up to the expected offset, and nothing else.
THEOREM DiskHoldsPrefix == PeersSpec => []PrefixOnDisk
<1>1. PeersInv => PrefixOnDisk
  BY DEF PeersInv
<1> QED BY <1>1, PeersInvariant, PTL

\* The drain loop of _process_buffer leaves no chunk behind: all that is still
\* buffered lies ahead of the expected offset and within the file.
THEOREM NoChunkLeftBehind == PeersSpec => []BufferAhead
<1>1. PeersInv => BufferAhead
  <2> SUFFICES ASSUME PeersInv, NEW u \in DOMAIN sessions,
                      NEW k \in DOMAIN sessions[u].buffered_chunks
               PROVE  /\ k > sessions[u].next_expected_offset
                      /\ k + sessions[u].buffered_chunks[k] <= sessions[u].total_size
    BY DEF BufferAhead
  <2>1. SessionOK(sessions[u])
    BY DEF PeersInv, SessionsInv
  <2>2. sessions[u].total_size \in 0..MAX_FILE_SIZE
    BY <2>1 DEF SessionOK, Session
  <2> QED BY <2>1, <2>2, WellCutEnds DEF SessionOK
<1> QED BY <1>1, PeersInvariant, PTL

\* A file whose upload was answered "complete" holds all of it until the next
\* upload of that name, whatever late and repeated chunks still arrive.
THEOREM CompletedStaysWhole == PeersSpec => []CompleteIsWhole
<1>1. PeersInv => CompleteIsWhole
  BY DEF PeersInv
<1> QED BY <1>1, PeersInvariant, PTL

-----------------------------------------------------------------------------
(***************************************************************************)
(* Clients that share files (Spec).                                        *)
(***************************************************************************)

MetaRequests ==
    [op : {"PUT_META"}, call : Nat, name : Filenames, size : 0..MAX_FILE_SIZE]
ChunkRequests ==
    [op : {"PUT_CHUNK"}, call : Nat, upload : UploadIds, offset : Nat, len : Nat]
Accepted == [call : Nat, status : {200}, upload : UploadIds]
Raised == [call : Nat, status : {500}, upload : UploadIds \cup {NoUpload}]
Answers == Accepted \cup Raised

ClientTypes ==
    /\ stage \in [Clients -> {"IDLE", "META", "CHUNK"}]
    /\ call \in [Clients -> Nat]
    /\ name \in [Clients -> Filenames]
    /\ size \in [Clients -> 0..MAX_FILE_SIZE]
    /\ upload \in [Clients -> UploadIds \cup {NoUpload}]
    /\ offset \in [Clients -> Nat]
    /\ result \in [Clients -> {"NONE", "OK", "REJECTED", "FAILED", "TIMEOUT"}]

QueueTypes ==
    /\ requests \in [Clients -> Seq(MetaRequests \cup ChunkRequests)]
    /\ answers \in [Clients -> Seq(Answers)]

\* The request with this place in the queue of c is a chunk of upload u.
IsChunkOf(c, i, u) == requests[c][i].op = "PUT_CHUNK" /\ requests[c][i].upload = u

\* No chunk of u is on its way.
NoneUnderWay(u) ==
    \A c \in Clients : \A i \in 1..Len(requests[c]) : ~ IsChunkOf(c, i, u)

\* The calls on their way and the answered ones are different calls.
CallsDistinct ==
    \A c \in Clients :
        /\ \A i \in 1..Len(requests[c]) : requests[c][i].call <= call[c]
        /\ \A i, j \in 1..Len(requests[c]) :
              requests[c][i].call = requests[c][j].call => i = j
        /\ \A i \in 1..Len(answers[c]) :
              /\ answers[c][i].call <= call[c]
              /\ \A j \in 1..Len(requests[c]) : answers[c][i].call # requests[c][j].call

\* A chunk on its way is the one its session expects next.
ChunksExpected ==
    \A c \in Clients : \A i \in 1..Len(requests[c]) :
        LET r == requests[c][i]
        IN  r.op = "PUT_CHUNK" =>
              /\ r.upload \in DOMAIN sessions
              /\ r.offset = sessions[r.upload].next_expected_offset
              /\ r.offset < sessions[r.upload].total_size
              /\ r.len = Length(sessions[r.upload].total_size, r.offset)

\* Of an upload one chunk is on its way at a time.
OneUnderWay ==
    \A c, d \in Clients : \A i \in 1..Len(requests[c]), j \in 1..Len(requests[d]) :
        \A u \in UploadIds : IsChunkOf(c, i, u) /\ IsChunkOf(d, j, u) => c = d /\ i = j

\* Client c has upload u: it is sending it, or has an answer or a chunk of it
\* on its way.
Holds(c, u) ==
    \/ upload[c] = u
    \/ \E i \in 1..Len(requests[c]) : IsChunkOf(c, i, u)
    \/ \E i \in 1..Len(answers[c]) : answers[c][i].upload = u

\* No two clients have the same upload.
HeldByOne ==
    /\ \A c \in Clients, u \in UploadIds : Holds(c, u) => u \in used
    /\ \A c, d \in Clients, u \in UploadIds : Holds(c, u) /\ Holds(d, u) => c = d

\* The first n bytes of u are all of its file, if no other upload came between.
OnDisk(u, n) == u \notin disturbed => files[target[u]] = Bytes(u, n)

\* The upload u of client c has come to o, and no chunk of it is on its way.
Ready(c, u, o) ==
    /\ u \in used
    /\ target[u] = name[c]
    /\ NoneUnderWay(u)
    /\ OnDisk(u, o)
    /\ o < size[c] =>
          /\ u \in DOMAIN sessions
          /\ sessions[u].next_expected_offset = o
          /\ sessions[u].total_size = size[c]

\* Every open session belongs to the file of its upload, in either mode has
\* nothing buffered, and if it has a chunk to come, exactly what it has written is
\* on disk.  (A chunk that raised may have left more, but then none comes.)
Sessions ==
    /\ SessionsInv
    /\ DOMAIN target = used
    /\ \A u \in used : target[u] \in DOMAIN files
    /\ \A u \in DOMAIN sessions :
          /\ sessions[u].filename = target[u]
          /\ DOMAIN sessions[u].buffered_chunks = {}
          /\ \A n \in Nat :
                n = sessions[u].next_expected_offset => NoneUnderWay(u) \/ OnDisk(u, n)

\* The call a client waits for, on its way or answered.
AwaitsMeta(c) ==
    /\ \A i \in 1..Len(requests[c]) :
          requests[c][i].call = call[c] =>
              /\ requests[c][i].op = "PUT_META"
              /\ requests[c][i].name = name[c]
              /\ requests[c][i].size = size[c]
    /\ \A i \in 1..Len(answers[c]) :
          answers[c][i].call = call[c] /\ answers[c][i].status = 200 =>
              \A u \in UploadIds : u = answers[c][i].upload => Ready(c, u, 0)

AwaitsChunk(c) ==
    /\ upload[c] \in used
    /\ target[upload[c]] = name[c]
    /\ offset[c] < size[c]
    /\ \A i \in 1..Len(requests[c]) :
          requests[c][i].call = call[c] =>
              /\ requests[c][i].op = "PUT_CHUNK"
              /\ requests[c][i].upload = upload[c]
              /\ requests[c][i].offset = offset[c]
              /\ sessions[upload[c]].total_size = size[c]
    /\ \A i \in 1..Len(answers[c]) :
          answers[c][i].call = call[c] /\ answers[c][i].status = 200 =>
              \A u \in UploadIds, o \in Nat :
                  u = upload[c] /\ o = offset[c] + Length(size[c], offset[c]) =>
                      Ready(c, u, o)

Waiting(c) ==
    /\ stage[c] # "IDLE" => result[c] = "NONE"
    /\ stage[c] = "META" => AwaitsMeta(c)
    /\ stage[c] = "CHUNK" => AwaitsChunk(c)
    /\ result[c] = "OK" =>
          /\ upload[c] \in UploadIds
          /\ \A u \in UploadIds, n \in Nat :
                u = upload[c] /\ n = size[c] => Ready(c, u, n)
    /\ result[c] # "REJECTED"

\* The inductive invariant of Spec.
UploadInv ==
    /\ ClientTypes
    /\ QueueTypes
    /\ CallsDistinct
    /\ ChunksExpected
    /\ OneUnderWay
    /\ HeldByOne
    /\ Sessions
    /\ \A c \in Clients : Waiting(c)

LEMMA UploadStart == Init => UploadInv
<1> SUFFICES ASSUME Init PROVE UploadInv
  OBVIOUS
<1>1. /\ DOMAIN sessions = {} /\ DOMAIN files = {} /\ used = {} /\ DOMAIN target = {}
      /\ \A c \in Clients : /\ Len(requests[c]) = 0 /\ Len(answers[c]) = 0
                            /\ upload[c] = NoUpload /\ stage[c] = "IDLE"
                            /\ result[c] = "NONE"
  BY DEF Init, SessionInit
<1>2. ClientTypes
  <2>1. /\ upload = [c \in Clients |-> NoUpload] /\ call = [c \in Clients |-> 0]
        /\ size = [c \in Clients |-> 0] /\ offset = [c \in Clients |-> 0]
        /\ name \in [Clients -> Filenames]
        /\ stage = [c \in Clients |-> "IDLE"] /\ result = [c \in Clients |-> "NONE"]
    BY DEF Init
  <2> QED BY <2>1, SizeAssumption DEF ClientTypes
<1>3. QueueTypes
  <2>1. requests = [c \in Clients |-> <<>>] /\ answers = [c \in Clients |-> <<>>]
    BY DEF Init
  <2> QED BY <2>1 DEF QueueTypes
<1>4. CallsDistinct /\ ChunksExpected /\ OneUnderWay
  BY <1>1 DEF CallsDistinct, ChunksExpected, OneUnderWay
<1>5. HeldByOne
  <2>1. \A c \in Clients, u \in UploadIds : ~ Holds(c, u)
    BY <1>1, NoUploadAssumption DEF Holds
  <2> QED BY <2>1 DEF HeldByOne
<1>6. Sessions
  <2>1. SessionsInv
    BY <1>1 DEF SessionsInv, SessionTypeOK
  <2> QED BY <1>1, <2>1 DEF Sessions
<1>7. \A c \in Clients : Waiting(c)
  BY <1>1 DEF Waiting
<1> QED BY <1>2, <1>3, <1>4, <1>5, <1>6, <1>7 DEF UploadInv

\* A queue without its first element, and one with one more at its end.
LEMMA TailIs ==
    ASSUME NEW S, NEW q \in Seq(S), q # <<>>
    PROVE  /\ Tail(q) \in Seq(S) /\ Head(q) = q[1] /\ 1 \in 1..Len(q) /\ q[1] \in S
           /\ Len(q) \in Nat /\ Len(Tail(q)) = Len(q) - 1
           /\ \A i \in 1..Len(Tail(q)) : i + 1 \in 1..Len(q) /\ Tail(q)[i] = q[i + 1]
  OBVIOUS

LEMMA AppendIs ==
    ASSUME NEW S, NEW q \in Seq(S), NEW e \in S
    PROVE  /\ Append(q, e) \in Seq(S) /\ Len(q) \in Nat /\ Len(Append(q, e)) = Len(q) + 1
           /\ Append(q, e)[Len(q) + 1] = e
           /\ \A i \in 1..Len(q) : Append(q, e)[i] = q[i]
           /\ \A i \in 1..Len(Append(q, e)) : i \in 1..Len(q) \/ i = Len(q) + 1
  OBVIOUS

\* The requests of the others stay, and those of c all but one move up.
Dequeued(c) ==
    \A d \in Clients : \A i \in 1..Len(requests'[d]) :
        LET j == IF d = c THEN i + 1 ELSE i
        IN  j \in 1..Len(requests[d]) /\ requests'[d][i] = requests[d][j]

\* Client c gets one more answer.
Answered(c, a) ==
    \A d \in Clients : \A i \in 1..Len(answers'[d]) :
        \/ i \in 1..Len(answers[d]) /\ answers'[d][i] = answers[d][i]
        \/ d = c /\ answers'[d][i] = a

LEMMA ReplyQueues ==
    ASSUME QueueTypes, NEW c \in Clients, requests[c] # <<>>, NEW a \in Answers,
           requests' = [requests EXCEPT ![c] = Tail(@)],
           answers' = [answers EXCEPT ![c] = Append(@, a)]
    PROVE  QueueTypes' /\ Dequeued(c) /\ Answered(c, a)
<1>1. PICK R : R = MetaRequests \cup ChunkRequests
  BY Zenon
<1>2. requests \in [Clients -> Seq(R)] /\ answers \in [Clients -> Seq(Answers)]
      /\ requests[c] \in Seq(R) /\ answers[c] \in Seq(Answers)
  BY <1>1 DEF QueueTypes
<1>3. PICK q : q = Tail(requests[c])
  BY Zenon
<1>4. PICK p : p = Append(answers[c], a)
  BY Zenon
<1>5. q \in Seq(R) /\ \A i \in 1..Len(q) : i + 1 \in 1..Len(requests[c]) /\ q[i] = requests[c][i + 1]
  BY <1>2, <1>3, TailIs
<1>6. p \in Seq(Answers) /\ \A i \in 1..Len(p) : \/ i \in 1..Len(answers[c]) /\ p[i] = answers[c][i]
                                                 \/ p[i] = a
  BY <1>2, <1>4, AppendIs
<1>7. requests' = [requests EXCEPT ![c] = q] /\ answers' = [answers EXCEPT ![c] = p]
  BY <1>3, <1>4
<1>8. /\ requests' \in [Clients -> Seq(R)] /\ answers' \in [Clients -> Seq(Answers)]
      /\ requests'[c] = q /\ answers'[c] = p
      /\ \A d \in Clients : d # c => requests'[d] = requests[d] /\ answers'[d] = answers[d]
  BY <1>2, <1>5, <1>6, <1>7
<1>9. Dequeued(c)
  BY <1>5, <1>8 DEF Dequeued
<1>10. Answered(c, a)
  BY <1>6, <1>8 DEF Answered
<1>11. QueueTypes'
  BY <1>1, <1>8 DEF QueueTypes, MetaRequests, ChunkRequests, Answers, Accepted, Raised
<1> QED BY <1>9, <1>10, <1>11

\* The answered call is one that was on its way.
LEMMA ServedCalls ==
    ASSUME CallsDistinct, NEW c \in Clients, NEW a, Dequeued(c), Answered(c, a),
           call' = call, 1 \in 1..Len(requests[c]),
           a.call = requests[c][1].call,
           \A d \in Clients : Len(requests'[d]) \in Nat
    PROVE  CallsDistinct'
<1> SUFFICES ASSUME NEW d \in Clients
             PROVE  /\ \A i \in 1..Len(requests'[d]) : requests'[d][i].call <= call[d]
                    /\ \A i, j \in 1..Len(requests'[d]) :
                          requests'[d][i].call = requests'[d][j].call => i = j
                    /\ \A i \in 1..Len(answers'[d]) :
                          /\ answers'[d][i].call <= call[d]
                          /\ \A j \in 1..Len(requests'[d]) :
                                answers'[d][i].call # requests'[d][j].call
  BY DEF CallsDistinct
<1>0. ASSUME NEW i \in 1..Len(requests'[d])
      PROVE  \E k \in 1..Len(requests[d]) :
                 requests'[d][i] = requests[d][k] /\ k = IF d = c THEN i + 1 ELSE i
  <2>1. PICK k : k = IF d = c THEN i + 1 ELSE i
    BY Zenon
  <2>2. k \in 1..Len(requests[d]) /\ requests'[d][i] = requests[d][k]
    BY <2>1 DEF Dequeued
  <2> QED BY <2>1, <2>2
<1>1. ASSUME NEW i \in 1..Len(requests'[d]) PROVE requests'[d][i].call <= call[d]
  <2>1. PICK k \in 1..Len(requests[d]) :
            requests'[d][i] = requests[d][k] /\ k = IF d = c THEN i + 1 ELSE i
    BY <1>0, Zenon
  <2> QED BY <2>1 DEF CallsDistinct
<1>2. ASSUME NEW i \in 1..Len(requests'[d]), NEW j \in 1..Len(requests'[d]),
             requests'[d][i].call = requests'[d][j].call
      PROVE  i = j
  <2>1. CASE d = c
    <3>1. /\ i + 1 \in 1..Len(requests[d]) /\ requests'[d][i] = requests[d][i + 1]
          /\ j + 1 \in 1..Len(requests[d]) /\ requests'[d][j] = requests[d][j + 1]
      BY <2>1, <1>0
    <3>2. i + 1 = j + 1
      BY <3>1, <1>2 DEF CallsDistinct
    <3> QED BY <3>2
  <2>2. CASE d # c
    <3>1. /\ i \in 1..Len(requests[d]) /\ requests'[d][i] = requests[d][i]
          /\ j \in 1..Len(requests[d]) /\ requests'[d][j] = requests[d][j]
      BY <2>2 DEF Dequeued
    <3> QED BY <3>1, <1>2 DEF CallsDistinct
  <2> QED BY <2>1, <2>2
<1>3. ASSUME NEW i \in 1..Len(answers'[d])
      PROVE  /\ answers'[d][i].call <= call[d]
             /\ \A j \in 1..Len(requests'[d]) : answers'[d][i].call # requests'[d][j].call
  <2>1. CASE i \in 1..Len(answers[d]) /\ answers'[d][i] = answers[d][i]
    <3>1. /\ answers[d][i].call <= call[d]
          /\ \A j \in 1..Len(requests[d]) : answers[d][i].call # requests[d][j].call
      BY <2>1 DEF CallsDistinct
    <3>3. PICK b : b = answers[d][i]
      BY Zenon
    <3>4. ASSUME NEW j \in 1..Len(requests'[d]) PROVE b.call # requests'[d][j].call
      <4>1. PICK k \in 1..Len(requests[d]) :
                requests'[d][j] = requests[d][k] /\ k = IF d = c THEN j + 1 ELSE j
        BY <1>0, Zenon
      <4> QED BY <4>1, <3>1, <3>3
    <3> QED BY <2>1, <3>1, <3>3, <3>4
  <2>2. CASE d = c /\ answers'[d][i] = a
    <3>1. a.call <= call[d]
      BY <2>2 DEF CallsDistinct
    <3>2. ASSUME NEW j \in 1..Len(requests'[d]), a.call = requests'[d][j].call
          PROVE  FALSE
      <4>1. PICK k \in 1..Len(requests[c]) : k = j + 1 /\ requests'[d][j] = requests[c][k]
        BY <2>2 DEF Dequeued
      <4>2. requests[c][1].call = requests[c][k].call
        BY <4>1, <3>2
      <4>3. 1 = k
        <5>1. \A m, n \in 1..Len(requests[c]) :
                  requests[c][m].call = requests[c][n].call => m = n
          BY DEF CallsDistinct
        <5> QED BY <4>2, <5>1
      <4>4. j >= 1
        OBVIOUS
      <4> QED BY <4>1, <4>3, <4>4
    <3> QED BY <2>2, <3>1, <3>2
  <2> QED BY <2>1, <2>2 DEF Answered
<1> QED BY <1>1, <1>2, <1>3

\* What client d waits for is still so after a step that leaves d alone, if its
\* uploads are where they were.
LEMMA WaitingFrame ==
    ASSUME ClientTypes, QueueTypes, HeldByOne, used \subseteq UploadIds,
           NEW d \in Clients, Waiting(d),
           stage'[d] = stage[d], call'[d] = call[d], name'[d] = name[d],
           size'[d] = size[d], upload'[d] = upload[d], offset'[d] = offset[d],
           result'[d] = result[d],
           \A i \in 1..Len(requests'[d]) :
              \E j \in 1..Len(requests[d]) : requests'[d][i] = requests[d][j],
           \A i \in 1..Len(answers'[d]) :
              \/ \E j \in 1..Len(answers[d]) : answers'[d][i] = answers[d][j]
              \/ answers'[d][i].call = call[d] /\ answers'[d][i].status = 200 =>
                    /\ stage[d] = "META" =>
                          \A u \in UploadIds : u = answers'[d][i].upload => Ready(d, u, 0)'
                    /\ stage[d] = "CHUNK" =>
                          \A u \in UploadIds, o \in Nat :
                              u = upload[d] /\ o = offset[d] + Length(size[d], offset[d]) =>
                                  Ready(d, u, o)',
           \A u \in used : u \in used' /\ target'[u] = target[u],
           \A i \in 1..Len(requests'[d]) : requests'[d][i].op = "PUT_CHUNK" =>
              sessions'[requests'[d][i].upload].total_size =
                  sessions[requests'[d][i].upload].total_size,
           \A u \in UploadIds, o \in Nat : Holds(d, u) /\ Ready(d, u, o) => Ready(d, u, o)'
    PROVE  Waiting(d)'
<1>1. stage[d] = "META" => AwaitsMeta(d)'
  <2> SUFFICES ASSUME stage[d] = "META" PROVE AwaitsMeta(d)'
    OBVIOUS
  <2>1. AwaitsMeta(d)
    BY DEF Waiting
  <2>2. \A i \in 1..Len(requests'[d]) :
          requests'[d][i].call = call[d] =>
              /\ requests'[d][i].op = "PUT_META"
              /\ requests'[d][i].name = name[d]
              /\ requests'[d][i].size = size[d]
    BY <2>1 DEF AwaitsMeta
  <2>3. ASSUME NEW i \in 1..Len(answers'[d]), answers'[d][i].call = call[d],
               answers'[d][i].status = 200, NEW u \in UploadIds, u = answers'[d][i].upload
        PROVE  Ready(d, u, 0)'
    <3>1. CASE \E j \in 1..Len(answers[d]) : answers'[d][i] = answers[d][j]
      <4>1. PICK j \in 1..Len(answers[d]) : answers'[d][i] = answers[d][j]
        BY <3>1
      <4>2. Ready(d, u, 0) /\ Holds(d, u)
        BY <4>1, <2>1, <2>3 DEF AwaitsMeta, Holds
      <4>3. 0 \in Nat
        OBVIOUS
      <4> QED BY <4>2, <4>3, Zenon
    <3>2. CASE ~ \E j \in 1..Len(answers[d]) : answers'[d][i] = answers[d][j]
      BY <3>2, <2>3, Zenon
    <3> QED BY <3>1, <3>2
  <2> QED BY <2>2, <2>3 DEF AwaitsMeta
<1>2. stage[d] = "CHUNK" => AwaitsChunk(d)'
  <2> SUFFICES ASSUME stage[d] = "CHUNK" PROVE AwaitsChunk(d)'
    OBVIOUS
  <2>1. AwaitsChunk(d)
    BY DEF Waiting
  <2>2. upload[d] \in used' /\ target'[upload[d]] = name[d] /\ offset[d] < size[d]
    BY <2>1 DEF AwaitsChunk
  <2>3. ASSUME NEW i \in 1..Len(requests'[d]), requests'[d][i].call = call[d]
        PROVE  /\ requests'[d][i].op = "PUT_CHUNK"
               /\ requests'[d][i].upload = upload[d]
               /\ requests'[d][i].offset = offset[d]
               /\ sessions'[upload[d]].total_size = size[d]
    <3>1. PICK j \in 1..Len(requests[d]) : requests'[d][i] = requests[d][j]
      OBVIOUS
    <3>2. /\ requests[d][j].op = "PUT_CHUNK" /\ requests[d][j].upload = upload[d]
          /\ requests[d][j].offset = offset[d] /\ sessions[upload[d]].total_size = size[d]
      BY <2>1, <2>3, <3>1 DEF AwaitsChunk
    <3>3. PICK r : r = requests'[d][i]
      BY Zenon
    <3>4. r.op = "PUT_CHUNK" /\ r.upload = upload[d] /\ r.offset = offset[d]
      BY <3>1, <3>2, <3>3
    <3>5. sessions'[r.upload].total_size = sessions[r.upload].total_size
      BY <3>3, <3>4
    <3> QED BY <3>2, <3>3, <3>4, <3>5
  <2>4. ASSUME NEW i \in 1..Len(answers'[d]), answers'[d][i].call = call[d],
               answers'[d][i].status = 200, NEW u \in UploadIds, NEW o \in Nat,
               u = upload[d], o = offset[d] + Length(size[d], offset[d])
        PROVE  Ready(d, u, o)'
    <3>1. CASE \E j \in 1..Len(answers[d]) : answers'[d][i] = answers[d][j]
      <4>1. PICK j \in 1..Len(answers[d]) : answers'[d][i] = answers[d][j]
        BY <3>1
      <4>2. Ready(d, u, o) /\ Holds(d, u)
        BY <4>1, <2>1, <2>4 DEF AwaitsChunk, Holds
      <4> QED BY <4>2, Zenon
    <3>2. CASE ~ \E j \in 1..Len(answers[d]) : answers'[d][i] = answers[d][j]
      BY <3>2, <2>4, Zenon
    <3> QED BY <3>1, <3>2
  <2>5. (\A i \in 1..Len(answers[d]) :
            answers[d][i].call = call[d] /\ answers[d][i].status = 200 =>
                \A u \in UploadIds, o \in Nat :
                    u = upload[d] /\ o = offset[d] + Length(size[d], offset[d]) =>
                        Ready(d, u, o))'
    <3> SUFFICES ASSUME NEW i \in 1..Len(answers'[d]), answers'[d][i].call = call'[d],
                        answers'[d][i].status = 200, NEW u \in UploadIds, NEW o \in Nat,
                        u = upload'[d],
                        o = offset'[d] + Length(size'[d], offset'[d])
                 PROVE  Ready(d, u, o)'
      BY DEF Length
    <3>1. o = offset[d] + Length(size[d], offset[d])
      OBVIOUS
    <3> QED BY <2>4, <3>1
  <2>6. (\A i \in 1..Len(requests[d]) :
            requests[d][i].call = call[d] =>
                /\ requests[d][i].op = "PUT_CHUNK"
                /\ requests[d][i].upload = upload[d]
                /\ requests[d][i].offset = offset[d]
                /\ sessions[upload[d]].total_size = size[d])'
    BY <2>3
  <2> QED BY <2>2, <2>5, <2>6 DEF AwaitsChunk
<1>3. result[d] = "OK" =>
          /\ upload[d] \in UploadIds
          /\ \A u \in UploadIds, n \in Nat : u = upload[d] /\ n = size[d] => Ready(d, u, n)'
  <2> SUFFICES ASSUME result[d] = "OK", NEW u \in UploadIds, NEW n \in Nat,
                      u = upload[d], n = size[d]
               PROVE  Ready(d, u, n)'
    BY DEF Waiting
  <2>1. Ready(d, u, n) /\ Holds(d, u)
    BY DEF Waiting, Holds
  <2> QED BY <2>1, Zenon
<1>4. result[d] # "REJECTED" /\ (stage[d] # "IDLE" => result[d] = "NONE")
  BY DEF Waiting
<1> QED BY <1>1, <1>2, <1>3, <1>4 DEF Waiting

\* A step of the server that changes no upload but w.
OnlyTouches(w) ==
    \A u \in used : u # w =>
        /\ u \in used' /\ target'[u] = target[u]
        /\ u \in DOMAIN sessions => u \in DOMAIN sessions' /\ sessions'[u] = sessions[u]
        /\ u \notin disturbed' => u \notin disturbed /\ files'[target[u]] = files[target[u]]

\* Serving a request sends nothing.
LEMMA NoneStays ==
    ASSUME NEW c \in Clients, Dequeued(c), NEW u, NoneUnderWay(u)
    PROVE  NoneUnderWay(u)'
<1> SUFFICES ASSUME NEW e \in Clients, NEW i \in 1..Len(requests'[e]),
                    requests'[e][i].op = "PUT_CHUNK", requests'[e][i].upload = u
             PROVE  FALSE
  BY DEF NoneUnderWay, IsChunkOf
<1>1. PICK k \in 1..Len(requests[e]) : requests'[e][i] = requests[e][k]
  BY DEF Dequeued
<1>2. IsChunkOf(e, k, u)
  BY <1>1 DEF IsChunkOf
<1> QED BY <1>2 DEF NoneUnderWay

LEMMA ReadyServed ==
    ASSUME NEW w, OnlyTouches(w), NEW c \in Clients, Dequeued(c),
           name' = name, size' = size,
           NEW d \in Clients, NEW u, u # w, NEW o, Ready(d, u, o)
    PROVE  Ready(d, u, o)'
<1>1. u \in used /\ target[u] = name[d] /\ NoneUnderWay(u) /\ OnDisk(u, o)
  BY DEF Ready
<1>2. /\ u \in used' /\ target'[u] = target[u]
      /\ u \in DOMAIN sessions => u \in DOMAIN sessions' /\ sessions'[u] = sessions[u]
      /\ u \notin disturbed' => u \notin disturbed /\ files'[target[u]] = files[target[u]]
  BY <1>1 DEF OnlyTouches
<1>3. NoneUnderWay(u)'
  BY <1>1, NoneStays
<1>4. OnDisk(u, o)'
  BY <1>1, <1>2 DEF OnDisk, Bytes
<1>5. o < size'[d] => /\ u \in DOMAIN sessions'
                      /\ sessions'[u].next_expected_offset = o
                      /\ sessions'[u].total_size = size'[d]
  BY <1>2 DEF Ready
<1> QED BY <1>1, <1>2, <1>3, <1>4, <1>5 DEF Ready

\* An answer carries an upload that its client has, or a new one, or none.
LEMMA ServedUploads ==
    ASSUME UploadInv, NEW c \in Clients, NEW a, Dequeued(c), Answered(c, a),
           upload' = upload, used \subseteq used',
           \A d \in Clients : Len(requests'[d]) \in Nat,
           \/ Holds(c, a.upload) /\ a.upload \in UploadIds
           \/ a.upload \notin used /\ a.upload \in used'
           \/ a.upload \notin UploadIds
    PROVE  OneUnderWay' /\ HeldByOne'
<1>1. OneUnderWay /\ HeldByOne
  BY DEF UploadInv
<1>2. OneUnderWay'
  <2> SUFFICES ASSUME NEW d \in Clients, NEW e \in Clients, NEW u \in UploadIds,
                      NEW i \in 1..Len(requests'[d]), NEW j \in 1..Len(requests'[e]),
                      requests'[d][i].op = "PUT_CHUNK", requests'[d][i].upload = u,
                      requests'[e][j].op = "PUT_CHUNK", requests'[e][j].upload = u
               PROVE  d = e /\ i = j
    BY DEF OneUnderWay, IsChunkOf
  <2>1. PICK k \in 1..Len(requests[d]) :
            requests'[d][i] = requests[d][k] /\ k = IF d = c THEN i + 1 ELSE i
    BY DEF Dequeued
  <2>2. PICK l \in 1..Len(requests[e]) :
            requests'[e][j] = requests[e][l] /\ l = IF e = c THEN j + 1 ELSE j
    BY DEF Dequeued
  <2>3. IsChunkOf(d, k, u) /\ IsChunkOf(e, l, u)
    BY <2>1, <2>2 DEF IsChunkOf
  <2>4. d = e /\ k = l
    BY <1>1, <2>3, Zenon DEF OneUnderWay
  <2> QED BY <2>1, <2>2, <2>4
<1>3. ASSUME NEW d \in Clients, NEW u \in UploadIds, Holds(d, u)'
      PROVE  Holds(d, u) \/ (d = c /\ u = a.upload)
  <2>1. CASE upload'[d] = u
    BY <2>1 DEF Holds
  <2>2. CASE \E i \in 1..Len(requests'[d]) : IsChunkOf(d, i, u)'
    <3>1. PICK i \in 1..Len(requests'[d]) :
              requests'[d][i].op = "PUT_CHUNK" /\ requests'[d][i].upload = u
      BY <2>2 DEF IsChunkOf
    <3>2. PICK k \in 1..Len(requests[d]) : requests'[d][i] = requests[d][k]
      BY DEF Dequeued
    <3> QED BY <3>1, <3>2 DEF Holds, IsChunkOf
  <2>3. CASE \E i \in 1..Len(answers'[d]) : answers'[d][i].upload = u
    <3>1. PICK i \in 1..Len(answers'[d]) : answers'[d][i].upload = u
      BY <2>3
    <3> QED BY <3>1 DEF Answered, Holds
  <2> QED BY <1>3, <2>1, <2>2, <2>3 DEF Holds
<1>4. HeldByOne'
  <2>1. \A d \in Clients, u \in UploadIds : Holds(d, u) => u \in used
    BY <1>1 DEF HeldByOne
  <2>2. \A d, e \in Clients, u \in UploadIds : Holds(d, u) /\ Holds(e, u) => d = e
    BY <1>1 DEF HeldByOne
  <2>3. ASSUME NEW d \in Clients, NEW u \in UploadIds, Holds(d, u)' PROVE u \in used'
    BY <2>1, <2>3, <1>3
  <2>4. ASSUME NEW d \in Clients, NEW e \in Clients, NEW u \in UploadIds,
               Holds(d, u)', Holds(e, u)'
        PROVE  d = e
    <3>1. Holds(d, u) \/ (d = c /\ u = a.upload)
      BY <2>4, <1>3
    <3>2. Holds(e, u) \/ (e = c /\ u = a.upload)
      BY <2>4, <1>3
    <3>3. CASE u # a.upload
      BY <3>1, <3>2, <3>3, <2>2
    <3>4. CASE u = a.upload /\ Holds(c, u)
      BY <3>1, <3>2, <3>4, <2>2
    <3>5. CASE u = a.upload /\ u \notin used
      BY <3>1, <3>2, <3>5, <2>1
    <3> QED BY <3>3, <3>4, <3>5
  <2> QED BY <2>3, <2>4 DEF HeldByOne
<1> QED BY <1>2, <1>4

\* PUT_META: the upload is new, so no client has it and nothing of it is on its
\* way; whoever shares the file is disturbed.
LEMMA ServeMetaKeeps ==
    ASSUME UploadInv, NEW c \in Clients, ServeMeta(c)
    PROVE  UploadInv'
<1>0. QueueTypes /\ ClientTypes /\ Sessions /\ SessionsInv /\ CallsDistinct /\ HeldByOne
      /\ ChunksExpected
  BY DEF UploadInv, Sessions
<1>1. PICK r : r = requests[c][1]
  BY Zenon
<1>2. PICK R : R = MetaRequests \cup ChunkRequests
  BY Zenon
<1>3. /\ requests[c] # <<>> /\ Head(requests[c]) = r /\ r \in R
      /\ 1 \in 1..Len(requests[c]) /\ r.op = "PUT_META"
  <2>1. requests[c] # <<>> /\ Head(requests[c]).op = "PUT_META" /\ requests[c] \in Seq(R)
    BY <1>0, <1>2 DEF ServeMeta, QueueTypes
  <2> QED BY <2>1, <1>1, TailIs
<1>4. r.call \in Nat /\ r.name \in Filenames /\ r.size \in 0..MAX_FILE_SIZE /\ r.size \in Nat
  <2>1. r \in MetaRequests
    BY <1>2, <1>3 DEF ChunkRequests
  <2> QED BY <2>1, SizeAssumption DEF MetaRequests
<1>5. PICK u \in UploadIds :
          /\ CreateSession(u, r.name, r.size, TRUE)
          /\ Reply(c, 200, u)
          /\ target' = [v \in used' |-> IF v = u THEN r.name ELSE target[v]]
          /\ disturbed' = disturbed \cup Others(u, r.name)
  BY <1>3 DEF ServeMeta
<1>6. PICK f, n : f = r.name /\ n = r.size
  BY Zenon
<1>7. Created(u, f, n)
  <2>1. CreateSession(u, f, n, TRUE)
    BY <1>5, <1>6
  <2>2. n <= MAX_FILE_SIZE /\ n \in Nat
    BY <1>4, <1>6, SizeAssumption
  <2> QED BY <2>1, <2>2 DEF CreateSession, Created
<1>8. /\ SessionsInv'
      /\ u \notin used /\ u \in UploadIds /\ n <= MAX_FILE_SIZE
      /\ used' = used \cup {u}
      /\ DOMAIN sessions' = DOMAIN sessions \cup {u}
      /\ sessions'[u].filename = f /\ sessions'[u].total_size = n
      /\ sessions'[u].next_expected_offset = 0
      /\ \A k : k \notin DOMAIN sessions'[u].buffered_chunks
      /\ \A v \in DOMAIN sessions : v # u /\ sessions'[v] = sessions[v]
      /\ DOMAIN files' = DOMAIN files \cup {f}
      /\ files'[f] = Bytes(u, 0)
      /\ \A g \in DOMAIN files : g # f => files'[g] = files[g]
  <2>1. f \in Filenames /\ n \in Nat
    BY <1>4, <1>6
  <2>2. SessionsInv
    BY <1>0
  <2>3. SessionsInv' /\ CreateResult(u, f, n)
    BY <2>1, <2>2, <1>7, CreateStep, Zenon
  <2> QED BY <2>3, Zenon DEF CreateResult
<1>9. PICK a : a = [call |-> r.call, status |-> 200, upload |-> u]
  BY Zenon
<1>10. /\ a.call = r.call /\ a.status = 200 /\ a.upload = u /\ a \in Answers
  BY <1>4, <1>9 DEF Answers, Accepted
<1>11. /\ requests' = [requests EXCEPT ![c] = Tail(@)]
       /\ answers' = [answers EXCEPT ![c] = Append(@, a)]
       /\ UNCHANGED uploaderVars
  BY <1>3, <1>5, <1>9 DEF Reply
<1>12. QueueTypes' /\ Dequeued(c) /\ Answered(c, a)
  BY <1>0, <1>3, <1>10, <1>11, ReplyQueues
<1>13. /\ UNCHANGED <<stage, call, name, size, upload, offset, result>>
       /\ \A d \in Clients : Len(requests'[d]) \in Nat
  BY <1>11, <1>12 DEF uploaderVars, QueueTypes
<1>14. ClientTypes'
  BY <1>0, <1>13 DEF ClientTypes
<1>15. CallsDistinct'
  BY <1>0, <1>1, <1>3, <1>10, <1>12, <1>13, ServedCalls
<1>16. OneUnderWay' /\ HeldByOne'
  <2>1. a.upload \notin used /\ a.upload \in used' /\ used \subseteq used'
    BY <1>8, <1>10
  <2> QED BY <2>1, <1>12, <1>13, ServedUploads
<1>17. /\ DOMAIN target' = used' /\ target'[u] = f
       /\ \A v \in used : v # u /\ target'[v] = target[v]
  BY <1>5, <1>6, <1>8
<1>18. OnlyTouches(u)
  <2> SUFFICES ASSUME NEW v \in used, v \notin disturbed'
               PROVE  v \notin disturbed /\ files'[target[v]] = files[target[v]]
    BY <1>8, <1>17 DEF OnlyTouches
  <2>1. v \notin disturbed /\ v \notin Others(u, f)
    BY <1>5, <1>6
  <2>2. target[v] # f
    BY <2>1, <1>17 DEF Others
  <2>3. target[v] \in DOMAIN files
    BY <1>0 DEF Sessions
  <2> QED BY <2>1, <2>2, <2>3, <1>8
<1>19. ChunksExpected'
  <2> SUFFICES ASSUME NEW d \in Clients, NEW i \in 1..Len(requests'[d]),
                      requests'[d][i].op = "PUT_CHUNK"
               PROVE  LET q == requests'[d][i]
                      IN  /\ q.upload \in DOMAIN sessions'
                          /\ q.offset = sessions'[q.upload].next_expected_offset
                          /\ q.offset < sessions'[q.upload].total_size
                          /\ q.len = Length(sessions'[q.upload].total_size, q.offset)
    BY DEF ChunksExpected, Length
  <2>1. PICK k \in 1..Len(requests[d]) : requests'[d][i] = requests[d][k]
    BY <1>12 DEF Dequeued
  <2>2. PICK q : q = requests[d][k]
    BY Zenon
  <2>3. /\ q.upload \in DOMAIN sessions
        /\ q.offset = sessions[q.upload].next_expected_offset
        /\ q.offset < sessions[q.upload].total_size
        /\ q.len = Length(sessions[q.upload].total_size, q.offset)
    BY <1>0, <2>1, <2>2 DEF ChunksExpected
  <2>4. q.upload \in DOMAIN sessions' /\ sessions'[q.upload] = sessions[q.upload]
    BY <2>3, <1>8
  <2> QED BY <2>1, <2>2, <2>3, <2>4
<1>20. OnDisk(u, 0)'
  BY <1>8, <1>17 DEF OnDisk, Bytes
<1>21. Sessions'
  <2>1. \A v \in used' : target'[v] \in DOMAIN files'
    BY <1>0, <1>8, <1>17 DEF Sessions
  <2>2. ASSUME NEW v \in DOMAIN sessions'
        PROVE  /\ sessions'[v].filename = target'[v]
               /\ DOMAIN sessions'[v].buffered_chunks = {}
               /\ \A m \in Nat : m = sessions'[v].next_expected_offset =>
                      NoneUnderWay(v)' \/ OnDisk(v, m)'
    <3>1. CASE v = u
      BY <3>1, <1>8, <1>17, <1>20
    <3>2. CASE v # u
      <4>1. v \in DOMAIN sessions /\ sessions'[v] = sessions[v] /\ v \in used
        BY <3>2, <1>0, <1>8 DEF SessionsInv, SessionTypeOK
      <4>2. /\ sessions[v].filename = target[v]
            /\ DOMAIN sessions[v].buffered_chunks = {}
            /\ \A m \in Nat : m = sessions[v].next_expected_offset =>
                   NoneUnderWay(v) \/ OnDisk(v, m)
        BY <4>1, <1>0 DEF Sessions
      <4>3. ASSUME NEW m \in Nat, OnDisk(v, m) PROVE OnDisk(v, m)'
        BY <4>1, <4>3, <3>2, <1>17, <1>18 DEF OnlyTouches, OnDisk, Bytes
      <4>4. NoneUnderWay(v) => NoneUnderWay(v)'
        BY <1>12, NoneStays
      <4> QED BY <4>1, <4>2, <4>3, <4>4, <1>17
    <3> QED BY <3>1, <3>2
  <2> QED BY <2>1, <2>2, <1>8, <1>17 DEF Sessions
<1>22. ASSUME NEW d \in Clients PROVE Waiting(d)'
  <2>1. Waiting(d) /\ used \subseteq UploadIds
    BY <1>0 DEF UploadInv, SessionsInv, SessionTypeOK
  <2>2. \A i \in 1..Len(requests'[d]) :
            \E j \in 1..Len(requests[d]) : requests'[d][i] = requests[d][j]
    BY <1>12 DEF Dequeued
  <2>3. \A v \in used : v \in used' /\ target'[v] = target[v]
    BY <1>8, <1>17
  <2>4. \A i \in 1..Len(requests'[d]) : requests'[d][i].op = "PUT_CHUNK" =>
            sessions'[requests'[d][i].upload].total_size =
                sessions[requests'[d][i].upload].total_size
    <3> SUFFICES ASSUME NEW i \in 1..Len(requests'[d]), requests'[d][i].op = "PUT_CHUNK"
                 PROVE  sessions'[requests'[d][i].upload] = sessions[requests'[d][i].upload]
      BY Zenon
    <3>1. PICK k \in 1..Len(requests[d]) : requests'[d][i] = requests[d][k]
      BY <2>2
    <3>2. ChunksExpected
      BY <1>0
    <3>3. requests[d][k].upload \in DOMAIN sessions
      BY <3>1, <3>2 DEF ChunksExpected
    <3> QED BY <3>1, <3>3, <1>8
  <2>5. \A v \in UploadIds, o \in Nat : Holds(d, v) /\ Ready(d, v, o) => Ready(d, v, o)'
    <3> SUFFICES ASSUME NEW v \in UploadIds, NEW o \in Nat, Ready(d, v, o)
                 PROVE  Ready(d, v, o)'
      BY Zenon
    <3>1. v # u
      BY <1>8 DEF Ready
    <3> QED BY <3>1, <1>12, <1>13, <1>18, ReadyServed
  <2>6. ASSUME d = c, a.call = call[d]
        PROVE  /\ stage[d] = "META" => Ready(d, u, 0)'
               /\ stage[d] # "CHUNK"
    <3>1. stage[d] # "CHUNK"
      <4> SUFFICES ASSUME stage[d] = "CHUNK" PROVE FALSE
        OBVIOUS
      <4>1. r.op = "PUT_CHUNK"
        BY <2>1, <2>6, <1>1, <1>3, <1>10 DEF Waiting, AwaitsChunk
      <4> QED BY <4>1, <1>3
    <3>2. ASSUME stage[d] = "META" PROVE Ready(d, u, 0)'
      <4>1. f = name[d] /\ n = size[d]
        BY <2>1, <2>6, <3>2, <1>1, <1>3, <1>6, <1>10 DEF Waiting, AwaitsMeta
      <4>2. NoneUnderWay(u)'
        <5> SUFFICES ASSUME NEW e \in Clients, NEW i \in 1..Len(requests'[e]),
                            requests'[e][i].op = "PUT_CHUNK", requests'[e][i].upload = u
                     PROVE  FALSE
          BY DEF NoneUnderWay, IsChunkOf
        <5>1. PICK k \in 1..Len(requests[e]) : requests'[e][i] = requests[e][k]
          BY <1>12 DEF Dequeued
        <5>2. u \in DOMAIN sessions
          BY <5>1, <1>0 DEF ChunksExpected
        <5> QED BY <5>2, <1>8
      <4> QED BY <4>1, <4>2, <1>8, <1>13, <1>17, <1>20 DEF Ready
    <3> QED BY <3>1, <3>2
  <2>7. \A i \in 1..Len(answers'[d]) :
              \/ \E j \in 1..Len(answers[d]) : answers'[d][i] = answers[d][j]
              \/ answers'[d][i].call = call[d] /\ answers'[d][i].status = 200 =>
                    /\ stage[d] = "META" =>
                          \A v \in UploadIds : v = answers'[d][i].upload => Ready(d, v, 0)'
                    /\ stage[d] = "CHUNK" =>
                          \A v \in UploadIds, o \in Nat :
                              v = upload[d] /\ o = offset[d] + Length(size[d], offset[d]) =>
                                  Ready(d, v, o)'
    <3> SUFFICES ASSUME NEW i \in 1..Len(answers'[d]), d = c, answers'[d][i] = a,
                        a.call = call[d]
                 PROVE  /\ stage[d] = "META" =>
                              \A v \in UploadIds : v = a.upload => Ready(d, v, 0)'
                        /\ stage[d] # "CHUNK"
      BY <1>12 DEF Answered
    <3> QED BY <2>6, <1>10
  <2> QED BY <2>1, <2>2, <2>3, <2>4, <2>5, <2>7, <1>0, <1>13, WaitingFrame
<1> QED BY <1>12, <1>14, <1>15, <1>16, <1>19, <1>21, <1>22 DEF UploadInv

\* A chunk on its way is never refused, ignored or buffered: it is the expected
\* one, and is written.
LEMMA ChunkIsWritten ==
    ASSUME UploadInv, NEW c \in Clients, ServeChunk(c)
    PROVE  LET r == requests[c][1]
           IN  /\ requests[c] # <<>> /\ Head(requests[c]) = r /\ r \in ChunkRequests
               /\ 1 \in 1..Len(requests[c]) /\ r.op = "PUT_CHUNK"
               /\ WriteChunk(r.upload, r.offset, r.len) /\ Reply(c, 200, r.upload)
<1>1. PICK r : r = requests[c][1]
  BY Zenon
<1>2. PICK R : R = MetaRequests \cup ChunkRequests
  BY Zenon
<1>3. /\ requests[c] # <<>> /\ Head(requests[c]) = r /\ r \in R
      /\ 1 \in 1..Len(requests[c]) /\ r.op = "PUT_CHUNK"
  <2>1. requests[c] # <<>> /\ Head(requests[c]).op = "PUT_CHUNK" /\ requests[c] \in Seq(R)
    BY <1>2 DEF ServeChunk, UploadInv, QueueTypes
  <2> QED BY <2>1, <1>1, TailIs
<1>4. r \in ChunkRequests
  BY <1>2, <1>3 DEF MetaRequests
<1>5. \/ ApplyChunk(r.upload, r.offset, r.len) /\ Reply(c, 200, r.upload)
      \/ RefuseChunk(r.upload, r.offset, r.len)
  BY <1>3 DEF ServeChunk
<1>6. PICK u, o, len : u = r.upload /\ o = r.offset /\ len = r.len
  BY Zenon
<1>7. u \in DOMAIN sessions /\ o = sessions[u].next_expected_offset /\ o \in Nat
  <2>1. u \in DOMAIN sessions /\ o = sessions[u].next_expected_offset
    BY <1>1, <1>3, <1>6 DEF UploadInv, ChunksExpected
  <2>2. o \in Nat
    BY <1>4, <1>6 DEF ChunkRequests
  <2> QED BY <2>1, <2>2
<1>8. ~ RefuseChunk(u, o, len)
  BY <1>7 DEF RefuseChunk, ChunkRefused
<1>9. ~ IgnoreChunk(u, o, len) /\ ~ BufferChunk(u, o, len)
  BY <1>7 DEF IgnoreChunk, BufferChunk
<1>10. WriteChunk(u, o, len) /\ Reply(c, 200, u)
  BY <1>5, <1>6, <1>8, <1>9 DEF ApplyChunk
<1> QED BY <1>1, <1>3, <1>4, <1>6, <1>10

\* The server's part of it: upload u has come to o + len.
ChunkResult(u, o, len) ==
    /\ SessionsInv'
    /\ used' = used
    /\ DOMAIN files' = DOMAIN files
    /\ \A g \in DOMAIN files : g # target[u] => files'[g] = files[g]
    /\ files[target[u]] = Bytes(u, o) => files'[target[u]] = Bytes(u, o + len)
    /\ DOMAIN sessions' \subseteq DOMAIN sessions
    /\ \A v \in DOMAIN sessions \ {u} : v \in DOMAIN sessions' /\ sessions'[v] = sessions[v]
    /\ o + len < sessions[u].total_size => u \in DOMAIN sessions'
    /\ u \in DOMAIN sessions' =>
          /\ sessions'[u].filename = target[u]
          /\ sessions'[u].total_size = sessions[u].total_size
          /\ sessions'[u].next_expected_offset = o + len
          /\ \A k : k \notin DOMAIN sessions'[u].buffered_chunks

LEMMA ChunkStep ==
    ASSUME Sessions, NEW u \in DOMAIN sessions, NEW o, NEW len,
           o = sessions[u].next_expected_offset, o < sessions[u].total_size,
           len = Length(sessions[u].total_size, o), WriteChunk(u, o, len)
    PROVE  ChunkResult(u, o, len) /\ o \in Nat /\ o + len \in Nat
<1>1. SessionsInv /\ sessions[u].filename = target[u] /\ DOMAIN sessions[u].buffered_chunks = {}
  BY DEF Sessions
<1>2. SessionsInv' /\ \E r : /\ WriteResult(u, sessions[u], r)
                             /\ DOMAIN sessions[u].buffered_chunks = {} => r = o + len
  BY <1>1, WriteStep
<1>3. PICK r : WriteResult(u, sessions[u], r) /\ r = o + len
  BY <1>1, <1>2
<1>4. PICK t : t = sessions[u]
  BY Zenon
<1>5. PICK f, s : f = t.filename /\ s = t.total_size
  BY Zenon
<1>6. SessionOK(t) /\ o \in Nat /\ s \in Nat
  <2>1. SessionOK(t)
    BY <1>1, <1>4 DEF SessionsInv
  <2> QED BY <2>1, <1>4, <1>5, SizeAssumption DEF SessionOK, Session
<1>7. /\ r \in Nat /\ o < r /\ r <= s /\ used' = used
      /\ files' = [files EXCEPT ![f] = Written(@, u, o..(r - 1))]
      /\ \A v \in DOMAIN sessions \ {u} : v \in DOMAIN sessions' /\ sessions'[v] = sessions[v]
      /\ r = s => DOMAIN sessions' = DOMAIN sessions \ {u}
      /\ r # s => /\ DOMAIN sessions' = DOMAIN sessions
                  /\ sessions'[u].filename = f
                  /\ sessions'[u].total_size = s
                  /\ sessions'[u].next_expected_offset = r
                  /\ DOMAIN sessions'[u].buffered_chunks \subseteq DOMAIN t.buffered_chunks
  BY <1>3, <1>4, <1>5 DEF WriteResult
<1>8. f = target[u] /\ f \in DOMAIN files
  BY <1>1, <1>4, <1>5 DEF SessionsInv, SessionTypeOK
<1>9. /\ DOMAIN files' = DOMAIN files
      /\ \A g \in DOMAIN files : g # f => files'[g] = files[g]
      /\ files[f] = Bytes(u, o) => files'[f] = Bytes(u, r)
  <2>1. Written(Bytes(u, o), u, o..(r - 1)) = Bytes(u, r)
    BY <1>6, <1>7, WrittenPrefix
  <2> QED BY <2>1, <1>7, <1>8
<1>10. /\ DOMAIN sessions' \subseteq DOMAIN sessions
       /\ r < s => u \in DOMAIN sessions'
       /\ u \in DOMAIN sessions' =>
            /\ sessions'[u].filename = f
            /\ sessions'[u].total_size = s
            /\ sessions'[u].next_expected_offset = r
            /\ \A k : k \notin DOMAIN sessions'[u].buffered_chunks
  <2>1. CASE r = s
    BY <2>1, <1>7
  <2>2. CASE r # s
    BY <2>2, <1>1, <1>4, <1>7
  <2> QED BY <2>1, <2>2
<1> QED BY <1>2, <1>3, <1>4, <1>5, <1>6, <1>7, <1>8, <1>9, <1>10, Zenon DEF ChunkResult

\* PUT_CHUNK: the upload grows by its chunk, the only one of it on its way.
LEMMA ServeChunkKeeps ==
    ASSUME UploadInv, NEW c \in Clients, ServeChunk(c)
    PROVE  UploadInv'
<1>0. QueueTypes /\ ClientTypes /\ Sessions /\ SessionsInv /\ CallsDistinct /\ HeldByOne
      /\ ChunksExpected /\ OneUnderWay
  BY DEF UploadInv, Sessions
<1>1. PICK r : r = requests[c][1]
  BY Zenon
<1>2. /\ requests[c] # <<>> /\ Head(requests[c]) = r /\ r \in ChunkRequests
      /\ 1 \in 1..Len(requests[c]) /\ r.op = "PUT_CHUNK"
      /\ WriteChunk(r.upload, r.offset, r.len) /\ Reply(c, 200, r.upload)
  BY <1>1, ChunkIsWritten
<1>3. PICK u, o, len : u = r.upload /\ o = r.offset /\ len = r.len
  BY Zenon
<1>4. /\ u \in DOMAIN sessions /\ o = sessions[u].next_expected_offset
      /\ o < sessions[u].total_size /\ len = Length(sessions[u].total_size, o)
  BY <1>0, <1>1, <1>2, <1>3 DEF ChunksExpected
<1>5. ChunkResult(u, o, len) /\ o \in Nat /\ o + len \in Nat
  <2>1. WriteChunk(u, o, len)
    BY <1>2, <1>3
  <2> QED BY <2>1, <1>0, <1>4, ChunkStep
<1>6. r.call \in Nat /\ u \in UploadIds
  BY <1>2, <1>3 DEF ChunkRequests
<1>7. PICK a : a = [call |-> r.call, status |-> 200, upload |-> u]
  BY Zenon
<1>8. /\ a.call = r.call /\ a.status = 200 /\ a.upload = u /\ a \in Answers
  BY <1>6, <1>7 DEF Answers, Accepted
<1>9. /\ requests' = [requests EXCEPT ![c] = Tail(@)]
      /\ answers' = [answers EXCEPT ![c] = Append(@, a)]
      /\ UNCHANGED uploaderVars
  BY <1>2, <1>3, <1>7 DEF Reply
<1>10. QueueTypes' /\ Dequeued(c) /\ Answered(c, a)
  BY <1>0, <1>2, <1>8, <1>9, ReplyQueues
<1>11. /\ UNCHANGED <<stage, call, name, size, upload, offset, result>>
       /\ \A d \in Clients : Len(requests'[d]) \in Nat
  BY <1>9, <1>10 DEF uploaderVars, QueueTypes
<1>12. ClientTypes'
  BY <1>0, <1>11 DEF ClientTypes
<1>13. CallsDistinct'
  BY <1>0, <1>1, <1>2, <1>8, <1>10, <1>11, ServedCalls
<1>14. used' = used /\ target' = target
  BY <1>5 DEF ChunkResult, ServeChunk
<1>15. OneUnderWay' /\ HeldByOne'
  <2>1. Holds(c, u)
    BY <1>1, <1>2, <1>3 DEF Holds, IsChunkOf
  <2>2. Holds(c, a.upload) /\ a.upload \in UploadIds /\ used \subseteq used'
    BY <2>1, <1>6, <1>8, <1>14
  <2> QED BY <2>2, <1>10, <1>11, ServedUploads
<1>16. NoneUnderWay(u)'
  <2> SUFFICES ASSUME NEW e \in Clients, NEW i \in 1..Len(requests'[e]),
                      requests'[e][i].op = "PUT_CHUNK", requests'[e][i].upload = u
               PROVE  FALSE
    BY DEF NoneUnderWay, IsChunkOf
  <2>1. PICK k \in 1..Len(requests[e]) :
            requests'[e][i] = requests[e][k] /\ k = IF e = c THEN i + 1 ELSE i
    BY <1>10 DEF Dequeued
  <2>2. IsChunkOf(e, k, u) /\ IsChunkOf(c, 1, u)
    BY <2>1, <1>1, <1>2, <1>3 DEF IsChunkOf
  <2>3. e = c /\ k = 1
    <3>1. OneUnderWay
      BY <1>0
    <3>2. \A j \in 1..Len(requests[c]) : IsChunkOf(c, j, u) => e = c /\ k = j
      BY <2>1, <2>2, <3>1, <1>6 DEF OneUnderWay
    <3> QED BY <2>2, <3>2, <1>2
  <2>4. i >= 1 /\ i \in Nat
    BY <1>11
  <2> QED BY <2>1, <2>3, <2>4
<1>17. OnlyTouches(u)
  <2> SUFFICES ASSUME NEW v \in used, v # u
               PROVE  /\ v \in DOMAIN sessions =>
                            v \in DOMAIN sessions' /\ sessions'[v] = sessions[v]
                      /\ v \notin disturbed' =>
                            v \notin disturbed /\ files'[target[v]] = files[target[v]]
    BY <1>14 DEF OnlyTouches
  <2>1. v \in DOMAIN sessions => v \in DOMAIN sessions' /\ sessions'[v] = sessions[v]
    BY <1>5 DEF ChunkResult
  <2>2. ASSUME v \notin disturbed'
        PROVE  v \notin disturbed /\ files'[target[v]] = files[target[v]]
    <3>1. disturbed' = IF files' = files THEN disturbed
                       ELSE disturbed \cup Others(u, target[u])
      BY <1>2, <1>3 DEF ServeChunk, Touched
    <3>2. CASE files' = files
      BY <2>2, <3>1, <3>2
    <3>3. CASE files' # files
      <4>1. v \notin disturbed /\ target[v] # target[u]
        BY <2>2, <3>1, <3>3 DEF Others
      <4>2. target[v] \in DOMAIN files
        BY <1>0 DEF Sessions
      <4> QED BY <4>1, <4>2, <1>5 DEF ChunkResult
    <3> QED BY <3>2, <3>3
  <2> QED BY <2>1, <2>2
<1>18. OnDisk(u, o + len)'
  <2> SUFFICES ASSUME u \notin disturbed' PROVE files'[target[u]] = Bytes(u, o + len)
    BY <1>14 DEF OnDisk, Bytes
  <2>1. u \notin disturbed
    BY <1>2, <1>3 DEF ServeChunk, Touched
  <2>2. OnDisk(u, o)
    <3>1. NoneUnderWay(u) \/ OnDisk(u, o)
      BY <1>0, <1>4, <1>5 DEF Sessions
    <3>2. ~ NoneUnderWay(u)
      BY <1>1, <1>2, <1>3 DEF NoneUnderWay, IsChunkOf
    <3> QED BY <3>1, <3>2
  <2> QED BY <2>1, <2>2, <1>5 DEF OnDisk, ChunkResult
<1>19. ChunksExpected'
  <2> SUFFICES ASSUME NEW d \in Clients, NEW i \in 1..Len(requests'[d]),
                      requests'[d][i].op = "PUT_CHUNK"
               PROVE  LET q == requests'[d][i]
                      IN  /\ q.upload \in DOMAIN sessions'
                          /\ q.offset = sessions'[q.upload].next_expected_offset
                          /\ q.offset < sessions'[q.upload].total_size
                          /\ q.len = Length(sessions'[q.upload].total_size, q.offset)
    BY DEF ChunksExpected, Length
  <2>1. PICK k \in 1..Len(requests[d]) : requests'[d][i] = requests[d][k]
    BY <1>10 DEF Dequeued
  <2>2. PICK q : q = requests[d][k]
    BY Zenon
  <2>3. /\ q.upload \in DOMAIN sessions
        /\ q.offset = sessions[q.upload].next_expected_offset
        /\ q.offset < sessions[q.upload].total_size
        /\ q.len = Length(sessions[q.upload].total_size, q.offset)
    BY <1>0, <2>1, <2>2 DEF ChunksExpected
  <2>4. q.upload # u
    BY <2>1, <2>2, <1>16 DEF NoneUnderWay, IsChunkOf
  <2>5. q.upload \in DOMAIN sessions' /\ sessions'[q.upload] = sessions[q.upload]
    BY <2>3, <2>4, <1>5 DEF ChunkResult
  <2> QED BY <2>1, <2>2, <2>3, <2>5
<1>20. Sessions'
  <2>1. \A v \in used' : target'[v] \in DOMAIN files'
    BY <1>0, <1>5, <1>14 DEF Sessions, ChunkResult
  <2>2. ASSUME NEW v \in DOMAIN sessions'
        PROVE  /\ sessions'[v].filename = target'[v]
               /\ DOMAIN sessions'[v].buffered_chunks = {}
               /\ \A m \in Nat : m = sessions'[v].next_expected_offset =>
                      NoneUnderWay(v)' \/ OnDisk(v, m)'
    <3>1. CASE v = u
      <4>1. /\ sessions'[u].filename = target[u]
            /\ sessions'[u].next_expected_offset = o + len
            /\ \A k : k \notin DOMAIN sessions'[u].buffered_chunks
        BY <3>1, <1>5 DEF ChunkResult
      <4>2. \A m \in Nat : m = sessions'[v].next_expected_offset => OnDisk(v, m)'
        BY <4>1, <3>1, <1>18, Zenon
      <4> QED BY <4>1, <4>2, <3>1, <1>14
    <3>2. CASE v # u
      <4>1. v \in DOMAIN sessions /\ sessions'[v] = sessions[v] /\ v \in used
        BY <3>2, <1>0, <1>5 DEF SessionsInv, SessionTypeOK, ChunkResult
      <4>2. /\ sessions[v].filename = target[v]
            /\ DOMAIN sessions[v].buffered_chunks = {}
            /\ \A m \in Nat : m = sessions[v].next_expected_offset =>
                   NoneUnderWay(v) \/ OnDisk(v, m)
        BY <4>1, <1>0 DEF Sessions
      <4>3. ASSUME NEW m \in Nat, OnDisk(v, m) PROVE OnDisk(v, m)'
        BY <4>1, <4>3, <3>2, <1>17 DEF OnlyTouches, OnDisk, Bytes
      <4>4. NoneUnderWay(v) => NoneUnderWay(v)'
        BY <1>10, NoneStays
      <4> QED BY <4>1, <4>2, <4>3, <4>4, <1>14
    <3> QED BY <3>1, <3>2
  <2>3. SessionsInv' /\ DOMAIN target' = used'
    BY <1>0, <1>5, <1>14 DEF Sessions, ChunkResult
  <2> QED BY <2>1, <2>2, <2>3 DEF Sessions
<1>21. ASSUME NEW d \in Clients PROVE Waiting(d)'
  <2>1. Waiting(d) /\ used \subseteq UploadIds
    BY <1>0 DEF UploadInv, SessionsInv, SessionTypeOK
  <2>2. \A i \in 1..Len(requests'[d]) :
            \E j \in 1..Len(requests[d]) : requests'[d][i] = requests[d][j]
    BY <1>10 DEF Dequeued
  <2>3. \A v \in used : v \in used' /\ target'[v] = target[v]
    BY <1>14
  <2>4. \A v \in UploadIds, n \in Nat : Holds(d, v) /\ Ready(d, v, n) => Ready(d, v, n)'
    <3> SUFFICES ASSUME NEW v \in UploadIds, NEW n \in Nat, Ready(d, v, n)
                 PROVE  Ready(d, v, n)'
      BY Zenon
    <3>1. v # u
      BY <1>1, <1>2, <1>3 DEF Ready, NoneUnderWay, IsChunkOf
    <3> QED BY <3>1, <1>10, <1>11, <1>17, ReadyServed
  <2>5. ASSUME d = c, a.call = call[d]
        PROVE  /\ stage[d] # "META"
               /\ stage[d] = "CHUNK" =>
                     /\ u = upload[d] /\ o + len = offset[d] + Length(size[d], offset[d])
                     /\ Ready(d, u, o + len)'
    <3>1. stage[d] # "META"
      <4> SUFFICES ASSUME stage[d] = "META" PROVE FALSE
        OBVIOUS
      <4>1. r.op = "PUT_META"
        BY <2>1, <2>5, <1>1, <1>2, <1>8 DEF Waiting, AwaitsMeta
      <4> QED BY <4>1, <1>2
    <3>2. ASSUME stage[d] = "CHUNK"
          PROVE  /\ u = upload[d] /\ o + len = offset[d] + Length(size[d], offset[d])
                 /\ Ready(d, u, o + len)'
      <4>1. /\ upload[d] = u /\ offset[d] = o /\ sessions[u].total_size = size[d]
            /\ u \in used /\ target[u] = name[d]
        BY <2>1, <2>5, <3>2, <1>1, <1>2, <1>3, <1>8 DEF Waiting, AwaitsChunk
      <4>2. o + len < size'[d] =>
              /\ u \in DOMAIN sessions'
              /\ sessions'[u].next_expected_offset = o + len
              /\ sessions'[u].total_size = size'[d]
        BY <4>1, <1>5, <1>11 DEF ChunkResult
      <4>3. Ready(d, u, o + len)'
        BY <4>1, <4>2, <1>11, <1>14, <1>16, <1>18, Zenon DEF Ready
      <4> QED BY <4>1, <4>3, <1>4
    <3> QED BY <3>1, <3>2
  <2>6. \A i \in 1..Len(answers'[d]) :
              \/ \E j \in 1..Len(answers[d]) : answers'[d][i] = answers[d][j]
              \/ answers'[d][i].call = call[d] /\ answers'[d][i].status = 200 =>
                    /\ stage[d] = "META" =>
                          \A v \in UploadIds : v = answers'[d][i].upload => Ready(d, v, 0)'
                    /\ stage[d] = "CHUNK" =>
                          \A v \in UploadIds, n \in Nat :
                              v = upload[d] /\ n = offset[d] + Length(size[d], offset[d]) =>
                                  Ready(d, v, n)'
    <3> SUFFICES ASSUME NEW i \in 1..Len(answers'[d]), d = c, answers'[d][i] = a,
                        a.call = call[d]
                 PROVE  /\ stage[d] # "META"
                        /\ stage[d] = "CHUNK" =>
                              \A v \in UploadIds, n \in Nat :
                                  v = upload[d] /\ n = offset[d] + Length(size[d], offset[d]) =>
                                      Ready(d, v, n)'
      BY <1>10 DEF Answered
    <3> QED BY <2>5, Zenon
  <2>7. \A i \in 1..Len(requests'[d]) : requests'[d][i].op = "PUT_CHUNK" =>
            sessions'[requests'[d][i].upload].total_size =
                sessions[requests'[d][i].upload].total_size
    <3> SUFFICES ASSUME NEW i \in 1..Len(requests'[d]), requests'[d][i].op = "PUT_CHUNK"
                 PROVE  sessions'[requests'[d][i].upload] = sessions[requests'[d][i].upload]
      BY Zenon
    <3>1. PICK k \in 1..Len(requests[d]) : requests'[d][i] = requests[d][k]
      BY <2>2
    <3>2. requests[d][k].upload \in DOMAIN sessions /\ requests[d][k].upload # u
      BY <3>1, <1>0, <1>16 DEF ChunksExpected, NoneUnderWay, IsChunkOf
    <3> QED BY <3>1, <3>2, <1>5 DEF ChunkResult
  <2> QED BY <2>1, <2>2, <2>3, <2>4, <2>6, <2>7, <1>0, <1>11, WaitingFrame
<1> QED BY <1>10, <1>12, <1>13, <1>15, <1>19, <1>20, <1>21 DEF UploadInv

\* A handler that raised has changed no session, and no file but that of w: an
\* upload of which nothing is on its way any more, or none (NoUpload).
LEMMA RaisedKeeps ==
    ASSUME UploadInv, NEW c \in Clients, requests[c] # <<>>, NEW w, Reply(c, 500, w),
           UNCHANGED <<sessions, used, target>>, OnlyTouches(w),
           DOMAIN files \subseteq DOMAIN files', DOMAIN files' \subseteq Filenames,
           w = NoUpload \/ (w \in UploadIds /\ IsChunkOf(c, 1, w))
    PROVE  UploadInv'
<1>0. QueueTypes /\ ClientTypes /\ Sessions /\ SessionsInv /\ CallsDistinct /\ HeldByOne
      /\ ChunksExpected /\ OneUnderWay /\ used \subseteq UploadIds
  <2>1. QueueTypes /\ ClientTypes /\ Sessions /\ CallsDistinct /\ HeldByOne
        /\ ChunksExpected /\ OneUnderWay
    BY DEF UploadInv
  <2>2. SessionsInv
    BY <2>1 DEF Sessions
  <2>3. used \subseteq UploadIds
    BY <2>2 DEF SessionsInv, SessionTypeOK
  <2> QED BY <2>1, <2>2, <2>3
<1>1. PICK r : r = requests[c][1]
  BY Zenon
<1>2. PICK R : R = MetaRequests \cup ChunkRequests
  BY Zenon
<1>3. requests[c] # <<>> /\ Head(requests[c]) = r /\ r \in R /\ 1 \in 1..Len(requests[c])
  <2>1. requests[c] \in Seq(R)
    BY <1>0, <1>2 DEF QueueTypes
  <2> QED BY <2>1, <1>1, TailIs
<1>4. r.call \in Nat
  BY <1>2, <1>3 DEF MetaRequests, ChunkRequests
<1>5. PICK a : a = [call |-> r.call, status |-> 500, upload |-> w]
  BY Zenon
<1>6. a.call = r.call /\ a.status = 500 /\ a.upload = w /\ a \in Answers
  BY <1>4, <1>5 DEF Answers, Raised
<1>7. /\ requests' = [requests EXCEPT ![c] = Tail(@)]
      /\ answers' = [answers EXCEPT ![c] = Append(@, a)]
      /\ UNCHANGED uploaderVars
  BY <1>3, <1>5 DEF Reply
<1>8. QueueTypes' /\ Dequeued(c) /\ Answered(c, a)
  <2>1. QueueTypes /\ requests[c] # <<>> /\ a \in Answers
    BY <1>0, <1>6
  <2> QED BY <2>1, <1>7, ReplyQueues
<1>9. /\ UNCHANGED <<stage, call, name, size, upload, offset, result>>
      /\ \A d \in Clients : Len(requests'[d]) \in Nat
  BY <1>7, <1>8 DEF uploaderVars, QueueTypes
<1>10. ClientTypes'
  BY <1>0, <1>9 DEF ClientTypes
<1>11. CallsDistinct'
  BY <1>0, <1>1, <1>3, <1>6, <1>8, <1>9, ServedCalls
<1>12. OneUnderWay' /\ HeldByOne'
  <2>1. \/ Holds(c, a.upload) /\ a.upload \in UploadIds
        \/ a.upload \notin UploadIds
    BY <1>3, <1>6, NoUploadAssumption DEF Holds
  <2> QED BY <2>1, <1>8, <1>9, ServedUploads
<1>13. ChunksExpected'
  <2> SUFFICES ASSUME NEW d \in Clients, NEW i \in 1..Len(requests'[d]),
                      requests'[d][i].op = "PUT_CHUNK"
               PROVE  LET q == requests'[d][i]
                      IN  /\ q.upload \in DOMAIN sessions
                          /\ q.offset = sessions[q.upload].next_expected_offset
                          /\ q.offset < sessions[q.upload].total_size
                          /\ q.len = Length(sessions[q.upload].total_size, q.offset)
    BY DEF ChunksExpected, Length
  <2>1. PICK k \in 1..Len(requests[d]) : requests'[d][i] = requests[d][k]
    BY <1>8 DEF Dequeued
  <2> QED BY <2>1, <1>0 DEF ChunksExpected
<1>14. w \in UploadIds => NoneUnderWay(w)'
  <2> SUFFICES ASSUME IsChunkOf(c, 1, w), w \in UploadIds,
                      NEW e \in Clients, NEW i \in 1..Len(requests'[e]),
                      requests'[e][i].op = "PUT_CHUNK", requests'[e][i].upload = w
               PROVE  FALSE
    BY NoUploadAssumption DEF NoneUnderWay, IsChunkOf
  <2>1. PICK k \in 1..Len(requests[e]) :
            requests'[e][i] = requests[e][k] /\ k = IF e = c THEN i + 1 ELSE i
    BY <1>8 DEF Dequeued
  <2>2. IsChunkOf(e, k, w)
    BY <2>1 DEF IsChunkOf
  <2>3. e = c /\ k = 1
    <3>1. \A j \in 1..Len(requests[c]) : IsChunkOf(c, j, w) => e = c /\ k = j
      BY <2>1, <2>2, <1>0 DEF OneUnderWay
    <3> QED BY <3>1, <1>3
  <2>4. i >= 1 /\ i \in Nat
    BY <1>9
  <2> QED BY <2>1, <2>3, <2>4
<1>15. Sessions'
  <2>1. SessionsInv'
    BY <1>0 DEF SessionsInv, SessionTypeOK
  <2>2. ASSUME NEW v \in DOMAIN sessions, NEW m \in Nat,
               m = sessions[v].next_expected_offset
        PROVE  NoneUnderWay(v)' \/ OnDisk(v, m)'
    <3>1. v \in used /\ v \in UploadIds
      BY <1>0 DEF SessionsInv, SessionTypeOK
    <3>2. CASE v = w
      BY <3>1, <3>2, <1>14
    <3>3. CASE v # w
      <4>1. NoneUnderWay(v) \/ OnDisk(v, m)
        BY <2>2, <1>0 DEF Sessions
      <4>2. NoneUnderWay(v) => NoneUnderWay(v)'
        BY <1>8, NoneStays
      <4>3. OnDisk(v, m) => OnDisk(v, m)'
        BY <3>1, <3>3 DEF OnlyTouches, OnDisk, Bytes
      <4> QED BY <4>1, <4>2, <4>3
    <3> QED BY <3>2, <3>3
  <2>3. \A v \in DOMAIN sessions :
            sessions[v].filename = target[v] /\ DOMAIN sessions[v].buffered_chunks = {}
    BY <1>0 DEF Sessions
  <2>4. DOMAIN target = used /\ \A v \in used : target[v] \in DOMAIN files'
    BY <1>0 DEF Sessions
  <2> QED BY <2>1, <2>2, <2>3, <2>4 DEF Sessions
<1>16. ASSUME NEW d \in Clients PROVE Waiting(d)'
  <2>1. Waiting(d)
    BY DEF UploadInv
  <2>2. \A i \in 1..Len(requests'[d]) :
            \E j \in 1..Len(requests[d]) : requests'[d][i] = requests[d][j]
    BY <1>8 DEF Dequeued
  <2>3. ASSUME NEW v \in UploadIds, NEW o \in Nat, Ready(d, v, o) PROVE Ready(d, v, o)'
    <3>1. v # w
      BY <2>3, <1>3, NoUploadAssumption DEF Ready, NoneUnderWay
    <3> QED BY <2>3, <3>1, <1>8, <1>9, ReadyServed
  <2>4. \A i \in 1..Len(answers'[d]) :
            \/ \E j \in 1..Len(answers[d]) : answers'[d][i] = answers[d][j]
            \/ answers'[d][i].call = call[d] /\ answers'[d][i].status = 200 =>
                  /\ stage[d] = "META" =>
                        \A v \in UploadIds : v = answers'[d][i].upload => Ready(d, v, 0)'
                  /\ stage[d] = "CHUNK" =>
                        \A v \in UploadIds, n \in Nat :
                            v = upload[d] /\ n = offset[d] + Length(size[d], offset[d]) =>
                                Ready(d, v, n)'
    <3>1. \A i \in 1..Len(answers'[d]) :
              \/ \E j \in 1..Len(answers[d]) : answers'[d][i] = answers[d][j]
              \/ answers'[d][i].status # 200
      BY <1>6, <1>8 DEF Answered
    <3> QED BY <3>1, Zenon
  <2>5. \A v \in used : v \in used' /\ target'[v] = target[v]
    OBVIOUS
  <2>6. \A i \in 1..Len(requests'[d]) : requests'[d][i].op = "PUT_CHUNK" =>
            sessions'[requests'[d][i].upload].total_size =
                sessions[requests'[d][i].upload].total_size
    OBVIOUS
  <2>7. \A v \in UploadIds, o \in Nat : Holds(d, v) /\ Ready(d, v, o) => Ready(d, v, o)'
    BY <2>3, Zenon
  <2>8. ClientTypes /\ QueueTypes /\ HeldByOne /\ used \subseteq UploadIds
    BY <1>0
  <2> QED BY <2>1, <2>2, <2>4, <2>5, <2>6, <2>7, <2>8, <1>9, WaitingFrame
<1> QED BY <1>8, <1>10, <1>11, <1>12, <1>13, <1>15, <1>16 DEF UploadInv

LEMMA FailRequestKeeps ==
    ASSUME UploadInv, NEW c \in Clients, FailRequest(c)
    PROVE  UploadInv'
<1>0. QueueTypes /\ Sessions /\ SessionTypeOK /\ ChunksExpected /\ requests[c] # <<>>
      /\ target' = target /\ \A v \in used : v \in UploadIds /\ target[v] \in DOMAIN files
  BY DEF UploadInv, Sessions, SessionsInv, SessionTypeOK, FailRequest
<1>1. PICK r : r = requests[c][1]
  BY Zenon
<1>2. Head(requests[c]) = r /\ r \in MetaRequests \cup ChunkRequests
      /\ 1 \in 1..Len(requests[c])
  <2>1. PICK R : R = MetaRequests \cup ChunkRequests
    BY Zenon
  <2>2. requests[c] \in Seq(R)
    BY <1>0, <2>1 DEF QueueTypes
  <2> QED BY <1>0, <1>1, <2>1, <2>2, TailIs
\* PUT_META: its file is emptied, or nothing has happened.
<1>3. CASE r.op = "PUT_META"
  <2>1. /\ FailMeta(r.name, r.size, TRUE) /\ Reply(c, 500, NoUpload)
        /\ Touched(NoUpload, r.name)
    BY <1>2, <1>3 DEF FailRequest
  <2>2. PICK f : f = r.name
    BY Zenon
  <2>3. f \in Filenames
    BY <1>2, <1>3, <2>2 DEF MetaRequests, ChunkRequests
  <2>4. /\ files' = files \/ files' = Emptied(f)
        /\ UNCHANGED <<sessions, used>>
    BY <2>1, <2>2 DEF FailMeta
  <2>5. /\ DOMAIN files \subseteq DOMAIN files' /\ DOMAIN files' \subseteq Filenames
        /\ \A g \in DOMAIN files : g # f => files'[g] = files[g]
    BY <1>0, <2>3, <2>4 DEF Emptied, SessionTypeOK
  <2>6. ASSUME NEW v \in used, v \notin disturbed'
        PROVE  v \notin disturbed /\ files'[target[v]] = files[target[v]]
    <3>1. CASE files' = files
      BY <2>1, <2>6, <3>1 DEF Touched
    <3>2. CASE files' # files
      <4>1. v \notin disturbed /\ v \notin Others(NoUpload, f)
        BY <2>1, <2>2, <2>6, <3>2 DEF Touched
      <4>2. target[v] # f
        BY <1>0, <4>1, NoUploadAssumption DEF Others
      <4> QED BY <1>0, <2>5, <4>1, <4>2
    <3> QED BY <3>1, <3>2
  <2>7. OnlyTouches(NoUpload)
    BY <1>0, <2>4, <2>6 DEF OnlyTouches
  <2> QED BY <1>0, <2>1, <2>4, <2>5, <2>7, RaisedKeeps
\* PUT_CHUNK: a part of the chunk is written.
<1>4. CASE r.op = "PUT_CHUNK"
  <2>1. /\ FailChunk(r.upload, r.offset, r.len) /\ Reply(c, 500, r.upload)
        /\ Touched(r.upload, target[r.upload])
    BY <1>2, <1>4 DEF FailRequest
  <2>2. PICK u : u = r.upload
    BY Zenon
  <2>3. u \in DOMAIN sessions /\ u \in used /\ u \in UploadIds /\ IsChunkOf(c, 1, u)
    <3>1. u \in DOMAIN sessions
      BY <2>1, <2>2 DEF FailChunk
    <3>2. IsChunkOf(c, 1, u)
      BY <1>1, <1>4, <2>2 DEF IsChunkOf
    <3> QED BY <1>0, <3>1, <3>2 DEF SessionTypeOK
  <2>4. sessions[u].filename = target[u]
    BY <1>0, <2>3 DEF Sessions
  <2>5. UNCHANGED <<sessions, used>> /\ \E F : files' = [files EXCEPT ![target[u]] = F]
    BY <2>1, <2>2, <2>4 DEF FailChunk
  <2>6. /\ DOMAIN files' = DOMAIN files
        /\ \A g \in DOMAIN files : g # target[u] => files'[g] = files[g]
    BY <2>5
  <2>7. ASSUME NEW v \in used, v # u, v \notin disturbed'
        PROVE  v \notin disturbed /\ files'[target[v]] = files[target[v]]
    <3>1. CASE files' = files
      BY <2>1, <2>7, <3>1 DEF Touched
    <3>2. CASE files' # files
      <4>1. v \notin disturbed /\ v \notin Others(u, target[u])
        BY <2>1, <2>2, <2>7, <3>2 DEF Touched
      <4>2. target[v] # target[u]
        BY <2>7, <4>1 DEF Others
      <4> QED BY <1>0, <2>6, <4>1, <4>2
    <3> QED BY <3>1, <3>2
  <2>8. OnlyTouches(u)
    BY <1>0, <2>5, <2>7 DEF OnlyTouches
  <2>9. DOMAIN files' \subseteq Filenames
    BY <1>0, <2>6 DEF SessionTypeOK
  <2> QED BY <1>0, <2>1, <2>2, <2>3, <2>5, <2>6, <2>8, <2>9, RaisedKeeps
<1> QED BY <1>2, <1>3, <1>4 DEF FailRequest

\* A step of client c leaves the server and the other clients alone, and c gets
\* no new answer.
ClientStep(c) ==
    /\ UNCHANGED <<sessions, files, used, target, disturbed>>
    /\ \A d \in Clients : d # c =>
          /\ stage'[d] = stage[d] /\ call'[d] = call[d] /\ name'[d] = name[d]
          /\ size'[d] = size[d] /\ upload'[d] = upload[d] /\ offset'[d] = offset[d]
          /\ result'[d] = result[d]
    /\ \A d \in Clients : \A i \in 1..Len(answers'[d]) :
          \E j \in 1..Len(answers[d]) : answers'[d][i] = answers[d][j]

\* A chunk that c may send: the next one of an upload of c of which none is on
\* its way.
SendableChunk(c, q) ==
    /\ q.upload \in UploadIds
    /\ Holds(c, q.upload)
    /\ NoneUnderWay(q.upload)
    /\ q.upload \in DOMAIN sessions
    /\ OnDisk(q.upload, q.offset)
    /\ q.offset = sessions[q.upload].next_expected_offset
    /\ q.offset < sessions[q.upload].total_size
    /\ q.len = Length(sessions[q.upload].total_size, q.offset)

\* The requests stay, and c may have sent q, with the number of its new call.
Sent(c, q) ==
    \A d \in Clients : \A i \in 1..Len(requests'[d]) :
        \/ i \in 1..Len(requests[d]) /\ requests'[d][i] = requests[d][i]
        \/ /\ d = c /\ i = Len(requests[c]) + 1 /\ requests'[d][i] = q
           /\ q.call = call'[c] /\ call'[c] = call[c] + 1
           /\ q.op = "PUT_CHUNK" => SendableChunk(c, q)

LEMMA ReadyStays ==
    ASSUME UNCHANGED <<sessions, files, used, target, disturbed>>,
           NEW d, name'[d] = name[d], size'[d] = size[d],
           NEW u, NEW o, Ready(d, u, o), NoneUnderWay(u)'
    PROVE  Ready(d, u, o)'
  BY DEF Ready, OnDisk, Bytes

LEMMA SentNotOf ==
    ASSUME NEW c \in Clients, NEW q, Sent(c, q), NEW u, NoneUnderWay(u),
           q.op = "PUT_CHUNK" /\ SendableChunk(c, q) => q.upload # u
    PROVE  NoneUnderWay(u)'
<1> SUFFICES ASSUME NEW e \in Clients, NEW i \in 1..Len(requests'[e]),
                    requests'[e][i].op = "PUT_CHUNK", requests'[e][i].upload = u
             PROVE  FALSE
  BY DEF NoneUnderWay, IsChunkOf
<1>1. CASE i \in 1..Len(requests[e]) /\ requests'[e][i] = requests[e][i]
  BY <1>1 DEF NoneUnderWay, IsChunkOf
<1>2. CASE requests'[e][i] = q /\ (q.op = "PUT_CHUNK" => SendableChunk(c, q))
  BY <1>2
<1> QED BY <1>1, <1>2 DEF Sent

\* A step of a client keeps the invariant if what c then waits for is right.
LEMMA ClientKeeps ==
    ASSUME UploadInv, NEW c \in Clients, ClientStep(c), NEW q, Sent(c, q),
           ClientTypes', QueueTypes', call[c] <= call'[c], Waiting(c)',
           \A u \in UploadIds : upload'[c] = u => Holds(c, u)
    PROVE  UploadInv'
<1>0. /\ QueueTypes /\ ClientTypes /\ Sessions /\ SessionsInv /\ HeldByOne
      /\ UNCHANGED <<sessions, files, used, target, disturbed>>
      /\ \A d \in Clients : call[d] \in Nat /\ call'[d] \in Nat /\ Len(requests[d]) \in Nat
  <2>1. /\ QueueTypes /\ ClientTypes /\ Sessions /\ SessionsInv /\ HeldByOne
        /\ UNCHANGED <<sessions, files, used, target, disturbed>>
    BY DEF UploadInv, Sessions, ClientStep
  <2>2. \A d \in Clients : call[d] \in Nat /\ call'[d] \in Nat
    BY <2>1 DEF ClientTypes
  <2>3. \A d \in Clients : Len(requests[d]) \in Nat
    <3>1. PICK R : R = MetaRequests \cup ChunkRequests
      BY Zenon
    <3>2. \A d \in Clients : requests[d] \in Seq(R)
      BY <2>1, <3>1 DEF QueueTypes
    <3> QED BY <3>2
  <2> QED BY <2>1, <2>2, <2>3
<1>1. CallsDistinct
  BY DEF UploadInv
<1>2. CallsDistinct'
  <2> SUFFICES ASSUME NEW d \in Clients
               PROVE  /\ \A i \in 1..Len(requests'[d]) : requests'[d][i].call <= call'[d]
                      /\ \A i, j \in 1..Len(requests'[d]) :
                            requests'[d][i].call = requests'[d][j].call => i = j
                      /\ \A i \in 1..Len(answers'[d]) :
                            /\ answers'[d][i].call <= call'[d]
                            /\ \A j \in 1..Len(requests'[d]) :
                                  answers'[d][i].call # requests'[d][j].call
    BY DEF CallsDistinct
  <2>0. call[d] <= call'[d]
    <3>1. CASE d = c
      BY <3>1
    <3>2. CASE d # c
      BY <3>2, <1>0 DEF ClientStep
    <3> QED BY <3>1, <3>2
  <2>1. /\ \A i \in 1..Len(requests[d]) :
              requests[d][i].call <= call[d] /\ requests[d][i].call \in Nat
        /\ \A i, j \in 1..Len(requests[d]) :
              requests[d][i].call = requests[d][j].call => i = j
        /\ \A i \in 1..Len(answers[d]) :
              /\ answers[d][i].call <= call[d]
              /\ answers[d][i].call \in Nat
              /\ \A j \in 1..Len(requests[d]) : answers[d][i].call # requests[d][j].call
    <3>1. \A i \in 1..Len(requests[d]) : requests[d][i].call \in Nat
      <4> SUFFICES ASSUME NEW i \in 1..Len(requests[d]) PROVE requests[d][i].call \in Nat
        OBVIOUS
      <4>1. requests[d][i] \in MetaRequests \cup ChunkRequests
        <5>1. PICK R : R = MetaRequests \cup ChunkRequests
          BY Zenon
        <5>2. requests[d] \in Seq(R)
          BY <5>1, <1>0 DEF QueueTypes
        <5> QED BY <5>1, <5>2
      <4> QED BY <4>1 DEF MetaRequests, ChunkRequests
    <3>2. \A i \in 1..Len(answers[d]) : answers[d][i].call \in Nat
      <4> SUFFICES ASSUME NEW i \in 1..Len(answers[d]) PROVE answers[d][i].call \in Nat
        OBVIOUS
      <4>1. answers[d] \in Seq(Answers)
        BY <1>0 DEF QueueTypes
      <4>2. answers[d][i] \in Answers
        BY <4>1
      <4> QED BY <4>2 DEF Answers, Accepted, Raised
    <3> QED BY <3>1, <3>2, <1>1 DEF CallsDistinct
  <2>2. \A i \in 1..Len(requests'[d]) :
            \/ i \in 1..Len(requests[d]) /\ requests'[d][i].call = requests[d][i].call
            \/ i = Len(requests[d]) + 1 /\ requests'[d][i].call = call[d] + 1
               /\ call'[d] = call[d] + 1
    BY DEF Sent
  <2>n. call[d] \in Nat /\ call'[d] \in Nat
    BY <1>0
  <2>3. ASSUME NEW i \in 1..Len(requests'[d]) PROVE requests'[d][i].call <= call'[d]
    <3>1. CASE i \in 1..Len(requests[d]) /\ requests'[d][i].call = requests[d][i].call
      <4>1. PICK m \in Nat : m = requests[d][i].call /\ m <= call[d]
        BY <2>1, <3>1
      <4> QED BY <4>1, <3>1, <2>0, <2>n
    <3>2. CASE requests'[d][i].call = call[d] + 1 /\ call'[d] = call[d] + 1
      BY <3>2, <2>n
    <3> QED BY <2>2, <3>1, <3>2
  <2>4. ASSUME NEW i \in 1..Len(requests'[d]), NEW j \in 1..Len(requests'[d]),
               requests'[d][i].call = requests'[d][j].call
        PROVE  i = j
    <3>1. \A k \in 1..Len(requests[d]) : requests[d][k].call # call[d] + 1
      BY <2>1, <2>n
    <3>2. CASE /\ i \in 1..Len(requests[d]) /\ requests'[d][i].call = requests[d][i].call
               /\ j \in 1..Len(requests[d]) /\ requests'[d][j].call = requests[d][j].call
      <4>1. requests[d][i].call = requests[d][j].call
        BY <3>2, <2>4
      <4> QED BY <4>1, <3>2, <2>1
    <3>3. CASE i = Len(requests[d]) + 1 /\ requests'[d][i].call = call[d] + 1
      BY <3>1, <3>3, <2>2, <2>4
    <3>4. CASE j = Len(requests[d]) + 1 /\ requests'[d][j].call = call[d] + 1
      BY <3>1, <3>4, <2>2, <2>4
    <3> QED BY <3>2, <3>3, <3>4, <2>2
  <2>5. ASSUME NEW i \in 1..Len(answers'[d])
        PROVE  /\ answers'[d][i].call <= call'[d]
               /\ \A j \in 1..Len(requests'[d]) : answers'[d][i].call # requests'[d][j].call
    <3>1. PICK k \in 1..Len(answers[d]) : answers'[d][i] = answers[d][k]
      BY DEF ClientStep
    <3>2. PICK a : a = answers[d][k].call
      BY Zenon
    <3>3. /\ a <= call[d] /\ a \in Nat
          /\ \A j \in 1..Len(requests[d]) : a # requests[d][j].call
      BY <2>1, <3>2
    <3>4. ASSUME NEW j \in 1..Len(requests'[d]) PROVE a # requests'[d][j].call
      <4>1. a # call[d] + 1
        BY <3>3, <2>n
      <4>2. CASE j \in 1..Len(requests[d]) /\ requests'[d][j].call = requests[d][j].call
        BY <4>2, <3>3
      <4>3. CASE requests'[d][j].call = call[d] + 1
        BY <4>1, <4>3
      <4> QED BY <4>2, <4>3, <2>2
    <3>5. a <= call'[d]
      BY <2>0, <2>n, <3>3
    <3> QED BY <3>1, <3>2, <3>3, <3>4, <3>5
  <2> QED BY <2>3, <2>4, <2>5
<1>3. ChunksExpected'
  <2> SUFFICES ASSUME NEW d \in Clients, NEW i \in 1..Len(requests'[d]),
                      requests'[d][i].op = "PUT_CHUNK"
               PROVE  LET r == requests'[d][i]
                      IN  /\ r.upload \in DOMAIN sessions
                          /\ r.offset = sessions[r.upload].next_expected_offset
                          /\ r.offset < sessions[r.upload].total_size
                          /\ r.len = Length(sessions[r.upload].total_size, r.offset)
    BY <1>0 DEF ChunksExpected, Length
  <2>1. ChunksExpected
    BY DEF UploadInv
  <2>2. CASE i \in 1..Len(requests[d]) /\ requests'[d][i] = requests[d][i]
    BY <2>1, <2>2 DEF ChunksExpected
  <2>3. CASE requests'[d][i] = q /\ (q.op = "PUT_CHUNK" => SendableChunk(c, q))
    BY <2>3 DEF SendableChunk
  <2> QED BY <2>2, <2>3 DEF Sent
<1>4. OneUnderWay'
  <2> SUFFICES ASSUME NEW d \in Clients, NEW e \in Clients, NEW u \in UploadIds,
                      NEW i \in 1..Len(requests'[d]), NEW j \in 1..Len(requests'[e]),
                      requests'[d][i].op = "PUT_CHUNK", requests'[d][i].upload = u,
                      requests'[e][j].op = "PUT_CHUNK", requests'[e][j].upload = u
               PROVE  d = e /\ i = j
    BY DEF OneUnderWay, IsChunkOf
  <2>1. OneUnderWay
    BY DEF UploadInv
  <2>2. \/ i \in 1..Len(requests[d]) /\ IsChunkOf(d, i, u)
        \/ d = c /\ i = Len(requests[c]) + 1 /\ NoneUnderWay(u)
    BY DEF Sent, IsChunkOf, SendableChunk
  <2>3. \/ j \in 1..Len(requests[e]) /\ IsChunkOf(e, j, u)
        \/ e = c /\ j = Len(requests[c]) + 1 /\ NoneUnderWay(u)
    BY DEF Sent, IsChunkOf, SendableChunk
  <2>4. CASE NoneUnderWay(u)
    BY <2>2, <2>3, <2>4 DEF NoneUnderWay
  <2>5. CASE ~ NoneUnderWay(u)
    BY <2>1, <2>2, <2>3, <2>5, Zenon DEF OneUnderWay
  <2> QED BY <2>4, <2>5
<1>5. HeldByOne'
  <2>1. ASSUME NEW d \in Clients, NEW u \in UploadIds, Holds(d, u)' PROVE Holds(d, u)
    <3>1. CASE upload'[d] = u
      <4>1. CASE d = c
        BY <3>1, <4>1
      <4>2. CASE d # c
        BY <3>1, <4>2 DEF ClientStep, Holds
      <4> QED BY <4>1, <4>2
    <3>2. CASE \E i \in 1..Len(requests'[d]) : IsChunkOf(d, i, u)'
      <4>1. PICK i \in 1..Len(requests'[d]) :
                requests'[d][i].op = "PUT_CHUNK" /\ requests'[d][i].upload = u
        BY <3>2 DEF IsChunkOf
      <4>2. CASE i \in 1..Len(requests[d]) /\ requests'[d][i] = requests[d][i]
        BY <4>1, <4>2 DEF Holds, IsChunkOf
      <4>3. CASE /\ d = c /\ requests'[d][i] = q
                 /\ q.op = "PUT_CHUNK" => SendableChunk(c, q)
        BY <4>1, <4>3 DEF SendableChunk
      <4> QED BY <4>2, <4>3 DEF Sent
    <3>3. CASE \E i \in 1..Len(answers'[d]) : answers'[d][i].upload = u
      <4>1. PICK i \in 1..Len(answers'[d]) : answers'[d][i].upload = u
        BY <3>3
      <4>2. PICK j \in 1..Len(answers[d]) : answers'[d][i] = answers[d][j]
        BY DEF ClientStep
      <4>3. answers[d][j].upload = u
        BY <4>1, <4>2
      <4> QED BY <4>3 DEF Holds
    <3> QED BY <2>1, <3>1, <3>2, <3>3 DEF Holds
  <2> QED BY <2>1, <1>0, Zenon DEF HeldByOne
<1>6. Sessions'
  <2>1. ASSUME NEW u \in DOMAIN sessions, NEW m \in Nat,
               m = sessions[u].next_expected_offset, NoneUnderWay(u)
        PROVE  NoneUnderWay(u)' \/ OnDisk(u, m)
    <3>1. CASE q.op = "PUT_CHUNK" /\ SendableChunk(c, q) /\ q.upload = u
      BY <2>1, <3>1 DEF SendableChunk
    <3>2. CASE ~ (q.op = "PUT_CHUNK" /\ SendableChunk(c, q) /\ q.upload = u)
      <4>1. q.op = "PUT_CHUNK" /\ SendableChunk(c, q) => q.upload # u
        BY <3>2
      <4>2. NoneUnderWay(u)'
        BY <2>1, <4>1, SentNotOf
      <4> QED BY <4>2
    <3> QED BY <3>1, <3>2
  <2>2. \A u, m : OnDisk(u, m)' <=> OnDisk(u, m)
    BY <1>0 DEF OnDisk, Bytes
  <2>3. \A u \in DOMAIN sessions' : \A m \in Nat :
            m = sessions'[u].next_expected_offset => NoneUnderWay(u)' \/ OnDisk(u, m)'
    BY <1>0, <2>1, <2>2 DEF Sessions
  <2>4. SessionsInv'
    BY <1>0 DEF SessionsInv, SessionTypeOK
  <2> QED BY <1>0, <2>3, <2>4 DEF Sessions
<1>7. ASSUME NEW d \in Clients, d # c PROVE Waiting(d)'
  <2>1. Waiting(d) /\ used \subseteq UploadIds
    BY <1>0 DEF UploadInv, SessionsInv, SessionTypeOK
  <2>2. /\ stage'[d] = stage[d] /\ call'[d] = call[d] /\ name'[d] = name[d]
        /\ size'[d] = size[d] /\ upload'[d] = upload[d] /\ offset'[d] = offset[d]
        /\ result'[d] = result[d]
    BY <1>7 DEF ClientStep
  <2>3. \A i \in 1..Len(requests'[d]) :
            \E j \in 1..Len(requests[d]) : requests'[d][i] = requests[d][j]
    BY <1>7 DEF Sent
  <2>4. \A i \in 1..Len(answers'[d]) :
            \E j \in 1..Len(answers[d]) : answers'[d][i] = answers[d][j]
    BY DEF ClientStep
  <2>5. ASSUME NEW u \in UploadIds, NEW o \in Nat, Holds(d, u), Ready(d, u, o)
        PROVE  Ready(d, u, o)'
    <3>1. SendableChunk(c, q) => q.upload # u
      BY <2>5, <1>0, <1>7 DEF SendableChunk, HeldByOne
    <3>2. NoneUnderWay(u)'
      <4>1. NoneUnderWay(u)
        BY <2>5 DEF Ready
      <4> QED BY <4>1, <3>1, SentNotOf
    <3> QED BY <3>2, <2>2, <2>5, <1>0, ReadyStays
  <2> QED BY <2>1, <2>2, <2>3, <2>4, <2>5, <1>0, WaitingFrame
<1>8. \A d \in Clients : Waiting(d)'
  BY <1>7
<1> QED BY <1>2, <1>3, <1>4, <1>5, <1>6, <1>8 DEF UploadInv

\* The queues when c sends q, and when c takes an answer.
Enqueued(c, q) ==
    \A d \in Clients : \A i \in 1..Len(requests'[d]) :
        \/ i \in 1..Len(requests[d]) /\ requests'[d][i] = requests[d][i]
        \/ d = c /\ i = Len(requests[c]) + 1 /\ requests'[d][i] = q

LEMMA SendQueue ==
    ASSUME QueueTypes, NEW c \in Clients, NEW q \in MetaRequests \cup ChunkRequests,
           requests' = [requests EXCEPT ![c] = Append(@, q)]
    PROVE  /\ requests' \in [Clients -> Seq(MetaRequests \cup ChunkRequests)]
           /\ Enqueued(c, q)
<1>1. PICK R : R = MetaRequests \cup ChunkRequests
  BY Zenon
<1>2. requests \in [Clients -> Seq(R)] /\ requests[c] \in Seq(R) /\ q \in R
  BY <1>1 DEF QueueTypes
<1>3. PICK p : p = Append(requests[c], q)
  BY Zenon
<1>4. /\ p \in Seq(R)
      /\ \A i \in 1..Len(p) : \/ i \in 1..Len(requests[c]) /\ p[i] = requests[c][i]
                              \/ i = Len(requests[c]) + 1 /\ p[i] = q
  BY <1>2, <1>3, AppendIs
<1>5. requests' = [requests EXCEPT ![c] = p]
  BY <1>3
<1>6. /\ requests' \in [Clients -> Seq(R)] /\ requests'[c] = p
      /\ \A d \in Clients : d # c => requests'[d] = requests[d]
  BY <1>2, <1>4, <1>5
<1>7. Enqueued(c, q)
  BY <1>4, <1>6 DEF Enqueued
<1> QED BY <1>1, <1>6, <1>7

LEMMA TakeAnswer ==
    ASSUME QueueTypes, NEW c \in Clients, answers[c] # <<>>,
           answers' = [answers EXCEPT ![c] = Tail(@)]
    PROVE  /\ answers' \in [Clients -> Seq(Answers)]
           /\ Head(answers[c]) = answers[c][1] /\ 1 \in 1..Len(answers[c])
           /\ answers[c][1] \in Answers
           /\ \A d \in Clients : \A i \in 1..Len(answers'[d]) :
                 \E j \in 1..Len(answers[d]) : answers'[d][i] = answers[d][j]
<1>1. answers \in [Clients -> Seq(Answers)] /\ answers[c] \in Seq(Answers)
  BY DEF QueueTypes
<1>2. PICK p : p = Tail(answers[c])
  BY Zenon
<1>3. /\ p \in Seq(Answers) /\ Head(answers[c]) = answers[c][1] /\ 1 \in 1..Len(answers[c])
      /\ answers[c][1] \in Answers
      /\ \A i \in 1..Len(p) : i + 1 \in 1..Len(answers[c]) /\ p[i] = answers[c][i + 1]
  BY <1>1, <1>2, TailIs
<1>4. answers' = [answers EXCEPT ![c] = p]
  BY <1>2
<1>5. /\ answers' \in [Clients -> Seq(Answers)] /\ answers'[c] = p
      /\ \A d \in Clients : d # c => answers'[d] = answers[d]
  BY <1>1, <1>3, <1>4
<1>6. ASSUME NEW d \in Clients, NEW i \in 1..Len(answers'[d])
      PROVE  \E j \in 1..Len(answers[d]) : answers'[d][i] = answers[d][j]
  <2>1. CASE d = c
    BY <2>1, <1>3, <1>5
  <2>2. CASE d # c
    BY <2>2, <1>5
  <2> QED BY <2>1, <2>2
<1> QED BY <1>3, <1>5, <1>6

\* No call on its way or answered has the number of the call that follows.
LEMMA NewCall ==
    ASSUME UploadInv, NEW c \in Clients
    PROVE  /\ call[c] \in Nat
           /\ \A i \in 1..Len(requests[c]) : requests[c][i].call # call[c] + 1
           /\ \A i \in 1..Len(answers[c]) : answers[c][i].call # call[c] + 1
<1>1. call[c] \in Nat
  BY DEF UploadInv, ClientTypes
<1>2. CallsDistinct
  BY DEF UploadInv
<1>3. ~ (call[c] + 1 <= call[c])
  BY <1>1
<1> QED BY <1>1, <1>2, <1>3 DEF CallsDistinct

LEMMA StartKeeps ==
    ASSUME UploadInv, NEW c \in Clients, NEW f \in Filenames, NEW n \in 0..MAX_FILE_SIZE,
           Start(c, f, n)
    PROVE  UploadInv'
<1>1. ClientTypes /\ QueueTypes /\ call[c] \in Nat
  BY NewCall DEF UploadInv
<1>2. /\ stage' = [stage EXCEPT ![c] = "META"]
      /\ name' = [name EXCEPT ![c] = f]
      /\ size' = [size EXCEPT ![c] = n]
      /\ upload' = [upload EXCEPT ![c] = NoUpload]
      /\ result' = [result EXCEPT ![c] = "NONE"]
      /\ UNCHANGED <<sessions, files, used, offset, answers, target, disturbed>>
      /\ call' = [call EXCEPT ![c] = @ + 1]
  BY DEF Start, Send, sessionVars
<1>3. PICK q : q = [op |-> "PUT_META", call |-> call[c] + 1, name |-> f, size |-> n]
  BY Zenon
<1>4. /\ q \in MetaRequests /\ q.op = "PUT_META" /\ q.call = call[c] + 1 /\ q.name = f
      /\ q.size = n
  BY <1>1, <1>3 DEF MetaRequests
<1>5. call'[c] = call[c] + 1
  BY <1>1, <1>2 DEF ClientTypes
<1>6. requests' = [requests EXCEPT ![c] = Append(@, q)]
  <2>1. [MetaRequest(f, n) EXCEPT !.call = call'[c]] = q
    BY <1>3, <1>5 DEF MetaRequest
  <2> QED BY <2>1, Zenon DEF Start, Send
<1>7. /\ requests' \in [Clients -> Seq(MetaRequests \cup ChunkRequests)]
      /\ Enqueued(c, q)
  BY <1>1, <1>4, <1>6, SendQueue
<1>8. ClientTypes'
  <2>1. stage' \in [Clients -> {"IDLE", "META", "CHUNK"}]
        /\ result' \in [Clients -> {"NONE", "OK", "REJECTED", "FAILED", "TIMEOUT"}]
    BY <1>1, <1>2 DEF ClientTypes
  <2>2. name' \in [Clients -> Filenames] /\ size' \in [Clients -> 0..MAX_FILE_SIZE]
    BY <1>1, <1>2 DEF ClientTypes
  <2>3. upload' \in [Clients -> UploadIds \cup {NoUpload}]
    BY <1>1, <1>2 DEF ClientTypes
  <2>4. call' \in [Clients -> Nat] /\ offset' \in [Clients -> Nat]
    BY <1>1, <1>2 DEF ClientTypes
  <2> QED BY <2>1, <2>2, <2>3, <2>4 DEF ClientTypes
<1>9. QueueTypes'
  BY <1>1, <1>2, <1>7 DEF QueueTypes, MetaRequests, ChunkRequests, Answers, Accepted, Raised
<1>10. /\ stage'[c] = "META" /\ name'[c] = f /\ size'[c] = n /\ upload'[c] = NoUpload
       /\ result'[c] = "NONE"
  BY <1>1, <1>2 DEF ClientTypes
<1>11. Sent(c, q)
  BY <1>4, <1>5, <1>7 DEF Sent, Enqueued
<1>12. ClientStep(c)
  <2>1. ASSUME NEW d \in Clients, d # c
        PROVE  /\ stage'[d] = stage[d] /\ call'[d] = call[d] /\ name'[d] = name[d]
               /\ size'[d] = size[d] /\ upload'[d] = upload[d] /\ offset'[d] = offset[d]
               /\ result'[d] = result[d]
    BY <2>1, <1>1, <1>2 DEF ClientTypes
  <2> QED BY <2>1, <1>2 DEF ClientStep
<1>13. Waiting(c)'
  <2>1. \A i \in 1..Len(requests'[c]) : requests'[c][i].call = call[c] + 1 =>
            requests'[c][i] = q
    BY <1>7, NewCall DEF Enqueued
  <2>2. \A i \in 1..Len(answers'[c]) : answers'[c][i].call # call[c] + 1
    BY <1>2, NewCall
  <2>3. AwaitsMeta(c)'
    BY <2>1, <2>2, <1>4, <1>5, <1>10 DEF AwaitsMeta
  <2> QED BY <2>3, <1>10 DEF Waiting
<1> QED BY <1>1, <1>5, <1>8, <1>9, <1>10, <1>11, <1>12, <1>13, ClientKeeps, NoUploadAssumption

\* A step that sends nothing.
LEMMA NothingSent ==
    ASSUME requests' = requests, NEW c \in Clients, NEW q
    PROVE  Sent(c, q)
  BY DEF Sent

\* The upload of c ends without success, by an answer or without one.
LEMMA FailedKeeps ==
    ASSUME UploadInv, NEW c \in Clients, NEW status \in {"FAILED", "TIMEOUT"},
           Finish(c, status),
           \/ answers' = answers
           \/ answers[c] # <<>> /\ answers' = [answers EXCEPT ![c] = Tail(@)],
           UNCHANGED <<sessions, files, used, name, size, upload, target, disturbed>>
    PROVE  UploadInv'
<1>1. ClientTypes /\ QueueTypes /\ call[c] \in Nat
  BY NewCall DEF UploadInv
<1>2. /\ stage' = [stage EXCEPT ![c] = "IDLE"]
      /\ result' = [result EXCEPT ![c] = status]
      /\ UNCHANGED <<offset, call, requests>>
  BY DEF Finish
<1>3. ClientTypes'
  BY <1>1, <1>2 DEF ClientTypes
<1>4. /\ answers' \in [Clients -> Seq(Answers)]
      /\ \A d \in Clients : \A i \in 1..Len(answers'[d]) :
            \E j \in 1..Len(answers[d]) : answers'[d][i] = answers[d][j]
  <2>1. CASE answers' = answers
    <3>1. answers \in [Clients -> Seq(Answers)]
      BY <1>1 DEF QueueTypes
    <3> QED BY <2>1, <3>1
  <2>2. CASE answers[c] # <<>> /\ answers' = [answers EXCEPT ![c] = Tail(@)]
    BY <2>2, <1>1, TakeAnswer
  <2> QED BY <2>1, <2>2
<1>5. QueueTypes'
  BY <1>1, <1>2, <1>4 DEF QueueTypes, MetaRequests, ChunkRequests, Answers, Accepted, Raised
<1>6. stage'[c] = "IDLE" /\ result'[c] = status
  BY <1>1, <1>2 DEF ClientTypes
<1>7. ClientStep(c)
  BY <1>1, <1>2, <1>4 DEF ClientStep, ClientTypes
<1>8. Waiting(c)'
  BY <1>6 DEF Waiting
<1>9. \A u \in UploadIds : upload'[c] = u => Holds(c, u)
  BY DEF Holds
<1>10. Sent(c, 0) /\ call[c] <= call'[c]
  BY <1>1, <1>2, NothingSent
<1> QED BY <1>3, <1>5, <1>7, <1>8, <1>9, <1>10, ClientKeeps

LEMMA GiveUpKeeps ==
    ASSUME UploadInv, NEW c \in Clients, GiveUp(c)
    PROVE  UploadInv'
<1>1. /\ Finish(c, "TIMEOUT")
      /\ UNCHANGED <<sessions, files, used, name, size, upload, answers, target, disturbed>>
  BY DEF GiveUp, sessionVars
<1> QED BY <1>1, FailedKeeps

LEMMA DiscardKeeps ==
    ASSUME UploadInv, NEW c \in Clients, DiscardAnswer(c)
    PROVE  UploadInv'
<1>1. /\ ClientTypes /\ QueueTypes /\ HeldByOne /\ call[c] \in Nat /\ Waiting(c)
      /\ used \subseteq UploadIds
  BY NewCall DEF UploadInv, Sessions, SessionsInv, SessionTypeOK
<1>2. /\ answers[c] # <<>>
      /\ answers' = [answers EXCEPT ![c] = Tail(@)]
      /\ UNCHANGED <<sessions, files, used, stage, call, name, size, upload, offset, result,
                     requests, target, disturbed>>
  BY DEF DiscardAnswer, sessionVars, uploaderVars
<1>3. /\ answers' \in [Clients -> Seq(Answers)]
      /\ \A d \in Clients : \A i \in 1..Len(answers'[d]) :
            \E j \in 1..Len(answers[d]) : answers'[d][i] = answers[d][j]
  BY <1>1, <1>2, TakeAnswer
<1>4. ClientTypes'
  BY <1>1, <1>2 DEF ClientTypes
<1>5. QueueTypes'
  BY <1>1, <1>2, <1>3 DEF QueueTypes, MetaRequests, ChunkRequests, Answers, Accepted, Raised
<1>6. ClientStep(c)
  BY <1>2, <1>3 DEF ClientStep
<1>7. Waiting(c)'
  <2>1. ASSUME NEW u, NEW o, Ready(c, u, o) PROVE Ready(c, u, o)'
    <3>1. NoneUnderWay(u)'
      BY <2>1, <1>2 DEF Ready, NoneUnderWay, IsChunkOf
    <3> QED BY <2>1, <3>1, <1>2, ReadyStays
  <2>2. \A i \in 1..Len(answers'[c]) :
            \E j \in 1..Len(answers[c]) : answers'[c][i] = answers[c][j]
    BY <1>3
  <2>3. \A i \in 1..Len(requests'[c]) :
            \E j \in 1..Len(requests[c]) : requests'[c][i] = requests[c][j]
    BY <1>2
  <2> QED BY <2>1, <2>2, <2>3, <1>1, <1>2, WaitingFrame
<1>8. \A u \in UploadIds : upload'[c] = u => Holds(c, u)
  BY <1>2 DEF Holds
<1>9. Sent(c, 0) /\ call[c] <= call'[c]
  BY <1>1, <1>2, NothingSent
<1> QED BY <1>4, <1>5, <1>6, <1>7, <1>8, <1>9, ClientKeeps

\* After an answer, the upload u of c has come to o: c sends the chunk there if
\* there is one, and otherwise is done.
LEMMA ProceedKeeps ==
    ASSUME UploadInv, NEW c \in Clients, NEW u \in UploadIds, NEW o \in Nat,
           o <= size[c], Holds(c, u), Ready(c, u, o), result[c] = "NONE",
           answers[c] # <<>>, answers' = [answers EXCEPT ![c] = Tail(@)],
           Proceed(c, u, o), upload' = [upload EXCEPT ![c] = u],
           UNCHANGED <<sessions, files, used, name, size, target, disturbed>>
    PROVE  UploadInv'
<1>1. ClientTypes /\ QueueTypes /\ call[c] \in Nat
  BY NewCall DEF UploadInv
<1>2. /\ answers' \in [Clients -> Seq(Answers)]
      /\ \A d \in Clients : \A i \in 1..Len(answers'[d]) :
            \E j \in 1..Len(answers[d]) : answers'[d][i] = answers[d][j]
  BY <1>1, TakeAnswer
<1>3. /\ upload' \in [Clients -> UploadIds \cup {NoUpload}] /\ upload'[c] = u
      /\ \A d \in Clients : d # c => upload'[d] = upload[d]
  BY <1>1 DEF ClientTypes
<1>4. \A v \in UploadIds : upload'[c] = v => Holds(c, v)
  BY <1>3
<1>5. size[c] \in Nat
  BY <1>1, SizeAssumption DEF ClientTypes
<1>6. CASE o < size[c]
  <2>1. PICK len : len = ChunkLen(c, o)
    BY Zenon
  <2>2. /\ Send(c, ChunkRequest(u, o, len))
        /\ stage' = [stage EXCEPT ![c] = "CHUNK"]
        /\ offset' = [offset EXCEPT ![c] = o]
        /\ result' = result
    BY <1>6, <2>1 DEF Proceed
  <2>3. len = Length(size[c], o) /\ len \in Nat
    <3>1. len = Length(size[c], o)
      BY <2>1 DEF ChunkLen, Length
    <3> QED BY <3>1, <1>5, <1>6, LengthIs
  <2>4. call' = [call EXCEPT ![c] = @ + 1] /\ call'[c] = call[c] + 1
    BY <1>1, <2>2 DEF Send, ClientTypes
  <2>5. PICK q : q = [op |-> "PUT_CHUNK", call |-> call[c] + 1, upload |-> u,
                      offset |-> o, len |-> len]
    BY Zenon
  <2>6. /\ q \in ChunkRequests /\ q.op = "PUT_CHUNK" /\ q.call = call[c] + 1
        /\ q.upload = u /\ q.offset = o /\ q.len = len
    BY <1>1, <2>3, <2>5 DEF ChunkRequests
  <2>7. requests' = [requests EXCEPT ![c] = Append(@, q)]
    <3>1. [ChunkRequest(u, o, len) EXCEPT !.call = call'[c]] = q
      BY <2>4, <2>5 DEF ChunkRequest
    <3> QED BY <2>2, <3>1, Zenon DEF Send
  <2>8. /\ requests' \in [Clients -> Seq(MetaRequests \cup ChunkRequests)]
        /\ Enqueued(c, q)
    BY <1>1, <2>6, <2>7, SendQueue
  <2>9. ClientTypes'
    <3>1. /\ stage' \in [Clients -> {"IDLE", "META", "CHUNK"}]
          /\ result' \in [Clients -> {"NONE", "OK", "REJECTED", "FAILED", "TIMEOUT"}]
      BY <1>1, <2>2 DEF ClientTypes
    <3>2. call' \in [Clients -> Nat] /\ offset' \in [Clients -> Nat]
      BY <1>1, <2>2, <2>4 DEF ClientTypes
    <3> QED BY <1>1, <1>3, <3>1, <3>2 DEF ClientTypes
  <2>10. QueueTypes'
    BY <1>2, <2>8 DEF QueueTypes, MetaRequests, ChunkRequests, Answers, Accepted, Raised
  <2>11. stage'[c] = "CHUNK" /\ offset'[c] = o /\ result'[c] = "NONE"
    BY <1>1, <2>2 DEF ClientTypes
  <2>12. ClientStep(c)
    <3>1. ASSUME NEW d \in Clients, d # c
          PROVE  /\ stage'[d] = stage[d] /\ call'[d] = call[d] /\ offset'[d] = offset[d]
                 /\ result'[d] = result[d]
      BY <3>1, <1>1, <2>2, <2>4 DEF ClientTypes
    <3> QED BY <3>1, <1>2, <1>3 DEF ClientStep
  <2>13. /\ u \in used /\ target[u] = name[c] /\ NoneUnderWay(u) /\ OnDisk(u, o)
         /\ u \in DOMAIN sessions
         /\ sessions[u].next_expected_offset = o /\ sessions[u].total_size = size[c]
    BY <1>6 DEF Ready
  <2>14. Sent(c, q)
    <3>1. SendableChunk(c, q)
      BY <1>6, <2>3, <2>6, <2>13 DEF SendableChunk
    <3> QED BY <3>1, <2>4, <2>6, <2>8 DEF Sent, Enqueued
  <2>15. Waiting(c)'
    <3>1. \A i \in 1..Len(requests'[c]) : requests'[c][i].call = call[c] + 1 =>
              requests'[c][i] = q
      BY <2>8, NewCall DEF Enqueued
    <3>2. \A i \in 1..Len(answers'[c]) : answers'[c][i].call # call[c] + 1
      BY <1>2, NewCall
    <3>3. AwaitsChunk(c)'
      <4>1. /\ upload'[c] \in used' /\ target'[upload'[c]] = name'[c]
            /\ offset'[c] < size'[c]
        BY <1>3, <1>6, <2>11, <2>13
      <4>2. \A i \in 1..Len(requests'[c]) :
                requests'[c][i].call = call'[c] =>
                    /\ requests'[c][i].op = "PUT_CHUNK"
                    /\ requests'[c][i].upload = upload'[c]
                    /\ requests'[c][i].offset = offset'[c]
                    /\ sessions'[upload'[c]].total_size = size'[c]
        BY <3>1, <1>3, <2>4, <2>6, <2>11, <2>13
      <4>3. \A i \in 1..Len(answers'[c]) : answers'[c][i].call # call'[c]
        BY <3>2, <2>4
      <4> QED BY <4>1, <4>2, <4>3 DEF AwaitsChunk
    <3> QED BY <3>3, <2>11 DEF Waiting
  <2>16. call[c] <= call'[c]
    BY <1>1, <2>4
  <2> QED BY <1>4, <2>9, <2>10, <2>12, <2>14, <2>15, <2>16, ClientKeeps
<1>7. CASE ~ (o < size[c])
  <2>1. /\ stage' = [stage EXCEPT ![c] = "IDLE"]
        /\ result' = [result EXCEPT ![c] = "OK"]
        /\ UNCHANGED <<offset, call, requests>>
    BY <1>7 DEF Proceed, Finish
  <2>2. ClientTypes'
    BY <1>1, <1>3, <2>1 DEF ClientTypes
  <2>3. QueueTypes'
    BY <1>1, <1>2, <2>1 DEF QueueTypes, MetaRequests, ChunkRequests, Answers, Accepted, Raised
  <2>4. stage'[c] = "IDLE" /\ result'[c] = "OK"
    BY <1>1, <2>1 DEF ClientTypes
  <2>5. ClientStep(c)
    <3>1. ASSUME NEW d \in Clients, d # c
          PROVE  stage'[d] = stage[d] /\ result'[d] = result[d]
      BY <3>1, <1>1, <2>1 DEF ClientTypes
    <3> QED BY <3>1, <1>2, <1>3, <2>1 DEF ClientStep
  <2>6. Ready(c, u, o)'
    <3>1. NoneUnderWay(u)'
      BY <2>1 DEF Ready, NoneUnderWay, IsChunkOf
    <3> QED BY <3>1, ReadyStays
  <2>7. Waiting(c)'
    <3>1. o = size[c]
      BY <1>5, <1>7
    <3>2. \A v \in UploadIds, n \in Nat :
              v = upload'[c] /\ n = size'[c] => Ready(c, v, n)'
      BY <3>1, <2>6, <1>3, Zenon
    <3> QED BY <3>2, <2>4, <1>3 DEF Waiting
  <2>8. Sent(c, 0) /\ call[c] <= call'[c]
    BY <1>1, <2>1, NothingSent
  <2> QED BY <1>4, <2>2, <2>3, <2>5, <2>7, <2>8, ClientKeeps
<1> QED BY <1>6, <1>7

LEMMA ReceiveKeeps ==
    ASSUME UploadInv, NEW c \in Clients, ReceiveAnswer(c)
    PROVE  UploadInv'
<1>1. ClientTypes /\ QueueTypes /\ Waiting(c) /\ CallsDistinct
  BY DEF UploadInv
<1>2. PICK a : a = answers[c][1]
  BY Zenon
<1>3. /\ answers[c] # <<>>
      /\ answers' = [answers EXCEPT ![c] = Tail(@)]
      /\ UNCHANGED <<sessions, files, used, name, size, target, disturbed>>
  BY DEF ReceiveAnswer, sessionVars
<1>4. Head(answers[c]) = a /\ 1 \in 1..Len(answers[c]) /\ a \in Answers
  BY <1>1, <1>2, <1>3, TakeAnswer
<1>5. /\ stage[c] # "IDLE" /\ a.call = call[c]
      /\ IF a.status = 400 THEN Finish(c, "REJECTED") /\ UNCHANGED upload
         ELSE IF a.status = 500 THEN Finish(c, "FAILED") /\ UNCHANGED upload
         ELSE IF stage[c] = "META"
         THEN Proceed(c, a.upload, 0) /\ upload' = [upload EXCEPT ![c] = a.upload]
         ELSE Proceed(c, upload[c], offset[c] + ChunkLen(c, offset[c]))
              /\ UNCHANGED upload
  BY <1>4 DEF ReceiveAnswer
<1>6. \/ a \in Accepted /\ a.status = 200
      \/ a \in Raised /\ a.status = 500
  BY <1>4 DEF Answers, Accepted, Raised
<1>7. /\ stage[c] = "META" \/ stage[c] = "CHUNK"
      /\ result[c] = "NONE" /\ size[c] \in Nat /\ offset[c] \in Nat
  BY <1>1, <1>5, SizeAssumption DEF ClientTypes, Waiting
<1>8. CASE a.status = 200 /\ stage[c] = "META"
  <2>1. PICK u : u = a.upload
    BY Zenon
  <2>2. u \in UploadIds
    BY <2>1, <1>6, <1>8 DEF Accepted
  <2>3. Proceed(c, u, 0) /\ upload' = [upload EXCEPT ![c] = u]
    BY <1>5, <1>8, <2>1
  <2>4. Ready(c, u, 0)
    BY <1>1, <1>2, <1>4, <1>5, <1>8, <2>1, <2>2 DEF Waiting, AwaitsMeta
  <2>5. Holds(c, u)
    BY <1>2, <1>4, <2>1 DEF Holds
  <2>6. 0 \in Nat /\ 0 <= size[c]
    BY <1>7
  <2> QED BY <1>3, <1>7, <2>2, <2>3, <2>4, <2>5, <2>6, ProceedKeeps
<1>9. CASE a.status = 200 /\ stage[c] = "CHUNK"
  <2>1. AwaitsChunk(c)
    BY <1>1, <1>9 DEF Waiting
  <2>2. PICK u, o : u = upload[c] /\ o = offset[c] + ChunkLen(c, offset[c])
    BY Zenon
  <2>3. u \in UploadIds /\ upload' = [upload EXCEPT ![c] = u]
    <3>1. u \in UploadIds
      BY <2>1, <2>2 DEF AwaitsChunk, UploadInv, Sessions, SessionsInv, SessionTypeOK
    <3>2. upload' = upload
      BY <1>5, <1>9
    <3> QED BY <3>1, <3>2, <2>2, <1>1 DEF ClientTypes
  <2>4. o = offset[c] + Length(size[c], offset[c]) /\ o \in Nat /\ o <= size[c]
    <3>1. offset[c] < size[c]
      BY <2>1 DEF AwaitsChunk
    <3>2. o = offset[c] + Length(size[c], offset[c])
      BY <2>2 DEF ChunkLen, Length
    <3> QED BY <3>1, <3>2, <1>7, LengthIs
  <2>5. Proceed(c, u, o)
    BY <1>5, <1>9, <2>2
  <2>6. Ready(c, u, o)
    <3>1. answers[c][1].call = call[c] /\ answers[c][1].status = 200
      BY <1>2, <1>5, <1>9
    <3> QED BY <3>1, <1>4, <2>1, <2>2, <2>3, <2>4 DEF AwaitsChunk
  <2>7. Holds(c, u)
    BY <2>2 DEF Holds
  <2> QED BY <1>3, <1>7, <2>3, <2>4, <2>5, <2>6, <2>7, ProceedKeeps
<1>10. CASE a.status = 500
  <2>1. Finish(c, "FAILED") /\ upload' = upload
    BY <1>5, <1>10
  <2> QED BY <1>3, <2>1, FailedKeeps
<1> QED BY <1>6, <1>7, <1>8, <1>9, <1>10

LEMMA UploadInvariant == Spec => []UploadInv
<1>1. Init => UploadInv
  BY UploadStart
<1>2. UploadInv /\ [Next]_vars => UploadInv'
  <2> SUFFICES ASSUME UploadInv, [Next]_vars PROVE UploadInv'
    OBVIOUS
  <2>1. ASSUME UNCHANGED vars PROVE UploadInv'
    <3>1. UNCHANGED <<sessions, files, used, stage, call, name, size, upload, offset,
                      result, requests, answers, target, disturbed>>
      BY <2>1 DEF vars
    <3>2. ClientTypes' /\ QueueTypes'
      BY <3>1 DEF UploadInv, ClientTypes, QueueTypes, MetaRequests, ChunkRequests, Answers, Accepted, Raised
    <3>3. CallsDistinct' /\ ChunksExpected' /\ OneUnderWay'
      <4>1. CallsDistinct /\ ChunksExpected /\ OneUnderWay
        BY DEF UploadInv
      <4>2. CallsDistinct'
        BY <3>1, <4>1 DEF CallsDistinct
      <4>3. ChunksExpected'
        BY <3>1, <4>1 DEF ChunksExpected, Length
      <4>4. OneUnderWay'
        BY <3>1, <4>1 DEF OneUnderWay, IsChunkOf
      <4> QED BY <4>2, <4>3, <4>4
    <3>4. HeldByOne'
      BY <3>1 DEF UploadInv, HeldByOne, Holds, IsChunkOf
    <3>5. Sessions'
      <4>1. Sessions
        BY DEF UploadInv
      <4>2. SessionsInv'
        BY <3>1, <4>1 DEF Sessions, SessionsInv, SessionTypeOK
      <4>3. \A u : NoneUnderWay(u) => NoneUnderWay(u)'
        BY <3>1 DEF NoneUnderWay, IsChunkOf
      <4>4. \A u, n : OnDisk(u, n) => OnDisk(u, n)'
        BY <3>1 DEF OnDisk, Bytes
      <4> QED BY <3>1, <4>1, <4>2, <4>3, <4>4 DEF Sessions
    <3>6. ASSUME NEW c \in Clients PROVE Waiting(c)'
      <4>1. /\ ClientTypes /\ QueueTypes /\ HeldByOne /\ Waiting(c)
            /\ used \subseteq UploadIds
        BY DEF UploadInv, Sessions, SessionsInv, SessionTypeOK
      <4>2. ASSUME NEW u, NEW o, Ready(c, u, o) PROVE Ready(c, u, o)'
        <5>1. NoneUnderWay(u)'
          BY <4>2, <3>1 DEF Ready, NoneUnderWay, IsChunkOf
        <5> QED BY <4>2, <5>1, <3>1, ReadyStays
      <4>3. \A i \in 1..Len(answers'[c]) :
                \E j \in 1..Len(answers[c]) : answers'[c][i] = answers[c][j]
        BY <3>1
      <4>4. \A i \in 1..Len(requests'[c]) :
                \E j \in 1..Len(requests[c]) : requests'[c][i] = requests[c][j]
        BY <3>1
      <4> QED BY <4>1, <4>2, <4>3, <4>4, <3>1, WaitingFrame
    <3> QED BY <3>2, <3>3, <3>4, <3>5, <3>6 DEF UploadInv
  <2>2. ASSUME NEW c \in Clients, NEW f \in Filenames, NEW n \in 0..MAX_FILE_SIZE,
               Start(c, f, n)
        PROVE  UploadInv'
    BY <2>2, StartKeeps
  <2>3. ASSUME NEW c \in Clients, DiscardAnswer(c) PROVE UploadInv'
    BY <2>3, DiscardKeeps
  <2>4. ASSUME NEW c \in Clients, ReceiveAnswer(c) PROVE UploadInv'
    BY <2>4, ReceiveKeeps
  <2>5. ASSUME NEW c \in Clients, GiveUp(c) PROVE UploadInv'
    BY <2>5, GiveUpKeeps
  <2>6. ASSUME NEW c \in Clients, ServeMeta(c) PROVE UploadInv'
    BY <2>6, ServeMetaKeeps
  <2>7. ASSUME NEW c \in Clients, ServeChunk(c) PROVE UploadInv'
    BY <2>7, ServeChunkKeeps
  <2>8. ASSUME NEW c \in Clients, FailRequest(c) PROVE UploadInv'
    BY <2>8, FailRequestKeeps
  <2> QED BY <2>1, <2>2, <2>3, <2>4, <2>5, <2>6, <2>7, <2>8, Zenon DEF Next
<1> QED BY <1>1, <1>2, PTL DEF Spec

\* For every number of clients, files and sizes and in both modes, an upload
\* that returned OK is whole on disk unless another one changed the file since:
\* neither abandoned calls served late nor an older file can spoil it.
THEOREM UploadsIntact == Spec => []UploadIntact
<1>1. UploadInv => UploadIntact
  <2> SUFFICES ASSUME UploadInv, NEW c \in Clients, result[c] = "OK",
                      upload[c] \notin disturbed
               PROVE  files[name[c]] = Bytes(upload[c], size[c])
    BY DEF UploadIntact
  <2>1. Waiting(c) /\ ClientTypes
    BY DEF UploadInv
  <2>2. PICK u, n : u = upload[c] /\ n = size[c]
    BY Zenon
  <2>3. u \in UploadIds /\ n \in Nat
    BY <2>1, <2>2, SizeAssumption DEF Waiting, ClientTypes
  <2>4. Ready(c, u, n)
    BY <2>1, <2>2, <2>3 DEF Waiting
  <2> QED BY <2>2, <2>4 DEF Ready, OnDisk
<1> QED BY <1>1, UploadInvariant, PTL

\* No request of the upload handler is ever refused: apply_chunk always finds the
\* chunk it expects, also when calls were given up and uploads share a file.
THEOREM NothingRefused == Spec => []NeverRefused
<1>1. UploadInv => NeverRefused
  BY DEF UploadInv, Waiting, NeverRefused
<1> QED BY <1>1, UploadInvariant, PTL

=============================================================================
