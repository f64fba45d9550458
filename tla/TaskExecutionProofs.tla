------------------------ MODULE TaskExecutionProofs -------------------------
(***************************************************************************)
(* The safety of task execution for every set of tasks, every content of   *)
(* the sandbox, every limit and every number of executions and stops.      *)
(* Of the names that tasks use, only what they write to is assumed not to  *)
(* be a temporary name: a task may write over its input, search in the     *)
(* artifact of an earlier search or read a temporary file left behind.     *)
(***************************************************************************)
EXTENDS TaskExecution, FiniteSetTheorems, TLAPS

\* What a file holds is a sequence, of whatever lines.
IsText(lines) == \E S : lines \in Seq(S)

\* The steps a plan for t may have, with the artifact of execute_plan.
StepsOf(t) ==
    {Step("READ_FILE", t.input_file, "nothing", "file_content"),
     Step("STREAM_READ", t.input_file, "nothing", "file_stream")}
    \cup (IF t.opcode = "SEARCH"
          THEN {Step("SEARCH_LINES", NoFile, "file_content", "search_results"),
                Step("SEARCH_LINES", NoFile, "file_stream", "search_results"),
                Step("BUILD_REPORT", NoFile, "search_results", "final_output"),
                Step("FALLBACK", "result.txt", "final_output", "fallback")}
          ELSE {Step("BUILD_REPORT", NoFile, "nothing", "final_output")})
    \cup (IF t.opcode = "FILTER"
          THEN {Step("FILTER_LINES", NoFile, "file_content", "filtered_lines"),
                Step("FILTER_LINES", NoFile, "file_stream", "filtered_lines"),
                Step("WRITE_FILE", t.out_file, "filtered_lines", "write_status")}
          ELSE {})
    \cup (IF t.opcode = "HASH"
          THEN {Step("HASH_SHA256", NoFile, "file_stream", "hash_result"),
                Step("WRITE_FILE", t.out_file, "hash_result", "write_status")}
          ELSE {})
    \cup (IF t.return_plan
          THEN {Step("WRITE_ARTIFACT", "plan.json", "nothing", "plan_artifact_path")}
          ELSE {})

\* Their order in every plan.
Rank(tool) ==
    CASE tool \in {"READ_FILE", "STREAM_READ"} -> 1
      [] tool \in {"SEARCH_LINES", "FILTER_LINES", "HASH_SHA256"} -> 2
      [] tool = "WRITE_FILE" -> 3
      [] tool = "BUILD_REPORT" -> 4
      [] tool = "WRITE_ARTIFACT" -> 5
      [] OTHER -> 6

\* Lines that task t may find in its input when sandbox b was the first: a
\* filter may find what it has written there itself.
InputFor(t, b, lines) ==
    /\ t.input_file \in DOMAIN b
    /\ \/ lines = b[t.input_file].lines
       \/ /\ t.opcode = "FILTER"
          /\ ~ Contains(Blank, t.pattern)
          /\ lines \in Results(t, b[t.input_file].lines)

\* Lines that are the result of task t in sandbox b.
ResultFor(t, b, lines) ==
    /\ t.input_file \in DOMAIN b
    /\ lines \in Results(t, b[t.input_file].lines)

\* What stands under a key of the context.
KeyTrue(t, b, key, lines) ==
    /\ key \in {"file_content", "file_stream"} => InputFor(t, b, lines)
    /\ key = "search_results" =>
           /\ t.input_file \in DOMAIN b
           /\ lines \in Found(t, b[t.input_file].lines)
    /\ key \in {"filtered_lines", "hash_result"} => ResultFor(t, b, lines)
    /\ key = "final_output" /\ t.opcode = "SEARCH" => ResultFor(t, b, lines)

-----------------------------------------------------------------------------
(***************************************************************************)
(* The inductive invariant.                                                *)
(***************************************************************************)

Types ==
    /\ task \in Tasks
    /\ phase \in {"IDLE", "RUNNING", "ANSWERED"}
    /\ steps \in Seq(StepsOf(task))
    /\ \A n \in DOMAIN files : IsText(files[n].lines)
    /\ \A n \in DOMAIN before : IsText(before[n].lines)
    /\ \A k \in DOMAIN context : IsText(context[k])

\* Outside an execution nothing is left of one in memory.
AtRest == phase # "RUNNING" => steps = <<>> /\ context = <<>> /\ tmp = {}

\* The steps that remain are in order, and each finds what it consumes.
Ordered ==
    \A i, j \in 1..Len(steps) :
        i < j => Rank(steps[i].tool) < Rank(steps[j].tool)
SuppliedInTime ==
    \A i \in 1..Len(steps) :
        \/ steps[i].consumes = "nothing"
        \/ steps[i].consumes \in DOMAIN context
        \/ \E j \in 1..(i - 1) : steps[j].produces = steps[i].consumes

\* What the task is for has been done or is still to come.
Pending ==
    phase = "RUNNING" =>
        /\ task.opcode = "SEARCH" =>
               \/ "final_output" \in DOMAIN context
               \/ \E i \in 1..Len(steps) : steps[i].produces = "final_output"
        /\ task.opcode # "SEARCH" /\ task.out_file # NoFile =>
               \/ "write_status" \in DOMAIN context
               \/ \E i \in 1..Len(steps) : steps[i].produces = "write_status"

\* A temporary file in use belongs to the step that is being carried out, is
\* new, and holds the content of the step or is half written.
TempInUse ==
    tmp # {} =>
        /\ WriteStep
        /\ \E n \in TempNames :
               /\ tmp = {n}
               /\ n \in DOMAIN files /\ n \notin DOMAIN start
               /\ files[n].whole => files[n].lines = Content

\* No file of an earlier sandbox is gone.
FilesStay ==
    /\ DOMAIN before \subseteq DOMAIN start
    /\ DOMAIN start \subseteq DOMAIN files

\* Until a file is put in place the sandbox is as it was, but for the temporary
\* file; afterwards only reports and the plan artifact remain to be made.
Unwritten == "write_status" \notin DOMAIN context /\ "fallback" \notin DOMAIN context
Untouched ==
    phase = "RUNNING" /\ Unwritten =>
        /\ \A f \in DOMAIN start : files[f] = start[f]
        /\ DOMAIN files \subseteq DOMAIN start \cup tmp
WrittenLast ==
    /\ "write_status" \in DOMAIN context =>
           /\ task.opcode # "SEARCH"
           /\ \A i \in 1..Len(steps) :
                  steps[i].tool \in {"BUILD_REPORT", "WRITE_ARTIFACT"}
    /\ "fallback" \in DOMAIN context => steps = <<>>

\* Only a search has a long output.
OutputShort ==
    task.opcode # "SEARCH" /\ "final_output" \in DOMAIN context
        => context["final_output"] = <<Line("completed")>>

\* What the steps have produced, in memory and on disk, and as long as the task
\* may run again, its input gives the result it gave first.
Faithful == before = start \/ Repeatable(task)
ContextTrue ==
    Faithful => \A k \in DOMAIN context : KeyTrue(task, before, k, context[k])
FilesTrue ==
    /\ Faithful /\ "write_status" \in DOMAIN context =>
           ResultFor(task, before, files[task.out_file].lines)
    /\ Faithful /\ "fallback" \in DOMAIN context =>
           ResultFor(task, before, files["result.txt"].lines)
InputKept ==
    /\ phase # "ANSWERED"
    /\ task.input_file \in DOMAIN files
    /\ Repeatable(task)
    => InputFor(task, before, files[task.input_file].lines)

TaskInv ==
    /\ Types
    /\ AtRest
    /\ Ordered
    /\ SuppliedInTime
    /\ Pending
    /\ TempInUse
    /\ FilesStay
    /\ Untouched
    /\ WrittenLast
    /\ OutputShort
    /\ ContextTrue
    /\ FilesTrue
    /\ InputKept
    /\ WholeFiles
    /\ ErrorLeavesFiles
    /\ AnswerIsTrue

-----------------------------------------------------------------------------
(***************************************************************************)
(* What the tools compute.                                                 *)
(***************************************************************************)

\* The places 1..n are n.
LEMMA CountedUp ==
    ASSUME NEW n \in Nat
    PROVE  IsFiniteSet(1..n) /\ Cardinality(1..n) = n
BY FS_Interval, SMT

\* The places at which a text matches are so and so many.
LEMMA HitsCounted ==
    ASSUME NEW t, NEW lines, IsText(lines)
    PROVE  /\ Hits(t, lines) \subseteq DOMAIN lines
           /\ Cardinality(Hits(t, lines)) \in Nat
<1>1. PICK S : lines \in Seq(S)
  BY Zenon DEF IsText
<1>2. DOMAIN lines = 1..Len(lines) /\ Len(lines) \in Nat
  BY <1>1, SMT
<1>3. IsFiniteSet(1..Len(lines))
  BY <1>2, FS_Interval, SMT
<1>4. Hits(t, lines) \in SUBSET (1..Len(lines))
  BY <1>2, Zenon DEF Hits
<1>5. IsFiniteSet(Hits(t, lines))
  BY <1>3, <1>4, FS_Subset, Zenon
<1> QED  BY <1>2, <1>4, <1>5, FS_CardinalityType, Zenon

\* A list of n values is a text.
LEMMA ListIsText ==
    ASSUME NEW n \in Nat, NEW f
    PROVE  /\ IsText([i \in 1..n |-> f[i]])
           /\ Len([i \in 1..n |-> f[i]]) = n
<1>1. [i \in 1..n |-> f[i]] \in Seq({f[i] : i \in 1..n})
  BY SMT
<1>2. Len([i \in 1..n |-> f[i]]) = n
  BY SMT
<1> QED  BY <1>1, <1>2, Zenon DEF IsText

\* Lines added in front or at the end, and a text cut short.
LEMMA StillText ==
    ASSUME NEW s, IsText(s), NEW x
    PROVE  /\ IsText(<<x>>)
           /\ IsText(<<x>> \o s)
           /\ IsText(s \o <<x>>)
           /\ \A k \in 0..Len(s) : IsText(SubSeq(s, 1, k))
<1>1. PICK S : s \in Seq(S)
  BY Zenon DEF IsText
<1>2. PICK T : T = S \cup {x}
  BY Zenon
<1>3. S \subseteq T /\ x \in T
  BY <1>2, Zenon
<1>4. s \in Seq(T)
  BY <1>1, <1>3, SMT
<1>5. <<x>> \in Seq(T)
  BY <1>3, SMT
<1>6. <<x>> \o s \in Seq(T) /\ s \o <<x>> \in Seq(T)
  BY <1>4, <1>5, SMT
<1>7. \A k \in 0..Len(s) : SubSeq(s, 1, k) \in Seq(T)
  BY <1>4, SMT
<1> QED  BY <1>5, <1>6, <1>7, Zenon DEF IsText

\* A filter's output is made of n lines of its input, and is a text.
LEMMA MatchingText ==
    ASSUME NEW t, NEW lines, IsText(lines), NEW r \in Matching(t, lines)
    PROVE  /\ IsText(r)
           /\ \E n \in Nat : \E m \in InOrder(Hits(t, lines)) :
                 /\ n = Cardinality(Hits(t, lines))
                 /\ m \in [1..n -> Hits(t, lines)]
                 /\ r = [i \in 1..n |-> lines[m[i]]]
                 /\ Len(r) = n
<1>1. PICK n \in Nat : n = Cardinality(Hits(t, lines))
  BY HitsCounted, Zenon
<1>2. PICK m \in InOrder(Hits(t, lines)) : r = [i \in DOMAIN m |-> lines[m[i]]]
  BY Zenon DEF Matching
<1>3. m \in [1..n -> Hits(t, lines)]
  BY <1>1, Zenon DEF InOrder
<1>4. r = [i \in 1..n |-> lines[m[i]]]
  BY <1>2, <1>3, Zenon
<1> DEFINE f == [i \in 1..n |-> lines[m[i]]]
<1>5. [i \in 1..n |-> f[i]] = f
  BY Zenon
<1>6. r = f
  BY <1>4, Zenon
<1> HIDE DEF f
<1>7. IsText(r) /\ Len(r) = n
  BY <1>5, <1>6, ListIsText, Zenon
<1> QED  BY <1>1, <1>3, <1>4, <1>7, Zenon

\* w has the n lines of r at its odd places and blank lines in between.
Spread(w, r, n) ==
    \E m \in Nat :
        /\ DOMAIN w = 1..m
        /\ (n = 0 /\ m = 0) \/ (n # 0 /\ m = 2 * n - 1)
        /\ \A i \in 1..m :
               \/ i % 2 = 1 /\ w[i] = r[(i + 1) \div 2]
               \/ i % 2 # 1 /\ w[i] = Blank

\* The lines of a stream, written, stand at the odd places.
LEMMA JoinedText ==
    ASSUME NEW n \in Nat, NEW r, IsText(r), Len(r) = n
    PROVE  IsText(Joined(r)) /\ Spread(Joined(r), r, n)
<1>1. PICK S : r \in Seq(S)
  BY Zenon DEF IsText
<1>2. r = <<>> <=> n = 0
  BY <1>1, SMT
<1>3. PICK m \in Nat : m = IF n = 0 THEN 0 ELSE 2 * n - 1
  <2>1. (IF n = 0 THEN 0 ELSE 2 * n - 1) \in Nat
    BY SMT
  <2> QED  BY <2>1, Zenon
<1>4. (IF r = <<>> THEN 0 ELSE 2 * Len(r) - 1) = m
  BY <1>2, <1>3, SMT
<1> DEFINE f == [i \in 1..m |-> IF i % 2 = 1 THEN r[(i + 1) \div 2] ELSE Blank]
<1>5. Joined(r) = f
  BY <1>4, Zenon DEF Joined
<1>6. [i \in 1..m |-> f[i]] = f
  BY Zenon
<1>7. /\ DOMAIN f = 1..m
      /\ \A i \in 1..m :
             \/ i % 2 = 1 /\ f[i] = r[(i + 1) \div 2]
             \/ i % 2 # 1 /\ f[i] = Blank
  BY SMT
<1> HIDE DEF f
<1>8. IsText(f)
  BY <1>6, ListIsText, Zenon
<1>9. (n = 0 /\ m = 0) \/ (n # 0 /\ m = 2 * n - 1)
  BY <1>3, SMT
<1>10. Spread(f, r, n)
  BY <1>7, <1>9, Zenon DEF Spread
<1> QED  BY <1>5, <1>8, <1>10, Zenon

\* Lists of places that are listed in order once more.
LEMMA InOrderTwice ==
    ASSUME NEW n \in Nat, NEW P, NEW Q, NEW p \in InOrder(P), NEW q,
           Cardinality(P) = n,
           q \in [1..n -> 1..n],
           \A i, j \in 1..n : i < j => q[i] < q[j]
    PROVE  [i \in 1..n |-> p[q[i]]] \in InOrder(P)
<1> DEFINE c == [i \in 1..n |-> p[q[i]]]
<1>1. p \in [1..n -> P] /\ \A i, j \in 1..n : i < j => p[i] < p[j]
  BY Zenon DEF InOrder
<1>2. c \in [1..n -> P]
  BY <1>1, Zenon
<1>3. \A i \in 1..n : c[i] = p[q[i]] /\ q[i] \in 1..n
  BY Zenon
<1>4. DOMAIN c = 1..n
  BY Zenon
<1> HIDE DEF c
<1>5. \A i, j \in 1..n : i < j => c[i] < c[j]
  <2> TAKE i, j \in 1..n
  <2> HAVE i < j
  <2>1. q[i] < q[j] /\ q[i] \in 1..n /\ q[j] \in 1..n
    BY <1>3, Zenon
  <2>2. p[q[i]] < p[q[j]]
    BY <1>1, <2>1, Zenon
  <2> QED  BY <1>3, <2>2, Zenon
<1>6. c \in InOrder(P)
  BY <1>2, <1>4, <1>5, Zenon DEF InOrder
<1> QED  BY <1>6, Zenon DEF c

\* A filter over what it has written before selects the same lines again.
LEMMA MatchingAgain ==
    ASSUME NEW t, ~ Contains(Blank, t.pattern), NEW lines, IsText(lines),
           NEW r \in Matching(t, lines),
           NEW again, again \in Matching(t, r) \/ again \in Matching(t, Joined(r))
    PROVE  again \in Matching(t, lines)
<1>1. PICK n \in Nat : \E m \in InOrder(Hits(t, lines)) :
          /\ n = Cardinality(Hits(t, lines))
          /\ m \in [1..n -> Hits(t, lines)]
          /\ r = [i \in 1..n |-> lines[m[i]]]
          /\ Len(r) = n
  BY MatchingText, Zenon
<1>2. PICK m \in InOrder(Hits(t, lines)) :
          /\ n = Cardinality(Hits(t, lines))
          /\ m \in [1..n -> Hits(t, lines)]
          /\ r = [i \in 1..n |-> lines[m[i]]]
          /\ Len(r) = n
  BY <1>1, Zenon
<1>3. DOMAIN r = 1..n /\ \A i \in 1..n : r[i] = lines[m[i]] /\ Contains(r[i], t.pattern)
  BY <1>2, Zenon DEF Hits
<1>4. IsText(r)
  BY MatchingText, Zenon
<1>5. ASSUME NEW q \in [1..n -> 1..n],
             \A i, j \in 1..n : i < j => q[i] < q[j],
             again = [i \in 1..n |-> r[q[i]]]
      PROVE  again \in Matching(t, lines)
  <2>1. PICK c : c = [i \in 1..n |-> m[q[i]]]
    BY Zenon
  <2>2. c \in InOrder(Hits(t, lines))
    BY <1>2, <1>5, <2>1, InOrderTwice, Zenon
  <2>3. DOMAIN c = 1..n /\ \A i \in 1..n : c[i] = m[q[i]] /\ q[i] \in 1..n
    BY <2>1, Zenon
  <2>4. \A i \in 1..n : r[q[i]] = lines[c[i]]
    BY <1>3, <2>3, Zenon
  <2>5. again = [i \in DOMAIN c |-> lines[c[i]]]
    BY <1>5, <2>3, <2>4, Zenon
  <2> QED  BY <2>2, <2>5, Zenon DEF Matching
<1>6. CASE again \in Matching(t, r)
  <2>1. Hits(t, r) = 1..n
    BY <1>3, Zenon DEF Hits
  <2>2. PICK q \in InOrder(1..n) : again = [i \in DOMAIN q |-> r[q[i]]]
    BY <1>6, <2>1, Zenon DEF Matching
  <2>3. /\ q \in [1..n -> 1..n]
        /\ \A i, j \in 1..n : i < j => q[i] < q[j]
    BY CountedUp, Zenon DEF InOrder
  <2>4. again = [i \in 1..n |-> r[q[i]]]
    BY <2>2, <2>3, Zenon
  <2> QED  BY <1>5, <2>3, <2>4, Zenon
<1>7. CASE again \in Matching(t, Joined(r))
  <2>1. PICK w : w = Joined(r)
    BY Zenon
  <2>2. PICK k \in Nat :
            /\ DOMAIN w = 1..k
            /\ (n = 0 /\ k = 0) \/ (n # 0 /\ k = 2 * n - 1)
            /\ \A i \in 1..k :
                   \/ i % 2 = 1 /\ w[i] = r[(i + 1) \div 2]
                   \/ i % 2 # 1 /\ w[i] = Blank
    <3>1. Spread(w, r, n)
      BY <1>2, <1>4, <2>1, JoinedText, Zenon
    <3> QED  BY <3>1, Zenon DEF Spread
  <2> DEFINE Odd == {i \in 1..k : i % 2 = 1}
  <2>3. \A i \in 1..k : i % 2 = 1 => (i + 1) \div 2 \in 1..n /\ 2 * ((i + 1) \div 2) - 1 = i
    BY <2>2, SMT
  <2>4. Hits(t, w) = Odd
    <3>1. \A i \in 1..k : Contains(w[i], t.pattern) <=> i % 2 = 1
      BY <1>3, <2>2, <2>3, Zenon
    <3> QED  BY <2>2, <3>1, Zenon DEF Hits
  <2>5. Cardinality(Odd) = n
    <3> DEFINE odd == [j \in 1..n |-> 2 * j - 1]
    <3>1. \A j \in 1..n : 2 * j - 1 \in 1..k /\ (2 * j - 1) % 2 = 1
      BY <2>2, SMT
    <3>2. odd \in [1..n -> Odd]
      BY <3>1, SMT
    <3>3. \A a, b \in 1..n : odd[a] = odd[b] => a = b
      BY SMT
    <3>4. \A i \in Odd : \E j \in 1..n : odd[j] = i
      BY <2>3, SMT
    <3> HIDE DEF odd, Odd
    <3>5. ExistsBijection(1..n, Odd)
      BY <3>2, <3>3, <3>4, Zenon
         DEF ExistsBijection, Bijection, Injection, IsInjective, Surjection
    <3> QED  BY <3>5, CountedUp, FS_Bijection, Zenon
  <2>6. PICK q \in InOrder(Odd) : again = [i \in DOMAIN q |-> w[q[i]]]
    BY <1>7, <2>1, <2>4, Zenon DEF Matching
  <2>7. q \in [1..n -> Odd] /\ \A i, j \in 1..n : i < j => q[i] < q[j]
    BY <2>5, <2>6, Zenon DEF InOrder
  <2> DEFINE h == [i \in 1..n |-> (q[i] + 1) \div 2]
  <2>8. \A i \in 1..n : q[i] \in 1..k /\ q[i] % 2 = 1 /\ (q[i] + 1) \div 2 \in 1..n
    BY <2>3, <2>7, Zenon
  <2>9. h \in [1..n -> 1..n]
    BY <2>8, Zenon
  <2>10. \A i, j \in 1..n : i < j => h[i] < h[j]
    <3>1. \A a, b \in 1..k : a % 2 = 1 /\ b % 2 = 1 /\ a < b => (a + 1) \div 2 < (b + 1) \div 2
      BY <2>2, SMT
    <3> QED  BY <2>7, <2>8, <3>1, Zenon
  <2>11. again = [i \in 1..n |-> r[h[i]]]
    <3>1. \A i \in 1..n : w[q[i]] = r[h[i]]
      BY <2>2, <2>8, Zenon
    <3>2. DOMAIN q = 1..n
      BY <2>7, Zenon
    <3> HIDE DEF h
    <3> QED  BY <2>6, <3>1, <3>2, Zenon
  <2> HIDE DEF h
  <2> QED  BY <1>5, <2>9, <2>10, <2>11, Zenon
<1> QED  BY <1>6, <1>7, Zenon

\* A search finds a text.
LEMMA FoundText ==
    ASSUME NEW t, NEW lines, IsText(lines), NEW found \in Found(t, lines)
    PROVE  IsText(found)
<1>1. PICK n \in Nat : n = Cardinality(Hits(t, lines))
  BY HitsCounted, Zenon
<1>2. PICK m \in InOrder(Hits(t, lines)) :
          found = CutOff([i \in DOMAIN m |-> Numbered(m[i], lines[m[i]])])
  BY Zenon DEF Found
<1>3. DOMAIN m = 1..n
  BY <1>1, Zenon DEF InOrder
<1> DEFINE f == [i \in 1..n |-> Numbered(m[i], lines[m[i]])]
<1>4. found = CutOff(f)
  BY <1>2, <1>3, Zenon
<1>5. [i \in 1..n |-> f[i]] = f
  BY Zenon
<1> HIDE DEF f
<1>6. IsText(f) /\ Len(f) = n
  BY <1>5, ListIsText, Zenon
<1>7. CASE Len(f) <= SEARCH_CAP
  BY <1>4, <1>6, <1>7, Zenon DEF CutOff
<1>8. CASE ~ (Len(f) <= SEARCH_CAP)
  <2>1. SEARCH_CAP + 1 \in 0..Len(f)
    BY <1>6, <1>8, LimitsAssumption, SMT
  <2>2. IsText(SubSeq(f, 1, SEARCH_CAP + 1))
    BY <1>6, <2>1, StillText, Zenon
  <2>3. found = SubSeq(f, 1, SEARCH_CAP + 1) \o <<Line("truncated")>>
    BY <1>4, <1>8, Zenon DEF CutOff
  <2> QED  BY <2>2, <2>3, StillText, Zenon
<1> QED  BY <1>7, <1>8, Zenon

-----------------------------------------------------------------------------
(***************************************************************************)
(* What build_plan returns.                                                *)
(***************************************************************************)

LEMMA Ranks ==
    /\ Rank("READ_FILE") = 1 /\ Rank("STREAM_READ") = 1
    /\ Rank("SEARCH_LINES") = 2 /\ Rank("FILTER_LINES") = 2
    /\ Rank("HASH_SHA256") = 2 /\ Rank("WRITE_FILE") = 3
    /\ Rank("BUILD_REPORT") = 4 /\ Rank("WRITE_ARTIFACT") = 5
    /\ Rank("FALLBACK") = 6
BY SMT DEF Rank

\* p is a plan for t: steps of t in order, each with a supplier, one of which
\* makes what t is for.
IsPlan(t, p) ==
    /\ p \in Seq(StepsOf(t))
    /\ \A i, j \in 1..Len(p) : i < j => Rank(p[i].tool) < Rank(p[j].tool)
    /\ \A i \in 1..Len(p) :
           \/ p[i].consumes = "nothing"
           \/ \E j \in 1..(i - 1) : p[j].produces = p[i].consumes
    /\ t.opcode = "SEARCH" => \E i \in 1..Len(p) : p[i].produces = "final_output"
    /\ t.opcode # "SEARCH" /\ t.out_file # NoFile
           => \E i \in 1..Len(p) : p[i].produces = "write_status"

\* The plan of a search.
LEMMA SearchPlan ==
    ASSUME NEW t, NEW mode \in {"MEMORY", "STREAM"}, t.opcode = "SEARCH"
    PROVE  /\ IsPlan(t, SearchReport(t, mode))
           /\ \A i \in 1..Len(SearchReport(t, mode)) :
                  Rank(SearchReport(t, mode)[i].tool) < 5
<1> DEFINE a == ReadStep(t, mode)
           b == Step("SEARCH_LINES", NoFile, a.produces, "search_results")
           c == Step("BUILD_REPORT", NoFile, "search_results", "final_output")
           p == <<a, b, c>>
<1>1. /\ a.tool \in {"READ_FILE", "STREAM_READ"}
      /\ a.consumes = "nothing"
      /\ a.produces \in {"file_content", "file_stream"}
      /\ a \in StepsOf(t)
  BY Zenon DEF ReadStep, Step, StepsOf
<1>2. /\ b.tool = "SEARCH_LINES" /\ b.consumes = a.produces
      /\ b \in StepsOf(t)
  BY <1>1, Zenon DEF Step, StepsOf
<1>3. /\ c.tool = "BUILD_REPORT" /\ c.consumes = "search_results"
      /\ c.produces = "final_output" /\ b.produces = "search_results"
      /\ c \in StepsOf(t)
  BY Zenon DEF Step, StepsOf
<1> HIDE DEF a, b, c
<1>4. /\ p \in Seq(StepsOf(t)) /\ Len(p) = 3
      /\ p[1] = a /\ p[2] = b /\ p[3] = c
  BY <1>1, <1>2, <1>3, SMT
<1>5. SearchReport(t, mode) = p
  BY Zenon DEF SearchReport, a, b, c
<1> HIDE DEF p
<1>6. Rank(p[1].tool) = 1 /\ Rank(p[2].tool) = 2 /\ Rank(p[3].tool) = 4
  BY <1>1, <1>2, <1>3, <1>4, Ranks, Zenon
<1>7. \A i \in 1..Len(p) : i = 1 \/ i = 2 \/ i = 3
  BY <1>4, SMT
<1>8. \A i, j \in 1..Len(p) : i < j => Rank(p[i].tool) < Rank(p[j].tool)
  BY <1>6, <1>7, SMT
<1>9. 1 \in 1..(2 - 1) /\ 2 \in 1..(3 - 1) /\ 3 \in 1..3
  BY SMT
<1>10. \A i \in 1..Len(p) : \/ p[i].consumes = "nothing"
                            \/ \E j \in 1..(i - 1) : p[j].produces = p[i].consumes
  <2>1. p[1].consumes = "nothing"
    BY <1>1, <1>4, Zenon
  <2>2. \E j \in 1..(2 - 1) : p[j].produces = p[2].consumes
    BY <1>2, <1>4, <1>9, Zenon
  <2>3. \E j \in 1..(3 - 1) : p[j].produces = p[3].consumes
    BY <1>3, <1>4, <1>9, Zenon
  <2> QED  BY <1>7, <2>1, <2>2, <2>3, Zenon
<1>11. \E i \in 1..Len(p) : p[i].produces = "final_output"
  BY <1>3, <1>4, <1>9, Zenon
<1>12. \A i \in 1..Len(p) : Rank(p[i].tool) < 5
  BY <1>6, <1>7, SMT
<1> QED  BY <1>4, <1>5, <1>8, <1>10, <1>11, <1>12, Zenon DEF IsPlan

\* A plan of four steps: read, compute, write, report.
LEMMA FourSteps ==
    ASSUME NEW t, t.opcode # "SEARCH", NEW p \in Seq(StepsOf(t)), Len(p) = 4,
           p[1].tool \in {"READ_FILE", "STREAM_READ"},
           p[2].tool \in {"FILTER_LINES", "HASH_SHA256"},
           p[3].tool = "WRITE_FILE",
           p[4].tool = "BUILD_REPORT",
           p[1].consumes = "nothing", p[4].consumes = "nothing",
           p[2].consumes = p[1].produces, p[3].consumes = p[2].produces,
           p[3].produces = "write_status"
    PROVE  /\ IsPlan(t, p)
           /\ \A i \in 1..Len(p) : Rank(p[i].tool) < 5
<1>1. /\ Rank(p[1].tool) = 1 /\ Rank(p[2].tool) = 2
      /\ Rank(p[3].tool) = 3 /\ Rank(p[4].tool) = 4
  BY Ranks, Zenon
<1>2. \A i \in 1..Len(p) : i = 1 \/ i = 2 \/ i = 3 \/ i = 4
  BY SMT
<1>3. \A i, j \in 1..Len(p) : i < j => Rank(p[i].tool) < Rank(p[j].tool)
  BY <1>1, <1>2, SMT
<1>4. \A i \in 1..Len(p) : Rank(p[i].tool) < 5
  BY <1>1, <1>2, SMT
<1>5. 1 \in 1..(2 - 1) /\ 2 \in 1..(3 - 1) /\ 3 \in 1..Len(p)
  BY SMT
<1>6. \A i \in 1..Len(p) : \/ p[i].consumes = "nothing"
                           \/ \E j \in 1..(i - 1) : p[j].produces = p[i].consumes
  BY <1>2, <1>5, Zenon
<1>7. \E i \in 1..Len(p) : p[i].produces = "write_status"
  BY <1>5, Zenon
<1> QED  BY <1>3, <1>4, <1>6, <1>7, Zenon DEF IsPlan

\* The plan of a hash.
LEMMA HashPlan ==
    ASSUME NEW t, t.opcode = "HASH"
    PROVE  /\ IsPlan(t, HashAndStore(t))
           /\ \A i \in 1..Len(HashAndStore(t)) : Rank(HashAndStore(t)[i].tool) < 5
<1> DEFINE a == Step("STREAM_READ", t.input_file, "nothing", "file_stream")
           b == Step("HASH_SHA256", NoFile, "file_stream", "hash_result")
           c == Step("WRITE_FILE", t.out_file, "hash_result", "write_status")
           d == Step("BUILD_REPORT", NoFile, "nothing", "final_output")
           p == <<a, b, c, d>>
<1>1. /\ a.tool = "STREAM_READ" /\ a.consumes = "nothing"
      /\ a.produces = "file_stream" /\ a \in StepsOf(t)
  BY Zenon DEF Step, StepsOf
<1>2. /\ b.tool = "HASH_SHA256" /\ b.consumes = "file_stream"
      /\ b.produces = "hash_result" /\ b \in StepsOf(t)
  BY Zenon DEF Step, StepsOf
<1>3. /\ c.tool = "WRITE_FILE" /\ c.consumes = "hash_result"
      /\ c.produces = "write_status" /\ c \in StepsOf(t)
  BY Zenon DEF Step, StepsOf
<1>4. d.tool = "BUILD_REPORT" /\ d.consumes = "nothing" /\ d \in StepsOf(t)
  BY Zenon DEF Step, StepsOf
<1> HIDE DEF a, b, c, d
<1>5. /\ p \in Seq(StepsOf(t)) /\ Len(p) = 4
      /\ p[1] = a /\ p[2] = b /\ p[3] = c /\ p[4] = d
  BY <1>1, <1>2, <1>3, <1>4, SMT
<1>6. HashAndStore(t) = p
  BY Zenon DEF HashAndStore, a, b, c, d
<1> HIDE DEF p
<1> QED  BY <1>1, <1>2, <1>3, <1>4, <1>5, <1>6, FourSteps, Zenon

\* The plan of a filter, with and without an output.
LEMMA FilterPlan ==
    ASSUME NEW t, NEW mode \in {"MEMORY", "STREAM"}, t.opcode = "FILTER"
    PROVE  /\ IsPlan(t, FilterLines(t, mode))
           /\ \A i \in 1..Len(FilterLines(t, mode)) :
                  Rank(FilterLines(t, mode)[i].tool) < 5
<1> DEFINE a == ReadStep(t, mode)
           b == Step("FILTER_LINES", NoFile, a.produces, "filtered_lines")
           c == Step("WRITE_FILE", t.out_file, "filtered_lines", "write_status")
           d == Step("BUILD_REPORT", NoFile, "nothing", "final_output")
<1>1. /\ a.tool \in {"READ_FILE", "STREAM_READ"}
      /\ a.consumes = "nothing"
      /\ a.produces \in {"file_content", "file_stream"}
      /\ a \in StepsOf(t)
  BY Zenon DEF ReadStep, Step, StepsOf
<1>2. /\ b.tool = "FILTER_LINES" /\ b.consumes = a.produces
      /\ b.produces = "filtered_lines" /\ b \in StepsOf(t)
  BY <1>1, Zenon DEF Step, StepsOf
<1>3. /\ c.tool = "WRITE_FILE" /\ c.consumes = "filtered_lines"
      /\ c.produces = "write_status" /\ c \in StepsOf(t)
  BY Zenon DEF Step, StepsOf
<1>4. d.tool = "BUILD_REPORT" /\ d.consumes = "nothing" /\ d \in StepsOf(t)
  BY Zenon DEF Step, StepsOf
<1> HIDE DEF a, b, c, d
<1>5. CASE t.out_file = NoFile
  <2> DEFINE p == <<a, b>> \o <<>>
  <2>1. FilterLines(t, mode) = p
    BY <1>5, Zenon DEF FilterLines, a, b
  <2>2. p \in Seq(StepsOf(t)) /\ Len(p) = 2 /\ p[1] = a /\ p[2] = b
    BY <1>1, <1>2, SMT
  <2> HIDE DEF p
  <2>3. Rank(p[1].tool) = 1 /\ Rank(p[2].tool) = 2
    BY <1>1, <1>2, <2>2, Ranks, Zenon
  <2>4. (\A i \in 1..Len(p) : i = 1 \/ i = 2) /\ 1 \in 1..(2 - 1)
    BY <2>2, SMT
  <2>5. \A i, j \in 1..Len(p) : i < j => Rank(p[i].tool) < Rank(p[j].tool)
    BY <2>3, <2>4, SMT
  <2>6. \A i \in 1..Len(p) : Rank(p[i].tool) < 5
    BY <2>3, <2>4, SMT
  <2>7. \A i \in 1..Len(p) : \/ p[i].consumes = "nothing"
                             \/ \E j \in 1..(i - 1) : p[j].produces = p[i].consumes
    <3>1. p[1].consumes = "nothing" /\ p[2].consumes = p[1].produces
      BY <1>1, <1>2, <2>2, Zenon
    <3>2. \E j \in 1..(2 - 1) : p[j].produces = p[2].consumes
      BY <2>4, <3>1, Zenon
    <3> QED  BY <2>4, <3>1, <3>2, Zenon
  <2> QED  BY <1>5, <2>1, <2>2, <2>5, <2>6, <2>7, Zenon DEF IsPlan
<1>6. CASE t.out_file # NoFile
  <2> DEFINE p == <<a, b>> \o <<c, d>>
  <2>1. FilterLines(t, mode) = p
    BY <1>6, Zenon DEF FilterLines, a, b, c, d
  <2>2. /\ p \in Seq(StepsOf(t)) /\ Len(p) = 4
        /\ p[1] = a /\ p[2] = b /\ p[3] = c /\ p[4] = d
    BY <1>1, <1>2, <1>3, <1>4, SMT
  <2> HIDE DEF p
  <2> QED  BY <1>1, <1>2, <1>3, <1>4, <2>1, <2>2, FourSteps, Zenon
<1> QED  BY <1>5, <1>6, Zenon

\* return_plan adds one step at the end.
LEMMA WithArtifact ==
    ASSUME NEW t, NEW p, IsPlan(t, p),
           \A i \in 1..Len(p) : Rank(p[i].tool) < 5
    PROVE  IsPlan(t, p \o PlanArtifact(t))
<1>1. CASE ~ t.return_plan
  <2>1. PlanArtifact(t) = <<>>
    BY <1>1, Zenon DEF PlanArtifact
  <2>2. p \o <<>> = p
    BY SMT DEF IsPlan
  <2> QED  BY <2>1, <2>2, Zenon
<1>2. CASE t.return_plan
  <2> DEFINE x == Step("WRITE_ARTIFACT", "plan.json", "nothing", "plan_artifact_path")
             q == p \o <<x>>
  <2>1. PlanArtifact(t) = <<x>>
    BY <1>2, Zenon DEF PlanArtifact
  <2>2. x \in StepsOf(t) /\ x.tool = "WRITE_ARTIFACT" /\ x.consumes = "nothing"
    BY <1>2, Zenon DEF StepsOf, Step
  <2>3. p \in Seq(StepsOf(t)) /\ Len(p) \in Nat
    BY SMT DEF IsPlan
  <2> HIDE DEF x
  <2>4. /\ q \in Seq(StepsOf(t))
        /\ Len(q) = Len(p) + 1
        /\ \A i \in 1..Len(p) : q[i] = p[i]
        /\ q[Len(p) + 1] = x
    BY <2>2, <2>3, SMT
  <2>5. \A i \in 1..Len(q) : i \in 1..Len(p) \/ i = Len(p) + 1
    BY <2>3, <2>4, SMT
  <2>6. 1..Len(p) \subseteq 1..Len(q)
    BY <2>3, <2>4, SMT
  <2>7. \A i \in 1..Len(p) : 1..(i - 1) \subseteq 1..Len(p)
    BY <2>3, SMT
  <2> HIDE DEF q
  <2>8. Rank(x.tool) = 5
    BY <2>2, Ranks, Zenon
  <2>9. \A i, j \in 1..Len(q) : i < j => Rank(q[i].tool) < Rank(q[j].tool)
    <3> SUFFICES ASSUME NEW i \in 1..Len(q), NEW j \in 1..Len(q), i < j
                 PROVE  Rank(q[i].tool) < Rank(q[j].tool)
      BY Zenon
    <3>1. i \in 1..Len(p)
      BY <2>3, <2>4, SMT
    <3>2. CASE j \in 1..Len(p)
      BY <2>4, <3>1, <3>2, Zenon DEF IsPlan
    <3>3. CASE j = Len(p) + 1
      BY <2>4, <2>8, <3>1, <3>3, Zenon
    <3> QED  BY <2>5, <3>2, <3>3, Zenon
  <2>10. \A i \in 1..Len(q) : \/ q[i].consumes = "nothing"
                              \/ \E j \in 1..(i - 1) : q[j].produces = q[i].consumes
    <3> SUFFICES ASSUME NEW i \in 1..Len(q)
                 PROVE  \/ q[i].consumes = "nothing"
                        \/ \E j \in 1..(i - 1) : q[j].produces = q[i].consumes
      BY Zenon
    <3>1. CASE i \in 1..Len(p)
      <4>1. \/ p[i].consumes = "nothing"
            \/ \E j \in 1..(i - 1) : p[j].produces = p[i].consumes
        BY <3>1, Zenon DEF IsPlan
      <4>2. q[i] = p[i] /\ \A j \in 1..(i - 1) : q[j] = p[j]
        BY <2>4, <2>7, <3>1, Zenon
      <4> QED  BY <4>1, <4>2, Zenon
    <3>2. CASE i = Len(p) + 1
      BY <2>2, <2>4, <3>2, Zenon
    <3> QED  BY <2>5, <3>1, <3>2, Zenon
  <2>11. t.opcode = "SEARCH" => \E i \in 1..Len(q) : q[i].produces = "final_output"
    BY <2>4, <2>6, Zenon DEF IsPlan
  <2>12. t.opcode # "SEARCH" /\ t.out_file # NoFile
             => \E i \in 1..Len(q) : q[i].produces = "write_status"
    BY <2>4, <2>6, Zenon DEF IsPlan
  <2>13. IsPlan(t, q)
    BY <2>4, <2>9, <2>10, <2>11, <2>12, Zenon DEF IsPlan
  <2> QED  BY <2>1, <2>13, Zenon DEF q
<1> QED  BY <1>1, <1>2, Zenon

\* build_plan returns a plan for its task, whatever the size of the input.
LEMMA PlanBuilt ==
    ASSUME NEW t \in Tasks, NEW size
    PROVE  IsPlan(t, BuildPlan(t, size))
<1>1. t.opcode \in {"SEARCH", "FILTER", "HASH"}
  BY TasksAssumption, Zenon
<1>2. PICK mode \in {"MEMORY", "STREAM"} : mode = ExecutionMode(size)
  BY Zenon DEF ExecutionMode
<1>3. CASE t.opcode = "SEARCH"
  <2>1. BuildPlan(t, size) = SearchReport(t, mode) \o PlanArtifact(t)
    BY <1>2, <1>3, Zenon DEF BuildPlan
  <2>2. PICK p : p = SearchReport(t, mode)
    BY Zenon
  <2>3. IsPlan(t, p) /\ \A i \in 1..Len(p) : Rank(p[i].tool) < 5
    BY <1>3, <2>2, SearchPlan, Zenon
  <2>4. IsPlan(t, p \o PlanArtifact(t))
    BY <2>3, WithArtifact, Zenon
  <2> QED  BY <2>1, <2>2, <2>4, Zenon
<1>4. CASE t.opcode = "FILTER"
  <2>1. BuildPlan(t, size) = FilterLines(t, mode) \o PlanArtifact(t)
    BY <1>2, <1>4, SMT DEF BuildPlan
  <2>2. PICK p : p = FilterLines(t, mode)
    BY Zenon
  <2>3. IsPlan(t, p) /\ \A i \in 1..Len(p) : Rank(p[i].tool) < 5
    BY <1>4, <2>2, FilterPlan, Zenon
  <2>4. IsPlan(t, p \o PlanArtifact(t))
    BY <2>3, WithArtifact, Zenon
  <2> QED  BY <2>1, <2>2, <2>4, Zenon
<1>5. CASE t.opcode = "HASH"
  <2>1. BuildPlan(t, size) = HashAndStore(t) \o PlanArtifact(t)
    BY <1>5, SMT DEF BuildPlan
  <2>2. PICK p : p = HashAndStore(t)
    BY Zenon
  <2>3. IsPlan(t, p) /\ \A i \in 1..Len(p) : Rank(p[i].tool) < 5
    BY <1>5, <2>2, HashPlan, Zenon
  <2>4. IsPlan(t, p \o PlanArtifact(t))
    BY <2>3, WithArtifact, Zenon
  <2> QED  BY <2>1, <2>2, <2>4, Zenon
<1> QED  BY <1>1, <1>3, <1>4, <1>5, Zenon

-----------------------------------------------------------------------------
(***************************************************************************)
(* What each action does to the invariant.                                 *)
(***************************************************************************)

LEMMA Tails ==
    ASSUME NEW S, NEW s \in Seq(S), s # <<>>
    PROVE  /\ Len(s) \in Nat /\ 1 \in 1..Len(s) /\ Head(s) = s[1] /\ Head(s) \in S
           /\ Tail(s) \in Seq(S) /\ Len(Tail(s)) = Len(s) - 1
           /\ \A i \in 1..Len(Tail(s)) : i + 1 \in 1..Len(s) /\ Tail(s)[i] = s[i + 1]
BY SMT

\* The kinds of steps.
LEMMA StepKinds ==
    ASSUME NEW t, t.opcode \in {"SEARCH", "FILTER", "HASH"}, NEW s \in StepsOf(t)
    PROVE  /\ s.tool \in {"READ_FILE", "STREAM_READ", "SEARCH_LINES",
                          "FILTER_LINES", "HASH_SHA256", "BUILD_REPORT",
                          "WRITE_FILE", "FALLBACK", "WRITE_ARTIFACT"}
           /\ s.tool \in {"READ_FILE", "STREAM_READ"} =>
                  /\ s.path = t.input_file
                  /\ s.produces \in {"file_content", "file_stream"}
           /\ s.tool = "SEARCH_LINES" =>
                  /\ t.opcode = "SEARCH"
                  /\ s.consumes \in {"file_content", "file_stream"}
                  /\ s.produces = "search_results"
           /\ s.tool = "FILTER_LINES" =>
                  /\ t.opcode = "FILTER"
                  /\ s.consumes \in {"file_content", "file_stream"}
                  /\ s.produces = "filtered_lines"
           /\ s.tool = "HASH_SHA256" =>
                  /\ t.opcode = "HASH"
                  /\ s.consumes = "file_stream"
                  /\ s.produces = "hash_result"
           /\ s.tool = "BUILD_REPORT" =>
                  /\ t.opcode = "SEARCH" => s.consumes = "search_results"
                  /\ t.opcode # "SEARCH" => s.consumes = "nothing"
                  /\ s.produces = "final_output"
           /\ s.tool = "WRITE_FILE" =>
                  /\ t.opcode # "SEARCH"
                  /\ s.path = t.out_file
                  /\ s.consumes \in {"filtered_lines", "hash_result"}
                  /\ s.produces = "write_status"
           /\ s.tool = "FALLBACK" =>
                  /\ t.opcode = "SEARCH"
                  /\ s.path = "result.txt"
                  /\ s.consumes = "final_output"
                  /\ s.produces = "fallback"
<1>1. CASE s \in {Step("READ_FILE", t.input_file, "nothing", "file_content"),
                  Step("STREAM_READ", t.input_file, "nothing", "file_stream")}
  BY <1>1, SMT DEF Step
<1>2. CASE s \in {Step("SEARCH_LINES", NoFile, "file_content", "search_results"),
                  Step("SEARCH_LINES", NoFile, "file_stream", "search_results")}
           /\ t.opcode = "SEARCH"
  BY <1>2, SMT DEF Step
<1>3. CASE s = Step("BUILD_REPORT", NoFile, "search_results", "final_output")
           /\ t.opcode = "SEARCH"
  BY <1>3, SMT DEF Step
<1>4. CASE s = Step("FALLBACK", "result.txt", "final_output", "fallback")
           /\ t.opcode = "SEARCH"
  BY <1>4, SMT DEF Step
<1>5. CASE s = Step("BUILD_REPORT", NoFile, "nothing", "final_output")
           /\ t.opcode # "SEARCH"
  BY <1>5, SMT DEF Step
<1>6. CASE s \in {Step("FILTER_LINES", NoFile, "file_content", "filtered_lines"),
                  Step("FILTER_LINES", NoFile, "file_stream", "filtered_lines")}
           /\ t.opcode = "FILTER"
  BY <1>6, SMT DEF Step
<1>7. CASE s = Step("HASH_SHA256", NoFile, "file_stream", "hash_result")
           /\ t.opcode = "HASH"
  BY <1>7, SMT DEF Step
<1>8. CASE s \in {Step("WRITE_FILE", t.out_file, "filtered_lines", "write_status"),
                  Step("WRITE_FILE", t.out_file, "hash_result", "write_status")}
           /\ t.opcode \in {"FILTER", "HASH"}
  BY <1>8, SMT DEF Step
<1>9. CASE s = Step("WRITE_ARTIFACT", "plan.json", "nothing", "plan_artifact_path")
  BY <1>9, SMT DEF Step
<1>10. \/ s \in {Step("READ_FILE", t.input_file, "nothing", "file_content"),
                  Step("STREAM_READ", t.input_file, "nothing", "file_stream")}
       \/ t.opcode = "SEARCH" /\
             \/ s \in {Step("SEARCH_LINES", NoFile, "file_content", "search_results"),
                       Step("SEARCH_LINES", NoFile, "file_stream", "search_results")}
             \/ s = Step("BUILD_REPORT", NoFile, "search_results", "final_output")
             \/ s = Step("FALLBACK", "result.txt", "final_output", "fallback")
       \/ s = Step("BUILD_REPORT", NoFile, "nothing", "final_output")
             /\ t.opcode # "SEARCH"
       \/ t.opcode = "FILTER" /\
             \/ s \in {Step("FILTER_LINES", NoFile, "file_content", "filtered_lines"),
                       Step("FILTER_LINES", NoFile, "file_stream", "filtered_lines")}
             \/ s = Step("WRITE_FILE", t.out_file, "filtered_lines", "write_status")
       \/ t.opcode = "HASH" /\
             \/ s = Step("HASH_SHA256", NoFile, "file_stream", "hash_result")
             \/ s = Step("WRITE_FILE", t.out_file, "hash_result", "write_status")
       \/ s = Step("WRITE_ARTIFACT", "plan.json", "nothing", "plan_artifact_path")
  BY Zenon DEF StepsOf
<1> QED
  BY <1>1, <1>2, <1>3, <1>4, <1>5, <1>6, <1>7, <1>8, <1>9, <1>10, Zenon

\* Only a task that asks for it has the step that writes the plan.
LEMMA ArtifactAsked ==
    ASSUME NEW t, ~ t.return_plan, NEW s \in StepsOf(t)
    PROVE  s.tool # "WRITE_ARTIFACT"
<1>1. s \in {Step("READ_FILE", t.input_file, "nothing", "file_content"),
             Step("STREAM_READ", t.input_file, "nothing", "file_stream"),
             Step("SEARCH_LINES", NoFile, "file_content", "search_results"),
             Step("SEARCH_LINES", NoFile, "file_stream", "search_results"),
             Step("BUILD_REPORT", NoFile, "search_results", "final_output"),
             Step("FALLBACK", "result.txt", "final_output", "fallback"),
             Step("BUILD_REPORT", NoFile, "nothing", "final_output"),
             Step("FILTER_LINES", NoFile, "file_content", "filtered_lines"),
             Step("FILTER_LINES", NoFile, "file_stream", "filtered_lines"),
             Step("WRITE_FILE", t.out_file, "filtered_lines", "write_status"),
             Step("HASH_SHA256", NoFile, "file_stream", "hash_result"),
             Step("WRITE_FILE", t.out_file, "hash_result", "write_status")}
  BY Zenon DEF StepsOf
<1> QED  BY <1>1, SMT DEF Step

\* What Results is for each kind of task.
LEMMA ResultsAre ==
    ASSUME NEW t, NEW lines
    PROVE  /\ t.opcode = "SEARCH" =>
                  Results(t, lines) = {Report(r) : r \in Found(t, lines)}
           /\ t.opcode = "FILTER" =>
                  Results(t, lines) =
                      Matching(t, lines) \cup {Joined(r) : r \in Matching(t, lines)}
           /\ t.opcode = "HASH" => Results(t, lines) = {Digest(lines)}
<1>1. CASE t.opcode = "SEARCH"
  BY <1>1, SMT DEF Results
<1>2. CASE t.opcode = "FILTER"
  BY <1>2, SMT DEF Results
<1>3. CASE t.opcode = "HASH"
  BY <1>3, SMT DEF Results
<1> QED  BY <1>1, <1>2, <1>3, Zenon

\* A filter of its input or of its own result has a result of its input.
LEMMA FilterTrue ==
    ASSUME NEW t, t.opcode = "FILTER", NEW b, IsText(b[t.input_file].lines),
           NEW lines, InputFor(t, b, lines),
           NEW r \in Matching(t, lines), NEW out, out = r \/ out = Joined(r)
    PROVE  ResultFor(t, b, out)
<1>1. PICK input : input = b[t.input_file].lines
  BY Zenon
<1>2. Results(t, input) =
          Matching(t, input) \cup {Joined(x) : x \in Matching(t, input)}
  BY ResultsAre, Zenon
<1>3. r \in Matching(t, input)
  <2>1. CASE lines = input
    BY <2>1, Zenon
  <2>2. CASE ~ Contains(Blank, t.pattern) /\ lines \in Results(t, input)
    <3>1. PICK x \in Matching(t, input) : lines = x \/ lines = Joined(x)
      BY <1>2, <2>2, Zenon
    <3>2. r \in Matching(t, x) \/ r \in Matching(t, Joined(x))
      BY <3>1, Zenon
    <3> QED  BY <1>1, <2>2, <3>2, MatchingAgain, Zenon
  <2> QED  BY <1>1, <2>1, <2>2, Zenon DEF InputFor
<1>4. out \in Results(t, input)
  BY <1>2, <1>3, Zenon
<1> QED  BY <1>1, <1>4, Zenon DEF InputFor, ResultFor

\* The next step of the plan: it has what it consumes, nothing was put in place
\* before it unless it reports, and there is no temporary file unless it writes.
LEMMA NextStep ==
    ASSUME TaskInv, phase = "RUNNING", steps # <<>>, NEW h, h = Head(steps)
    PROVE  /\ h \in StepsOf(task) /\ task.opcode \in {"SEARCH", "FILTER", "HASH"}
           /\ 1 \in 1..Len(steps) /\ h = steps[1]
           /\ h.consumes # "nothing" => h.consumes \in DOMAIN context
           /\ h.tool \notin {"BUILD_REPORT", "WRITE_ARTIFACT"} => Unwritten
           /\ h.tool \notin {"WRITE_FILE", "FALLBACK"} => tmp = {}
<1>1. 1 \in 1..Len(steps) /\ h = steps[1] /\ h \in StepsOf(task)
  BY Tails, Zenon DEF TaskInv, Types
<1>2. task.opcode \in {"SEARCH", "FILTER", "HASH"}
  BY TasksAssumption, Zenon DEF TaskInv, Types
<1>3. 1..(1 - 1) = {}
  BY SMT
<1>4. h.consumes # "nothing" => h.consumes \in DOMAIN context
  BY <1>1, <1>3, Zenon DEF TaskInv, SuppliedInTime
<1>5. h.tool \notin {"BUILD_REPORT", "WRITE_ARTIFACT"} => Unwritten
  BY <1>1, Zenon DEF TaskInv, WrittenLast, Unwritten
<1>6. h.tool \notin {"WRITE_FILE", "FALLBACK"} => tmp = {}
  BY Zenon DEF TaskInv, TempInUse, WriteStep
<1> QED  BY <1>1, <1>2, <1>4, <1>5, <1>6, Zenon

\* What a tool that computes may put out: a text, and true.
OutputFits(h, out) ==
    /\ IsText(out)
    /\ Faithful => KeyTrue(task, before, h.produces, out)
    /\ h.produces \notin {"write_status", "fallback"}
    /\ task.opcode # "SEARCH" /\ h.produces = "final_output"
           => out = <<Line("completed")>>

LEMMA ReadFits ==
    ASSUME TaskInv, phase = "RUNNING", steps # <<>>, NEW h, h = Head(steps),
           h.tool \in {"READ_FILE", "STREAM_READ"}, Readable(h),
           NEW out \in Outputs(h)
    PROVE  OutputFits(h, out)
<1>1. /\ h.path = task.input_file
      /\ h.produces \in {"file_content", "file_stream"}
  BY NextStep, StepKinds, SMT
<1>2. out = files[task.input_file].lines
  BY <1>1, SMT DEF Outputs
<1>3. task.input_file \in DOMAIN files
  BY <1>1, Zenon DEF Readable
<1>4. IsText(out)
  BY <1>2, <1>3, Zenon DEF TaskInv, Types
<1>5. Unwritten /\ tmp = {}
  <2>1. h.tool \notin {"BUILD_REPORT", "WRITE_ARTIFACT", "WRITE_FILE", "FALLBACK"}
    BY SMT
  <2> QED  BY <2>1, NextStep, Zenon
<1>6. Faithful => InputFor(task, before, out)
  <2>1. CASE before = start
    <3>1. task.input_file \in DOMAIN start /\ files[task.input_file] = start[task.input_file]
      BY <1>3, <1>5, Zenon DEF TaskInv, Untouched
    <3> QED  BY <1>2, <2>1, <3>1, Zenon DEF InputFor
  <2>2. CASE Repeatable(task)
    <3>1. phase # "ANSWERED"
      OBVIOUS
    <3> QED  BY <1>2, <1>3, <2>2, <3>1, Zenon DEF TaskInv, InputKept
  <2> QED  BY <2>1, <2>2, Zenon DEF Faithful
<1>7. KeyTrue(task, before, h.produces, out) <=> InputFor(task, before, out)
  BY <1>1, SMT DEF KeyTrue
<1>8. h.produces \notin {"write_status", "fallback", "final_output"}
  BY <1>1, SMT
<1> QED  BY <1>4, <1>6, <1>7, <1>8, Zenon DEF OutputFits

LEMMA SearchFits ==
    ASSUME TaskInv, phase = "RUNNING", steps # <<>>, NEW h, h = Head(steps),
           h.tool = "SEARCH_LINES", NEW out \in Outputs(h)
    PROVE  OutputFits(h, out)
<1>1. /\ task.opcode = "SEARCH" /\ h.produces = "search_results"
      /\ h.consumes \in {"file_content", "file_stream"}
  BY NextStep, StepKinds, SMT
<1>2. out \in Found(task, context[h.consumes])
  BY SMT DEF Outputs
<1>3. h.consumes \in DOMAIN context
  <2>1. h.consumes # "nothing"
    BY <1>1, SMT
  <2> QED  BY <2>1, NextStep, Zenon
<1>4. IsText(context[h.consumes])
  BY <1>3, Zenon DEF TaskInv, Types
<1>5. Faithful => /\ task.input_file \in DOMAIN before
                  /\ context[h.consumes] = before[task.input_file].lines
  <2>1. Faithful => InputFor(task, before, context[h.consumes])
    BY <1>1, <1>3, Zenon DEF TaskInv, ContextTrue, KeyTrue
  <2>2. task.opcode # "FILTER"
    BY <1>1, SMT
  <2> QED  BY <2>1, <2>2, Zenon DEF InputFor
<1>6. h.produces \notin {"file_content", "file_stream", "filtered_lines", "hash_result",
                         "final_output", "write_status", "fallback"}
  BY <1>1, SMT
<1>7. Faithful => KeyTrue(task, before, h.produces, out)
  BY <1>2, <1>5, <1>6, Zenon DEF KeyTrue
<1> QED  BY <1>2, <1>4, <1>6, <1>7, FoundText, Zenon DEF OutputFits

LEMMA FilterFits ==
    ASSUME TaskInv, phase = "RUNNING", steps # <<>>, NEW h, h = Head(steps),
           h.tool = "FILTER_LINES", NEW out \in Outputs(h)
    PROVE  OutputFits(h, out)
<1>1. /\ task.opcode = "FILTER" /\ h.produces = "filtered_lines"
      /\ h.consumes \in {"file_content", "file_stream"}
  BY NextStep, StepKinds, SMT
<1>2. PICK lines : lines = context[h.consumes]
  BY Zenon
<1>3. \/ out \in {Joined(r) : r \in Matching(task, lines)}
      \/ out \in Matching(task, lines)
  BY <1>2, SMT DEF Outputs
<1>4. PICK r \in Matching(task, lines) : out = r \/ out = Joined(r)
  BY <1>3, Zenon
<1>5. h.consumes \in DOMAIN context
  <2>1. h.consumes # "nothing"
    BY <1>1, SMT
  <2> QED  BY <2>1, NextStep, Zenon
<1>6. IsText(lines)
  BY <1>2, <1>5, Zenon DEF TaskInv, Types
<1>7. IsText(out)
  <2>1. IsText(r)
    BY <1>6, MatchingText, Zenon
  <2>2. PICK n \in Nat : \E m \in InOrder(Hits(task, lines)) :
               /\ n = Cardinality(Hits(task, lines))
               /\ m \in [1..n -> Hits(task, lines)]
               /\ r = [i \in 1..n |-> lines[m[i]]]
               /\ Len(r) = n
    BY <1>6, MatchingText, Zenon
  <2> QED  BY <1>4, <2>1, <2>2, JoinedText, Zenon
<1>8. Faithful => ResultFor(task, before, out)
  <2> SUFFICES ASSUME Faithful PROVE ResultFor(task, before, out)
    BY Zenon
  <2>1. InputFor(task, before, lines)
    BY <1>1, <1>2, <1>5, Zenon DEF TaskInv, ContextTrue, KeyTrue
  <2>2. IsText(before[task.input_file].lines)
    BY <2>1, Zenon DEF InputFor, TaskInv, Types
  <2> QED  BY <1>1, <1>4, <2>1, <2>2, FilterTrue, Zenon
<1>9. h.produces \notin {"file_content", "file_stream", "search_results",
                         "final_output", "write_status", "fallback"}
  BY <1>1, SMT
<1>10. Faithful => KeyTrue(task, before, h.produces, out)
  BY <1>8, <1>9, Zenon DEF KeyTrue
<1> QED  BY <1>7, <1>9, <1>10, Zenon DEF OutputFits

LEMMA HashFits ==
    ASSUME TaskInv, phase = "RUNNING", steps # <<>>, NEW h, h = Head(steps),
           h.tool = "HASH_SHA256", NEW out \in Outputs(h)
    PROVE  OutputFits(h, out)
<1>1. /\ task.opcode = "HASH" /\ h.produces = "hash_result"
      /\ h.consumes = "file_stream"
  BY NextStep, StepKinds, SMT
<1>2. PICK lines : lines = context[h.consumes]
  BY Zenon
<1>3. out = Digest(lines)
  BY <1>2, SMT DEF Outputs
<1>4. h.consumes \in DOMAIN context
  <2>1. h.consumes # "nothing"
    BY <1>1, SMT
  <2> QED  BY <2>1, NextStep, Zenon
<1>5. IsText(lines)
  BY <1>2, <1>4, Zenon DEF TaskInv, Types
<1>6. IsText(out)
  BY <1>3, <1>5, StillText, Zenon DEF Digest
<1>7. Faithful => ResultFor(task, before, out)
  <2> SUFFICES ASSUME Faithful PROVE ResultFor(task, before, out)
    BY Zenon
  <2>1. InputFor(task, before, lines)
    BY <1>1, <1>2, <1>4, Zenon DEF TaskInv, ContextTrue, KeyTrue
  <2>2. task.opcode # "FILTER"
    BY <1>1, SMT
  <2>3. task.input_file \in DOMAIN before /\ lines = before[task.input_file].lines
    BY <2>1, <2>2, Zenon DEF InputFor
  <2>4. Results(task, lines) = {Digest(lines)}
    BY <1>1, ResultsAre, Zenon
  <2> QED  BY <1>3, <2>3, <2>4, Zenon DEF ResultFor
<1>8. h.produces \notin {"file_content", "file_stream", "search_results",
                         "final_output", "write_status", "fallback"}
  BY <1>1, SMT
<1>9. Faithful => KeyTrue(task, before, h.produces, out)
  BY <1>7, <1>8, Zenon DEF KeyTrue
<1> QED  BY <1>6, <1>8, <1>9, Zenon DEF OutputFits

LEMMA ReportFits ==
    ASSUME TaskInv, phase = "RUNNING", steps # <<>>, NEW h, h = Head(steps),
           h.tool = "BUILD_REPORT", NEW out \in Outputs(h)
    PROVE  OutputFits(h, out)
<1>1. /\ h.produces = "final_output"
      /\ task.opcode = "SEARCH" => h.consumes = "search_results"
      /\ task.opcode # "SEARCH" => h.consumes = "nothing"
  BY NextStep, StepKinds, SMT
<1>2. h.produces \notin {"file_content", "file_stream", "search_results",
                         "filtered_lines", "hash_result", "write_status", "fallback"}
  BY <1>1, SMT
<1>3. \/ h.consumes = "nothing" /\ out = <<Line("completed")>>
      \/ h.consumes # "nothing" /\ out = Report(context[h.consumes])
  BY SMT DEF Outputs
<1>4. CASE task.opcode = "SEARCH"
  <2>1. h.consumes # "nothing" /\ h.consumes = "search_results"
    BY <1>1, <1>4, SMT
  <2>2. PICK r : r = context[h.consumes]
    BY Zenon
  <2>3. out = Report(r) /\ h.consumes \in DOMAIN context
    BY <1>3, <2>1, <2>2, NextStep, Zenon
  <2>4. IsText(r)
    BY <2>2, <2>3, Zenon DEF TaskInv, Types
  <2>5. IsText(out)
    BY <2>3, <2>4, StillText, Zenon DEF Report
  <2>6. Faithful => /\ task.input_file \in DOMAIN before
                    /\ r \in Found(task, before[task.input_file].lines)
    BY <2>1, <2>2, <2>3, Zenon DEF TaskInv, ContextTrue, KeyTrue
  <2>7. PICK input : input = before[task.input_file].lines
    BY Zenon
  <2>8. Results(task, input) = {Report(x) : x \in Found(task, input)}
    BY <1>4, ResultsAre, Zenon
  <2>9. Faithful => ResultFor(task, before, out)
    BY <2>3, <2>6, <2>7, <2>8, Zenon DEF ResultFor
  <2>10. Faithful => KeyTrue(task, before, h.produces, out)
    BY <1>2, <2>9, Zenon DEF KeyTrue
  <2> QED  BY <1>2, <1>4, <2>5, <2>10, Zenon DEF OutputFits
<1>5. CASE task.opcode # "SEARCH"
  <2>1. out = <<Line("completed")>>
    BY <1>1, <1>3, <1>5, Zenon
  <2>2. IsText(<<>>)
    <3>1. <<>> \in Seq({})
      BY SMT
    <3> QED  BY <3>1, Zenon DEF IsText
  <2>3. IsText(out)
    BY <2>1, <2>2, StillText, Zenon
  <2>4. KeyTrue(task, before, h.produces, out)
    BY <1>2, <1>5, Zenon DEF KeyTrue
  <2> QED  BY <1>2, <2>1, <2>3, <2>4, Zenon DEF OutputFits
<1> QED  BY <1>4, <1>5, Zenon

\* A step that is done is taken off the plan and leaves its output.
LEMMA Proceeds ==
    ASSUME TaskInv, phase = "RUNNING", steps # <<>>, NEW v,
           context' = Put(context, Head(steps).produces, v),
           steps' = Tail(steps), task' = task, phase' = phase
    PROVE  /\ steps' \in Seq(StepsOf(task))'
           /\ Ordered' /\ SuppliedInTime' /\ Pending'
           /\ \A i \in 1..Len(steps') : i + 1 \in 1..Len(steps) /\ steps'[i] = steps[i + 1]
           /\ DOMAIN context' = DOMAIN context \cup {Head(steps).produces}
<1>1. steps \in Seq(StepsOf(task))
  BY Zenon DEF TaskInv, Types
<1>2. /\ Len(steps) \in Nat /\ 1 \in 1..Len(steps)
      /\ Head(steps) = steps[1]
      /\ Tail(steps) \in Seq(StepsOf(task))
      /\ Len(Tail(steps)) = Len(steps) - 1
      /\ \A i \in 1..Len(Tail(steps)) :
             i + 1 \in 1..Len(steps) /\ Tail(steps)[i] = steps[i + 1]
  BY <1>1, Tails, Zenon
<1>3. \A i \in 1..Len(steps') : i + 1 \in 1..Len(steps) /\ steps'[i] = steps[i + 1]
  BY <1>2, Zenon
<1>4. DOMAIN context' = DOMAIN context \cup {Head(steps).produces}
  BY Zenon DEF Put
<1>5. Ordered'
  <2> SUFFICES ASSUME NEW i \in 1..Len(steps'), NEW j \in 1..Len(steps'), i < j
               PROVE  Rank(steps'[i].tool) < Rank(steps'[j].tool)
    BY Zenon DEF Ordered
  <2>1. i + 1 < j + 1
    BY <1>2, SMT
  <2>2. Rank(steps[i + 1].tool) < Rank(steps[j + 1].tool)
    BY <1>3, <2>1, Zenon DEF TaskInv, Ordered
  <2> QED  BY <1>3, <2>2, Zenon
<1>6. SuppliedInTime'
  <2> SUFFICES ASSUME NEW i \in 1..Len(steps')
               PROVE  \/ steps'[i].consumes = "nothing"
                      \/ steps'[i].consumes \in DOMAIN context'
                      \/ \E j \in 1..(i - 1) : steps'[j].produces = steps'[i].consumes
    BY Zenon DEF SuppliedInTime
  <2>1. i + 1 \in 1..Len(steps) /\ steps'[i] = steps[i + 1]
    BY <1>3, Zenon
  <2>2. \/ steps[i + 1].consumes = "nothing"
        \/ steps[i + 1].consumes \in DOMAIN context
        \/ \E j \in 1..((i + 1) - 1) : steps[j].produces = steps[i + 1].consumes
    BY <2>1, Zenon DEF TaskInv, SuppliedInTime
  <2>3. CASE \E j \in 1..((i + 1) - 1) : steps[j].produces = steps[i + 1].consumes
    <3>1. PICK j \in 1..((i + 1) - 1) : steps[j].produces = steps[i + 1].consumes
      BY <2>3, Zenon
    <3>2. CASE j = 1
      BY <1>2, <1>4, <2>1, <3>1, <3>2, Zenon
    <3>3. CASE j # 1
      <4>1. /\ j - 1 \in 1..(i - 1) /\ j - 1 \in 1..Len(steps') /\ (j - 1) + 1 = j
        BY <1>2, <3>1, <3>3, SMT
      <4> QED  BY <1>3, <2>1, <3>1, <4>1, Zenon
    <3> QED  BY <3>2, <3>3, Zenon
  <2> QED  BY <1>4, <2>1, <2>2, <2>3, Zenon
<1>7. \A key : (\E i \in 1..Len(steps) : steps[i].produces = key)
          => key \in DOMAIN context' \/ \E i \in 1..Len(steps') : steps'[i].produces = key
  <2> SUFFICES ASSUME NEW key, NEW i \in 1..Len(steps), steps[i].produces = key
               PROVE  \/ key \in DOMAIN context'
                      \/ \E j \in 1..Len(steps') : steps'[j].produces = key
    BY Zenon
  <2>1. CASE i = 1
    BY <1>2, <1>4, <2>1, Zenon
  <2>2. CASE i # 1
    <3>1. i - 1 \in 1..Len(steps') /\ (i - 1) + 1 = i
      BY <1>2, <2>2, SMT
    <3> QED  BY <1>3, <3>1, Zenon
  <2> QED  BY <2>1, <2>2, Zenon
<1>8. Pending'
  BY <1>4, <1>7, Zenon DEF TaskInv, Pending
<1>9. StepsOf(task)' = StepsOf(task)
  BY Zenon DEF StepsOf, Step
<1> QED  BY <1>2, <1>3, <1>4, <1>5, <1>6, <1>8, <1>9, Zenon

\* _execute_step for a tool that computes.
LEMMA RunToolStep ==
    ASSUME TaskInv, RunTool
    PROVE  TaskInv'
<1>1. PICK h : h = Head(steps)
  BY Zenon
<1>2. PICK v \in Outputs(h) : context' = Put(context, h.produces, v)
  BY <1>1, Zenon DEF RunTool
<1>3. /\ phase = "RUNNING" /\ steps # <<>> /\ ~ Writes(h) /\ Supplied(h) /\ Readable(h)
      /\ steps' = Tail(steps)
      /\ files' = files /\ tmp' = tmp /\ task' = task /\ phase' = phase
      /\ answer' = answer /\ before' = before /\ start' = start
  BY <1>1, Zenon DEF RunTool, history
<1>4. OutputFits(h, v)
  <2>1. h.tool \in {"READ_FILE", "STREAM_READ", "SEARCH_LINES", "FILTER_LINES",
                    "HASH_SHA256", "BUILD_REPORT", "WRITE_FILE", "FALLBACK",
                    "WRITE_ARTIFACT"}
    BY <1>1, <1>3, NextStep, StepKinds, SMT
  <2>2. h.tool \notin {"WRITE_FILE", "WRITE_ARTIFACT", "FALLBACK"}
    BY <1>3, Zenon DEF Writes
  <2> QED
    BY <1>1, <1>2, <1>3, <2>1, <2>2, ReadFits, SearchFits, FilterFits, HashFits,
       ReportFits, Zenon
<1>5. /\ steps' \in Seq(StepsOf(task))'
      /\ Ordered' /\ SuppliedInTime' /\ Pending'
      /\ \A i \in 1..Len(steps') : i + 1 \in 1..Len(steps) /\ steps'[i] = steps[i + 1]
      /\ DOMAIN context' = DOMAIN context \cup {h.produces}
  BY <1>1, <1>2, <1>3, Proceeds, Zenon
<1>6. \A k \in DOMAIN context' : context'[k] = IF k = h.produces THEN v ELSE context[k]
  BY <1>2, Zenon DEF Put
<1>7. tmp = {}
  BY <1>1, <1>3, Zenon DEF TaskInv, TempInUse, WriteStep, Writes
<1>8. Types'
  <2>1. \A k \in DOMAIN context' : IsText(context'[k])
    BY <1>4, <1>5, <1>6, Zenon DEF TaskInv, Types, OutputFits
  <2> QED  BY <1>3, <1>5, <2>1, Zenon DEF TaskInv, Types
<1>9. AtRest' /\ TempInUse' /\ FilesStay' /\ WholeFiles'
  BY <1>3, <1>7, Zenon DEF TaskInv, AtRest, TempInUse, FilesStay, WholeFiles
<1>10. Faithful' <=> Faithful
  BY <1>3, Zenon DEF Faithful
<1>11. ContextTrue'
  BY <1>3, <1>4, <1>5, <1>6, <1>10, Zenon DEF TaskInv, ContextTrue, OutputFits
<1>12. FilesTrue'
  BY <1>3, <1>4, <1>5, <1>10, Zenon DEF TaskInv, FilesTrue, OutputFits
<1>13. InputKept'
  BY <1>3, Zenon DEF TaskInv, InputKept
<1>14. Untouched'
  BY <1>3, <1>4, <1>5, Zenon DEF TaskInv, Untouched, Unwritten, OutputFits
<1>15. WrittenLast'
  <2>1. "fallback" \notin DOMAIN context
    BY <1>3, Zenon DEF TaskInv, WrittenLast
  <2> QED  BY <1>3, <1>4, <1>5, <2>1, Zenon DEF TaskInv, WrittenLast, OutputFits
<1>16. OutputShort'
  BY <1>3, <1>4, <1>5, <1>6, Zenon DEF TaskInv, OutputShort, OutputFits
<1>17. ErrorLeavesFiles' /\ AnswerIsTrue'
  BY <1>3, Zenon DEF ErrorLeavesFiles, AnswerIsTrue
<1> QED
  BY <1>5, <1>8, <1>9, <1>11, <1>12, <1>13, <1>14, <1>15, <1>16, <1>17, Zenon
     DEF TaskInv

\* Before anything was put in place only a new temporary file may be gone or
\* left behind.
LEMMA FailStep ==
    ASSUME TaskInv, phase = "RUNNING", Fail, tmp' = {},
           \/ files' = files
           \/ \E n \in tmp : files' = Remove(files, n),
           ~ task.return_plan => Unwritten
    PROVE  TaskInv'
<1>1. /\ phase' = "ANSWERED" /\ answer'.status = "ERROR" /\ steps' = <<>>
      /\ context' = <<>> /\ task' = task /\ before' = before /\ start' = start
  BY Zenon DEF Fail, history
<1>2. DOMAIN context' = {} /\ 1..Len(steps') = {} /\ steps' \in Seq(StepsOf(task)')
  BY <1>1, SMT
<1>3. /\ DOMAIN files' \subseteq DOMAIN files
      /\ \A f \in DOMAIN files' : files'[f] = files[f]
      /\ \A f \in DOMAIN files : f \in DOMAIN files' \/ f \in tmp
  BY Zenon DEF Remove, Restrict
<1>4. \A f \in tmp : f \in TempNames /\ f \notin DOMAIN start
  BY Zenon DEF TaskInv, TempInUse
<1>5. FilesStay'
  BY <1>1, <1>3, <1>4, Zenon DEF TaskInv, FilesStay
<1>6. Types'
  BY <1>1, <1>2, <1>3, Zenon DEF TaskInv, Types
<1>7. AtRest' /\ TempInUse' /\ InputKept' /\ Untouched' /\ Pending'
  BY <1>1, SMT DEF AtRest, TempInUse, InputKept, Untouched, Pending
<1>8. Ordered' /\ SuppliedInTime' /\ WrittenLast' /\ OutputShort'
  BY <1>2, Zenon DEF Ordered, SuppliedInTime, WrittenLast, OutputShort
<1>9. ContextTrue' /\ FilesTrue'
  BY <1>2, Zenon DEF ContextTrue, FilesTrue
<1>10. WholeFiles'
  BY <1>3, Zenon DEF TaskInv, WholeFiles
<1>11. ErrorLeavesFiles'
  <2> SUFFICES ASSUME ~ task.return_plan
               PROVE  /\ \A f \in DOMAIN start :
                             f \in DOMAIN files' /\ files'[f] = start[f]
                      /\ DOMAIN files' \subseteq DOMAIN start \cup TempNames
    BY <1>1, Zenon DEF ErrorLeavesFiles
  <2>1. /\ \A f \in DOMAIN start : files[f] = start[f]
        /\ DOMAIN files \subseteq DOMAIN start \cup tmp
    BY Zenon DEF TaskInv, Untouched
  <2>2. DOMAIN start \subseteq DOMAIN files'
    BY <1>1, <1>5, Zenon DEF FilesStay
  <2> QED  BY <1>3, <1>4, <2>1, <2>2, Zenon
<1>12. AnswerIsTrue'
  <2>1. answer'.status # "OK"
    BY <1>1, SMT
  <2> QED  BY <2>1, Zenon DEF AnswerIsTrue
<1> QED
  BY <1>5, <1>6, <1>7, <1>8, <1>9, <1>10, <1>11, <1>12, Zenon DEF TaskInv

\* A tool, the temporary file or the rename fails.
LEMMA ToolRaisesStep ==
    ASSUME TaskInv, ToolRaises
    PROVE  TaskInv'
<1>1. PICK h : h = Head(steps)
  BY Zenon
<1>2. phase = "RUNNING" /\ steps # <<>> /\ Fail /\ tmp' = {} /\ files' = files
  BY Zenon DEF ToolRaises
<1>3. h.tool # "BUILD_REPORT"
  BY <1>1, <1>2, NextStep, Zenon DEF ToolRaises, Supplied
<1>4. ~ task.return_plan => Unwritten
  BY <1>1, <1>2, <1>3, NextStep, ArtifactAsked, Zenon
<1> QED  BY <1>2, <1>4, FailStep, Zenon

\* A step that writes finds nothing put in place before it.
LEMMA WritesFirst ==
    ASSUME TaskInv, WriteStep
    PROVE  Unwritten /\ phase = "RUNNING" /\ steps # <<>>
<1>1. PICK h : h = Head(steps)
  BY Zenon
<1>2. /\ phase = "RUNNING" /\ steps # <<>>
      /\ h.tool \in {"WRITE_FILE", "FALLBACK"}
  BY <1>1, Zenon DEF WriteStep
<1>3. h.tool \notin {"BUILD_REPORT", "WRITE_ARTIFACT"}
  BY <1>2, SMT
<1> QED  BY <1>1, <1>2, <1>3, NextStep, Zenon

LEMMA WriteRaisesStep ==
    ASSUME TaskInv, WriteTempRaises \/ ReplaceRaises
    PROVE  TaskInv'
<1>1. /\ WriteStep /\ Fail /\ tmp' = {}
      /\ files' = files \/ \E n \in tmp : files' = Remove(files, n)
  BY Zenon DEF WriteTempRaises, ReplaceRaises
<1> QED  BY <1>1, WritesFirst, FailStep, Zenon

\* A step that writes has its content in the context, and it is the result.
LEMMA WritesResult ==
    ASSUME TaskInv, WriteStep, NEW h, h = Head(steps)
    PROVE  /\ h \in StepsOf(task) /\ h.tool \in {"WRITE_FILE", "FALLBACK"}
           /\ IsText(Content)
           /\ Faithful => ResultFor(task, before, Content)
           /\ h.tool = "WRITE_FILE" =>
                  /\ task.opcode # "SEARCH"
                  /\ h.path = task.out_file /\ h.produces = "write_status"
           /\ h.tool = "FALLBACK" =>
                  /\ task.opcode = "SEARCH"
                  /\ h.path = "result.txt" /\ h.produces = "fallback"
           /\ h.path \notin TempNames
<1>1. steps # <<>> /\ h.tool \in {"WRITE_FILE", "FALLBACK"} /\ phase = "RUNNING"
  BY Zenon DEF WriteStep
<1>2. h \in StepsOf(task) /\ task.opcode \in {"SEARCH", "FILTER", "HASH"}
  BY <1>1, NextStep, Zenon
<1>3. /\ h.tool = "WRITE_FILE" =>
             /\ task.opcode # "SEARCH"
             /\ h.path = task.out_file /\ h.produces = "write_status"
             /\ h.consumes \in {"filtered_lines", "hash_result"}
      /\ h.tool = "FALLBACK" =>
             /\ task.opcode = "SEARCH"
             /\ h.path = "result.txt" /\ h.produces = "fallback"
             /\ h.consumes = "final_output"
  BY <1>1, <1>2, StepKinds, SMT
<1>4. h.consumes # "nothing"
  BY <1>1, <1>3, SMT
<1>5. h.consumes \in DOMAIN context /\ Content = context[h.consumes]
  BY <1>1, <1>4, NextStep, Zenon DEF Content
<1>6. IsText(Content)
  BY <1>5, Zenon DEF TaskInv, Types
<1>7. Faithful => KeyTrue(task, before, h.consumes, Content)
  BY <1>5, Zenon DEF TaskInv, ContextTrue
<1>8. Faithful => ResultFor(task, before, Content)
  BY <1>1, <1>3, <1>7, Zenon DEF KeyTrue
<1>9. h.path \notin TempNames
  BY <1>1, <1>3, TempNamesAssumption, Zenon DEF TaskInv, Types
<1> QED  BY <1>1, <1>2, <1>3, <1>6, <1>8, <1>9, Zenon

\* The temporary file is created and filled.
LEMMA TempStep ==
    ASSUME TaskInv, OpenTemp \/ WriteTemp
    PROVE  TaskInv'
<1>1. PICK h : h = Head(steps)
  BY Zenon
<1>2. PICK content : content = Content
  BY Zenon
<1>3. /\ WriteStep
      /\ task' = task /\ steps' = steps /\ context' = context
      /\ phase' = phase /\ answer' = answer /\ before' = before /\ start' = start
  BY Zenon DEF OpenTemp, WriteTemp, history
<1>4. /\ h \in StepsOf(task)
      /\ IsText(content) /\ (Faithful => ResultFor(task, before, content))
      /\ Unwritten /\ phase = "RUNNING" /\ steps # <<>>
  BY <1>1, <1>2, <1>3, WritesResult, WritesFirst, Zenon
<1>5. \E n \in TempNames : \E v :
          /\ n \notin DOMAIN start
          /\ tmp' = {n} /\ tmp \subseteq {n}
          /\ files' = Put(files, n, v)
          /\ IsText(v.lines)
          /\ v.whole => v.lines = content
  <2>1. CASE OpenTemp
    <3>1. PICK n \in TempNames \ DOMAIN files, k \in 0..Len(content) :
              /\ tmp' = {n}
              /\ files' = Put(files, n, File(SubSeq(content, 1, k), FALSE))
      BY <1>2, <2>1, Zenon DEF OpenTemp
    <3>2. PICK s : s = SubSeq(content, 1, k)
      BY Zenon
    <3>3. IsText(s)
      BY <1>4, <3>2, StillText, Zenon
    <3>4. File(s, FALSE).lines = s /\ ~ File(s, FALSE).whole
      BY SMT DEF File
    <3>5. n \notin DOMAIN start /\ tmp = {}
      BY <2>1, Zenon DEF TaskInv, FilesStay, OpenTemp
    <3> QED  BY <3>1, <3>2, <3>3, <3>4, <3>5, Zenon
  <2>2. CASE WriteTemp
    <3>1. PICK n \in tmp : files' = Put(files, n, File(content, TRUE))
      BY <1>2, <2>2, Zenon DEF WriteTemp
    <3>2. n \in TempNames /\ tmp = {n} /\ n \notin DOMAIN start
      BY <3>1, Zenon DEF TaskInv, TempInUse
    <3>3. File(content, TRUE).lines = content
      BY SMT DEF File
    <3>4. tmp' = tmp
      BY <2>2, Zenon DEF WriteTemp
    <3> QED  BY <1>4, <3>1, <3>2, <3>3, <3>4, Zenon
  <2> QED  BY <2>1, <2>2, Zenon
<1>6. PICK n \in TempNames :
          \E v : /\ n \notin DOMAIN start
                 /\ tmp' = {n} /\ tmp \subseteq {n}
                 /\ files' = Put(files, n, v)
                 /\ IsText(v.lines)
                 /\ v.whole => v.lines = content
  BY <1>5, Zenon
<1>7. PICK v : /\ n \notin DOMAIN start
               /\ tmp' = {n} /\ tmp \subseteq {n}
               /\ files' = Put(files, n, v)
               /\ IsText(v.lines)
               /\ v.whole => v.lines = content
  BY <1>6, Zenon
<1>8. /\ DOMAIN files' = DOMAIN files \cup {n}
      /\ files'[n] = v
      /\ \A f \in DOMAIN files : f # n => files'[f] = files[f]
  BY <1>7, Zenon DEF Put
<1>9. StepsOf(task)' = StepsOf(task)
  BY <1>3, Zenon DEF StepsOf, Step
<1>10. Types'
  <2>1. \A f \in DOMAIN files' : IsText(files'[f].lines)
    BY <1>7, <1>8, Zenon DEF TaskInv, Types
  <2> QED  BY <1>3, <1>9, <2>1, Zenon DEF TaskInv, Types
<1>11. Ordered' /\ SuppliedInTime' /\ Pending' /\ OutputShort' /\ WrittenLast'
  BY <1>3, Zenon
     DEF TaskInv, Ordered, SuppliedInTime, Pending, OutputShort, WrittenLast
<1>12. Content' = content /\ WriteStep'
  BY <1>2, <1>3, Zenon DEF Content, WriteStep
<1>13. TempInUse' /\ AtRest'
  BY <1>3, <1>4, <1>7, <1>8, <1>12, Zenon DEF TempInUse, AtRest
<1>14. FilesStay' /\ Untouched'
  BY <1>3, <1>4, <1>7, <1>8, Zenon DEF TaskInv, FilesStay, Untouched, Unwritten
<1>15. Faithful' <=> Faithful
  BY <1>3, Zenon DEF Faithful
<1>16. ContextTrue'
  BY <1>3, <1>15, Zenon DEF TaskInv, ContextTrue
<1>17. FilesTrue'
  BY <1>3, <1>4, Zenon DEF FilesTrue, Unwritten
<1>18. InputKept'
  <2> SUFFICES ASSUME task.input_file \in DOMAIN files', Repeatable(task)
               PROVE  InputFor(task, before, files'[task.input_file].lines)
    BY <1>3, Zenon DEF InputKept
  <2>1. task.input_file \in DOMAIN before
    BY <1>4, Zenon DEF Faithful, ResultFor
  <2>2. task.input_file \in DOMAIN files /\ task.input_file # n
    BY <1>7, <2>1, Zenon DEF TaskInv, FilesStay
  <2>3. phase # "ANSWERED"
    BY <1>4, Zenon
  <2> QED  BY <1>8, <2>2, <2>3, Zenon DEF TaskInv, InputKept
<1>19. WholeFiles'
  BY <1>8, Zenon DEF TaskInv, WholeFiles
<1>20. ErrorLeavesFiles' /\ AnswerIsTrue'
  BY <1>3, <1>4, Zenon DEF ErrorLeavesFiles, AnswerIsTrue
<1> QED
  BY <1>10, <1>11, <1>13, <1>14, <1>16, <1>17, <1>18, <1>19, <1>20, Zenon DEF TaskInv

\* A step that has put a file in place leaves only reports and the plan artifact.
LEMMA LeftAfterWriting ==
    ASSUME TaskInv, phase = "RUNNING", steps # <<>>, NEW h, h = Head(steps),
           NEW s, s \in StepsOf(task), Rank(h.tool) < Rank(s.tool)
    PROVE  /\ h.tool # "FALLBACK"
           /\ h.tool = "WRITE_FILE" /\ task.opcode # "SEARCH"
                  => s.tool \in {"BUILD_REPORT", "WRITE_ARTIFACT"}
<1>1. task.opcode \in {"SEARCH", "FILTER", "HASH"}
  BY TasksAssumption, Zenon DEF TaskInv, Types
<1>2. s.tool \in {"READ_FILE", "STREAM_READ", "SEARCH_LINES", "FILTER_LINES",
                  "HASH_SHA256", "BUILD_REPORT", "WRITE_FILE", "FALLBACK",
                  "WRITE_ARTIFACT"}
  BY <1>1, StepKinds, SMT
<1>3. h.tool # "FALLBACK"
  BY <1>2, Ranks, SMT
<1>4. ASSUME h.tool = "WRITE_FILE", task.opcode # "SEARCH"
      PROVE  s.tool \in {"BUILD_REPORT", "WRITE_ARTIFACT"}
  <2>1. s.tool # "FALLBACK"
    BY <1>1, <1>4, StepKinds, SMT
  <2> QED  BY <1>2, <1>4, <2>1, Ranks, SMT
<1> QED  BY <1>3, <1>4, Zenon

\* os.replace: the result takes the place of the file.
LEMMA ReplaceStep ==
    ASSUME TaskInv, Replace
    PROVE  TaskInv'
<1>1. PICK h : h = Head(steps)
  BY Zenon
<1>2. PICK w : w = <<Line("written")>>
  BY Zenon
<1>3. PICK content : content = Content
  BY Zenon
<1>4. /\ WriteStep
      /\ \E n \in tmp : files[n].whole
      /\ \E n \in tmp : files' = Put(Remove(files, n), h.path, files[n])
      /\ tmp' = {}
      /\ context' = Put(context, h.produces, w)
      /\ steps' = Tail(steps)
      /\ task' = task /\ phase' = phase /\ answer' = answer
      /\ before' = before /\ start' = start
  BY <1>1, <1>2, Zenon DEF Replace, Rename, history
<1>5. Unwritten /\ phase = "RUNNING" /\ steps # <<>>
  BY <1>4, WritesFirst, Zenon
<1>6. /\ h \in StepsOf(task) /\ h.tool \in {"WRITE_FILE", "FALLBACK"}
      /\ IsText(content)
      /\ Faithful => ResultFor(task, before, content)
      /\ h.tool = "WRITE_FILE" =>
             /\ task.opcode # "SEARCH"
             /\ h.path = task.out_file /\ h.produces = "write_status"
      /\ h.tool = "FALLBACK" =>
             /\ task.opcode = "SEARCH"
             /\ h.path = "result.txt" /\ h.produces = "fallback"
      /\ h.path \notin TempNames
  BY <1>1, <1>3, <1>4, WritesResult, Zenon
<1>7. PICK n \in TempNames :
          /\ tmp = {n} /\ n \notin DOMAIN start
          /\ files[n].whole /\ files[n].lines = content
  BY <1>3, <1>4, Zenon DEF TaskInv, TempInUse
<1>8. PICK v : v = files[n] /\ files' = Put(Remove(files, n), h.path, v)
  BY <1>4, <1>7, Zenon
<1>9. /\ DOMAIN files' = (DOMAIN files \ {n}) \cup {h.path}
      /\ files'[h.path] = v
      /\ \A f \in DOMAIN files : f # n /\ f # h.path => files'[f] = files[f]
  BY <1>8, Zenon DEF Put, Remove, Restrict
<1>10. /\ steps' \in Seq(StepsOf(task))'
       /\ Ordered' /\ SuppliedInTime' /\ Pending'
       /\ \A i \in 1..Len(steps') : i + 1 \in 1..Len(steps) /\ steps'[i] = steps[i + 1]
       /\ DOMAIN context' = DOMAIN context \cup {h.produces}
  BY <1>1, <1>4, <1>5, Proceeds, Zenon
<1>11. \A k \in DOMAIN context' : context'[k] = IF k = h.produces THEN w ELSE context[k]
  BY <1>4, Zenon DEF Put
<1>12. h.produces \in {"write_status", "fallback"}
  BY <1>6, Zenon
<1>13. Types'
  <2>1. IsText(w)
    BY <1>2, <1>6, StillText, Zenon
  <2>2. \A k \in DOMAIN context' : IsText(context'[k])
    BY <1>10, <1>11, <2>1, Zenon DEF TaskInv, Types
  <2>3. Types
    BY Zenon DEF TaskInv
  <2>4. \A f \in DOMAIN files' : IsText(files'[f].lines)
    <3> TAKE f \in DOMAIN files'
    <3>1. CASE f = h.path
      BY <1>6, <1>7, <1>8, <1>9, <3>1, Zenon
    <3>2. CASE f # h.path
      <4>1. f \in DOMAIN files /\ files'[f] = files[f]
        BY <1>9, <3>2, Zenon
      <4> QED  BY <2>3, <4>1, Zenon DEF Types
    <3> QED  BY <3>1, <3>2, Zenon
  <2>5. /\ task' \in Tasks /\ steps' \in Seq(StepsOf(task'))
        /\ phase' \in {"IDLE", "RUNNING", "ANSWERED"}
    BY <1>4, <1>10, <2>3, Zenon DEF Types
  <2>6. \A f \in DOMAIN before' : IsText(before'[f].lines)
    BY <1>4, <2>3, Zenon DEF Types
  <2> QED  BY <1>4, <2>2, <2>4, <2>3, <2>5, <2>6, Zenon DEF Types
<1>14. AtRest' /\ TempInUse'
  BY <1>4, <1>5, Zenon DEF AtRest, TempInUse
<1>15. FilesStay'
  BY <1>4, <1>7, <1>9, Zenon DEF TaskInv, FilesStay
<1>16. Untouched'
  BY <1>10, <1>12, Zenon DEF Untouched, Unwritten
<1>17. Faithful' <=> Faithful
  BY <1>4, Zenon DEF Faithful
<1>18. ContextTrue' /\ OutputShort'
  <2>1. \A k \in {"write_status", "fallback"} : KeyTrue(task, before, k, w)
    BY SMT DEF KeyTrue
  <2>2. ContextTrue'
    BY <1>4, <1>10, <1>11, <1>12, <1>17, <2>1, Zenon DEF TaskInv, ContextTrue
  <2>3. "final_output" \notin {"write_status", "fallback"}
    BY SMT
  <2>4. OutputShort'
    BY <1>4, <1>10, <1>11, <1>12, <2>3, Zenon DEF TaskInv, OutputShort
  <2> QED  BY <2>2, <2>4, Zenon
<1>19. FilesTrue'
  <2>1. /\ "write_status" \in DOMAIN context' => h.path = task.out_file
        /\ "fallback" \in DOMAIN context' => h.path = "result.txt"
    <3>1. /\ "write_status" \in DOMAIN context' => h.produces = "write_status"
          /\ "fallback" \in DOMAIN context' => h.produces = "fallback"
      BY <1>5, <1>10, Zenon DEF Unwritten
    <3>2. "write_status" # "fallback"
      BY SMT
    <3> QED  BY <1>6, <3>1, <3>2, Zenon
  <2> QED  BY <1>4, <1>6, <1>7, <1>8, <1>9, <1>17, <2>1, Zenon DEF FilesTrue
<1>20. InputKept'
  <2> SUFFICES ASSUME task.input_file \in DOMAIN files', Repeatable(task)
               PROVE  InputFor(task, before, files'[task.input_file].lines)
    BY <1>4, Zenon DEF InputKept
  <2>1. task.input_file \in DOMAIN before /\ ResultFor(task, before, content)
    BY <1>6, Zenon DEF Faithful, ResultFor
  <2>2. CASE task.input_file # h.path
    <3>1. task.input_file # n /\ task.input_file \in DOMAIN files
      BY <1>7, <2>1, Zenon DEF TaskInv, FilesStay
    <3>2. phase # "ANSWERED"
      BY <1>5, Zenon
    <3> QED  BY <1>9, <2>2, <3>1, <3>2, Zenon DEF TaskInv, InputKept
  <2>3. CASE task.input_file = h.path
    <3>1. task.opcode = "FILTER" /\ ~ Contains(Blank, task.pattern)
      BY <1>6, <2>3, Zenon DEF Repeatable
    <3>2. files'[task.input_file].lines = content
      BY <1>7, <1>8, <1>9, <2>3, Zenon
    <3> QED  BY <2>1, <3>1, <3>2, Zenon DEF InputFor, ResultFor
  <2> QED  BY <2>2, <2>3, Zenon
<1>21. WrittenLast'
  <2>1. /\ 1 \in 1..Len(steps) /\ h = steps[1]
        /\ steps \in Seq(StepsOf(task)) /\ Tail(steps) \in Seq(StepsOf(task))
    BY <1>1, <1>5, Tails, Zenon DEF TaskInv, Types
  <2>2. \A i \in 1..Len(steps') :
            steps'[i] \in StepsOf(task) /\ Rank(h.tool) < Rank(steps'[i].tool)
    <3> SUFFICES ASSUME NEW i \in 1..Len(steps')
                 PROVE  steps'[i] \in StepsOf(task) /\ Rank(h.tool) < Rank(steps'[i].tool)
      BY Zenon
    <3>1. 1 < i + 1
      BY SMT
    <3>2. steps'[i] = steps[i + 1] /\ i + 1 \in 1..Len(steps)
      BY <1>10, Zenon
    <3>3. \A j \in 1..Len(steps) : steps[j] \in StepsOf(task)
      BY <2>1, SMT
    <3> QED  BY <2>1, <3>1, <3>2, <3>3, Zenon DEF TaskInv, Ordered
  <2>3. CASE h.tool = "WRITE_FILE"
    <3>1. task.opcode # "SEARCH" /\ "fallback" \notin DOMAIN context'
      <4>1. "write_status" # "fallback"
        BY SMT
      <4> QED  BY <1>5, <1>6, <1>10, <2>3, <4>1, Zenon DEF Unwritten
    <3>2. \A i \in 1..Len(steps') : steps'[i].tool \in {"BUILD_REPORT", "WRITE_ARTIFACT"}
      BY <1>1, <1>5, <2>2, <2>3, <3>1, LeftAfterWriting, Zenon
    <3> QED  BY <1>4, <3>1, <3>2, Zenon DEF WrittenLast
  <2>4. CASE h.tool = "FALLBACK"
    <3>1. "write_status" \notin DOMAIN context'
      <4>1. "write_status" # "fallback"
        BY SMT
      <4> QED  BY <1>5, <1>6, <1>10, <2>4, <4>1, Zenon DEF Unwritten
    <3>2. ~ \E i \in 1..Len(steps') : TRUE
      BY <1>1, <1>5, <2>2, <2>4, LeftAfterWriting, Zenon
    <3>3. steps' = <<>>
      <4>1. PICK s \in Seq(StepsOf(task)) : s = steps'
        BY <1>4, <2>1, Zenon
      <4>2. s = <<>>
        BY <3>2, <4>1, SMT
      <4> QED  BY <4>1, <4>2, Zenon
    <3> QED  BY <3>1, <3>3, Zenon DEF WrittenLast
  <2> QED  BY <1>6, <2>3, <2>4, Zenon
<1>22. WholeFiles'
  BY <1>7, <1>8, <1>9, Zenon DEF TaskInv, WholeFiles
<1>23. ErrorLeavesFiles' /\ AnswerIsTrue'
  BY <1>4, <1>5, Zenon DEF ErrorLeavesFiles, AnswerIsTrue
<1> QED
  BY <1>10, <1>13, <1>14, <1>15, <1>16, <1>18, <1>19, <1>20, <1>21, <1>22, <1>23, Zenon
     DEF TaskInv

\* Only a search has an output that is too large for the answer.
LEMMA LargeIsSearch ==
    ASSUME TaskInv, TooLarge
    PROVE  task.opcode = "SEARCH"
<1>1. "final_output" \in DOMAIN context /\ Len(context["final_output"]) > INLINE_LIMIT
  BY Zenon DEF TooLarge
<1>2. task.opcode # "SEARCH" => context["final_output"] = <<Line("completed")>>
  BY <1>1, Zenon DEF TaskInv, OutputShort
<1>3. Len(<<Line("completed")>>) = 1 /\ INLINE_LIMIT >= 1
  BY LimitsAssumption, SMT
<1>4. ~ (1 > INLINE_LIMIT)
  BY <1>3, LimitsAssumption, SMT
<1> QED  BY <1>1, <1>2, <1>3, <1>4, Zenon

\* The artifact becomes the one step that remains.
LEMMA FallBackStep ==
    ASSUME TaskInv, FallBack
    PROVE  TaskInv'
<1>1. PICK h : h = Step("FALLBACK", "result.txt", "final_output", "fallback")
  BY Zenon
<1>2. /\ phase = "RUNNING" /\ steps = <<>> /\ TooLarge
      /\ "fallback" \notin DOMAIN context
      /\ steps' = <<h>>
      /\ files' = files /\ tmp' = tmp /\ task' = task /\ context' = context
      /\ phase' = phase /\ answer' = answer /\ before' = before /\ start' = start
  BY <1>1, Zenon DEF FallBack, PlanDone, FallbackStep, history
<1>3. task.opcode = "SEARCH" /\ "final_output" \in DOMAIN context
  BY <1>2, LargeIsSearch, Zenon DEF TooLarge
<1>4. h \in StepsOf(task) /\ h.consumes = "final_output"
  BY <1>1, <1>3, Zenon DEF StepsOf, Step
<1>5. StepsOf(task)' = StepsOf(task)
  BY <1>2, Zenon DEF StepsOf, Step
<1>6. /\ steps' \in Seq(StepsOf(task)) /\ steps'[1] = h
      /\ \A i \in 1..Len(steps') : i = 1
      /\ ~ (1 < 1)
  BY <1>2, <1>4, SMT
<1>7. tmp = {}
  BY <1>2, Zenon DEF TaskInv, TempInUse, WriteStep
<1>8. Types'
  BY <1>2, <1>5, <1>6, Zenon DEF TaskInv, Types
<1>9. AtRest' /\ TempInUse' /\ Pending' /\ WrittenLast'
  BY <1>2, <1>3, <1>7, Zenon
     DEF TaskInv, AtRest, TempInUse, Pending, WrittenLast
<1>10. Ordered' /\ SuppliedInTime'
  BY <1>2, <1>3, <1>4, <1>6, Zenon DEF Ordered, SuppliedInTime
<1>11. FilesStay' /\ Untouched' /\ OutputShort' /\ InputKept' /\ WholeFiles'
  BY <1>2, Zenon
     DEF TaskInv, FilesStay, Untouched, Unwritten, OutputShort, InputKept, WholeFiles
<1>12. Faithful' <=> Faithful
  BY <1>2, Zenon DEF Faithful
<1>13. ContextTrue' /\ FilesTrue'
  BY <1>2, <1>12, Zenon DEF TaskInv, ContextTrue, FilesTrue
<1>14. ErrorLeavesFiles' /\ AnswerIsTrue'
  BY <1>2, Zenon DEF ErrorLeavesFiles, AnswerIsTrue
<1> QED
  BY <1>8, <1>9, <1>10, <1>11, <1>13, <1>14, Zenon DEF TaskInv

\* The task is answered.
LEMMA FinishStep ==
    ASSUME TaskInv, Finish
    PROVE  TaskInv'
<1>1. /\ phase = "RUNNING" /\ steps = <<>> /\ phase' = "ANSWERED"
      /\ TooLarge => "fallback" \in DOMAIN context
      /\ answer' = [status |-> "OK",
                    output |->
                      IF "final_output" \notin DOMAIN context THEN NoOutput
                      ELSE IF TooLarge THEN [in |-> "artifact", lines |-> <<>>]
                      ELSE [in |-> "answer", lines |-> context["final_output"]]]
      /\ context' = <<>> /\ files' = files /\ tmp' = tmp /\ task' = task
      /\ steps' = steps /\ before' = before /\ start' = start
  BY Zenon DEF Finish, PlanDone, history
<1>2. tmp = {}
  BY <1>1, Zenon DEF TaskInv, TempInUse, WriteStep
<1>3. DOMAIN context' = {} /\ 1..Len(steps) = {} /\ steps' \in Seq(StepsOf(task)')
  BY <1>1, SMT
<1>4. Types'
  BY <1>1, <1>3, Zenon DEF TaskInv, Types
<1>5. AtRest' /\ TempInUse' /\ InputKept' /\ Untouched' /\ Pending'
  BY <1>1, <1>2, SMT DEF AtRest, TempInUse, InputKept, Untouched, Pending
<1>6. Ordered' /\ SuppliedInTime' /\ WrittenLast' /\ OutputShort'
  BY <1>1, <1>3, Zenon DEF Ordered, SuppliedInTime, WrittenLast, OutputShort
<1>7. ContextTrue' /\ FilesTrue'
  BY <1>3, Zenon DEF ContextTrue, FilesTrue
<1>8. FilesStay' /\ WholeFiles'
  BY <1>1, Zenon DEF TaskInv, FilesStay, WholeFiles
<1>9. ErrorLeavesFiles'
  <2>1. answer'.status # "ERROR"
    BY <1>1, SMT
  <2> QED  BY <2>1, Zenon DEF ErrorLeavesFiles
<1>10. AnswerIsTrue'
  <2> SUFFICES ASSUME Faithful, task.opcode # "SEARCH" => task.out_file # NoFile
               PROVE  ResultFor(task, before, Shown')
    BY <1>1, Zenon DEF AnswerIsTrue, Faithful, ResultFor
  <2>1. CASE task.opcode # "SEARCH"
    <3>1. "write_status" \in DOMAIN context
      BY <1>1, <1>3, <2>1, Zenon DEF TaskInv, Pending
    <3>2. Shown' = files[task.out_file].lines
      BY <1>1, <2>1, Zenon DEF Shown
    <3> QED  BY <3>1, <3>2, Zenon DEF TaskInv, FilesTrue
  <2>2. CASE task.opcode = "SEARCH"
    <3>1. "final_output" \in DOMAIN context
      BY <1>1, <1>3, <2>2, Zenon DEF TaskInv, Pending
    <3>2. ResultFor(task, before, context["final_output"])
      BY <2>2, <3>1, Zenon DEF TaskInv, ContextTrue, KeyTrue
    <3>3. CASE TooLarge
      <4>1. answer'.output.in = "artifact"
        BY <1>1, <3>1, <3>3, SMT
      <4>2. Shown' = files["result.txt"].lines
        BY <1>1, <2>2, <4>1, Zenon DEF Shown
      <4> QED  BY <1>1, <3>3, <4>2, Zenon DEF TaskInv, FilesTrue
    <3>4. CASE ~ TooLarge
      <4>1. answer'.output.in = "answer" /\ answer'.output.lines = context["final_output"]
        BY <1>1, <3>1, <3>4, SMT
      <4>2. answer'.output.in # "artifact"
        BY <4>1, SMT
      <4>3. Shown' = context["final_output"]
        BY <1>1, <2>2, <4>1, <4>2, Zenon DEF Shown
      <4> QED  BY <3>2, <4>3, Zenon
    <3> QED  BY <3>3, <3>4, Zenon
  <2> QED  BY <2>1, <2>2, Zenon
<1> QED
  BY <1>4, <1>5, <1>6, <1>7, <1>8, <1>9, <1>10, Zenon DEF TaskInv

\* The server stops: the files stay, a temporary one among them.
LEMMA CrashStep ==
    ASSUME TaskInv, Crash
    PROVE  TaskInv'
<1>1. /\ phase = "RUNNING" /\ phase' = "IDLE" /\ tmp' = {} /\ steps' = <<>>
      /\ context' = <<>> /\ files' = files /\ task' = task /\ before' = before
      /\ start' = start
  BY Zenon DEF Crash
<1>2. DOMAIN context' = {} /\ 1..Len(steps') = {} /\ steps' \in Seq(StepsOf(task)')
  BY <1>1, SMT
<1>3. Types'
  BY <1>1, <1>2, Zenon DEF TaskInv, Types
<1>4. AtRest' /\ TempInUse' /\ Untouched' /\ Pending'
  BY <1>1, SMT DEF AtRest, TempInUse, Untouched, Pending
<1>5. phase # "ANSWERED"
  BY <1>1, SMT
<1>6. InputKept' /\ FilesStay' /\ WholeFiles'
  BY <1>1, <1>5, Zenon DEF TaskInv, InputKept, FilesStay, WholeFiles
<1>7. Ordered' /\ SuppliedInTime' /\ WrittenLast' /\ OutputShort'
  BY <1>2, Zenon DEF Ordered, SuppliedInTime, WrittenLast, OutputShort
<1>8. ContextTrue' /\ FilesTrue'
  BY <1>2, Zenon DEF ContextTrue, FilesTrue
<1>9. ErrorLeavesFiles' /\ AnswerIsTrue'
  BY <1>1, SMT DEF ErrorLeavesFiles, AnswerIsTrue
<1> QED
  BY <1>3, <1>4, <1>6, <1>7, <1>8, <1>9, Zenon DEF TaskInv

\* handle_task plans a task.
LEMMA StartTaskStep ==
    ASSUME TaskInv, NEW t \in Tasks, StartTask(t)
    PROVE  TaskInv'
<1>1. /\ phase # "RUNNING" /\ task' = t /\ phase' = "RUNNING" /\ context' = <<>>
      /\ files' = files /\ tmp' = tmp /\ start' = files
      /\ before' = IF phase = "IDLE" /\ task = t THEN before ELSE files
  BY Zenon DEF StartTask
<1>2. PICK size : steps' = BuildPlan(t, size)
  BY Zenon DEF StartTask
<1>3. IsPlan(t, steps')
  <2>1. IsPlan(t, BuildPlan(t, size))
    BY PlanBuilt, Zenon
  <2> QED  BY <1>2, <2>1, Zenon
<1>4. DOMAIN context' = {}
  BY <1>1, SMT
<1>5. StepsOf(task)' = StepsOf(t)
  BY <1>1, Zenon DEF StepsOf, Step
<1>6. Types'
  <2>1. \A n \in DOMAIN before' : IsText(before'[n].lines)
    BY <1>1, Zenon DEF TaskInv, Types
  <2>2. steps' \in Seq(StepsOf(task))'
    BY <1>3, <1>5, Zenon DEF IsPlan
  <2> QED  BY <1>1, <1>4, <2>1, <2>2, Zenon DEF TaskInv, Types
<1>7. tmp = {}
  BY <1>1, Zenon DEF TaskInv, AtRest
<1>8. AtRest' /\ TempInUse'
  BY <1>1, <1>7, Zenon DEF AtRest, TempInUse
<1>9. Ordered' /\ SuppliedInTime' /\ Pending'
  BY <1>1, <1>3, Zenon DEF IsPlan, Ordered, SuppliedInTime, Pending
<1>10. ContextTrue' /\ FilesTrue' /\ WrittenLast' /\ OutputShort'
  BY <1>4, Zenon DEF ContextTrue, FilesTrue, WrittenLast, OutputShort
<1>11. FilesStay' /\ Untouched' /\ WholeFiles'
  BY <1>1, <1>7, Zenon DEF TaskInv, FilesStay, Untouched, WholeFiles
<1>12. InputKept'
  <2> SUFFICES ASSUME t.input_file \in DOMAIN files, Repeatable(t)
               PROVE  InputFor(t, before', files[t.input_file].lines)
    BY <1>1, Zenon DEF InputKept
  <2>1. CASE phase = "IDLE" /\ task = t
    <3>1. phase # "ANSWERED"
      BY <2>1, SMT
    <3>2. InputFor(task, before, files[task.input_file].lines)
      BY <2>1, <3>1, Zenon DEF TaskInv, InputKept
    <3> QED  BY <1>1, <2>1, <3>2, Zenon
  <2>2. CASE ~ (phase = "IDLE" /\ task = t)
    <3>1. before' = files
      BY <1>1, <2>2, Zenon
    <3>2. InputFor(t, files, files[t.input_file].lines)
      BY Zenon DEF InputFor
    <3> QED  BY <3>1, <3>2, Zenon
  <2> QED  BY <2>1, <2>2, Zenon
<1>13. ErrorLeavesFiles' /\ AnswerIsTrue'
  BY <1>1, SMT DEF ErrorLeavesFiles, AnswerIsTrue
<1> QED
  BY <1>6, <1>8, <1>9, <1>10, <1>11, <1>12, <1>13, Zenon DEF TaskInv

-----------------------------------------------------------------------------
LEMMA TaskInit == Init => TaskInv
<1> SUFFICES ASSUME Init PROVE TaskInv
  BY Zenon
<1>1. /\ tmp = {} /\ task \in Tasks /\ steps = <<>>
      /\ context = <<>> /\ phase = "IDLE" /\ before = files /\ start = files
  BY Zenon DEF Init
<1>2. PICK f \in InitialFiles : files = [n \in DOMAIN f |-> File(f[n], TRUE)]
  BY Zenon DEF Init
<1>3. DOMAIN context = {} /\ 1..Len(steps) = {} /\ steps \in Seq(StepsOf(task))
  BY <1>1, SMT
<1>4. \A n \in DOMAIN files : files[n].whole /\ IsText(files[n].lines)
  <2> SUFFICES ASSUME NEW n \in DOMAIN files
               PROVE  files[n].whole /\ IsText(files[n].lines)
    BY Zenon
  <2>1. n \in DOMAIN f /\ files[n] = File(f[n], TRUE)
    BY <1>2, Zenon
  <2>2. File(f[n], TRUE).lines = f[n] /\ File(f[n], TRUE).whole
    BY SMT DEF File
  <2>3. f[n] \in Seq(Lines)
    BY <2>1, InitialFilesAssumption, Zenon
  <2> QED  BY <2>1, <2>2, <2>3, Zenon DEF IsText
<1>5. Types
  BY <1>1, <1>3, <1>4, Zenon DEF Types
<1>6. AtRest /\ TempInUse /\ Untouched /\ Pending
  BY <1>1, SMT DEF AtRest, TempInUse, Untouched, Pending
<1>7. Ordered /\ SuppliedInTime /\ WrittenLast /\ OutputShort
  BY <1>3, Zenon DEF Ordered, SuppliedInTime, WrittenLast, OutputShort
<1>8. ContextTrue /\ FilesTrue
  BY <1>3, Zenon DEF ContextTrue, FilesTrue
<1>9. FilesStay /\ InputKept /\ WholeFiles
  BY <1>1, <1>4, Zenon DEF FilesStay, InputKept, InputFor, WholeFiles
<1>10. ErrorLeavesFiles /\ AnswerIsTrue
  BY <1>1, SMT DEF ErrorLeavesFiles, AnswerIsTrue
<1> QED  BY <1>5, <1>6, <1>7, <1>8, <1>9, <1>10, Zenon DEF TaskInv

LEMMA TaskStutter ==
    ASSUME TaskInv, UNCHANGED vars
    PROVE  TaskInv'
<1>1. /\ files' = files /\ tmp' = tmp /\ task' = task /\ steps' = steps
      /\ context' = context /\ phase' = phase /\ answer' = answer
      /\ before' = before /\ start' = start
  BY Zenon DEF vars, history
<1>2. StepsOf(task)' = StepsOf(task)
  BY <1>1, Zenon DEF StepsOf, Step
<1>3. Types' /\ AtRest' /\ Ordered' /\ SuppliedInTime' /\ Pending' /\ TempInUse'
  BY <1>1, <1>2, Zenon
     DEF TaskInv, Types, AtRest, Ordered, SuppliedInTime, Pending, TempInUse,
         WriteStep, Content
<1>4. FilesStay' /\ Untouched' /\ WrittenLast' /\ OutputShort' /\ WholeFiles' /\ InputKept'
  BY <1>1, Zenon
     DEF TaskInv, FilesStay, Untouched, Unwritten, WrittenLast, OutputShort, WholeFiles,
         InputKept
<1>5. Faithful' <=> Faithful
  BY <1>1, Zenon DEF Faithful
<1>6. ContextTrue' /\ FilesTrue'
  BY <1>1, <1>5, Zenon DEF TaskInv, ContextTrue, FilesTrue
<1>7. ErrorLeavesFiles' /\ AnswerIsTrue'
  BY <1>1, Zenon DEF TaskInv, ErrorLeavesFiles, AnswerIsTrue, Shown
<1> QED  BY <1>3, <1>4, <1>6, <1>7, Zenon DEF TaskInv

LEMMA TaskNext == TaskInv /\ [Next]_vars => TaskInv'
<1> SUFFICES ASSUME TaskInv, [Next]_vars PROVE TaskInv'
  BY Zenon
<1>1. CASE \E t \in Tasks : StartTask(t)
  BY <1>1, StartTaskStep, Zenon
<1>2. CASE RunTool
  BY <1>2, RunToolStep, Zenon
<1>3. CASE ToolRaises
  BY <1>3, ToolRaisesStep, Zenon
<1>4. CASE OpenTemp \/ WriteTemp
  BY <1>4, TempStep, Zenon
<1>5. CASE WriteTempRaises \/ ReplaceRaises
  BY <1>5, WriteRaisesStep, Zenon
<1>6. CASE Replace
  BY <1>6, ReplaceStep, Zenon
<1>7. CASE FallBack
  BY <1>7, FallBackStep, Zenon
<1>8. CASE Finish
  BY <1>8, FinishStep, Zenon
<1>9. CASE Crash
  BY <1>9, CrashStep, Zenon
<1>10. CASE UNCHANGED vars
  BY <1>10, TaskStutter, Zenon
<1> QED
  BY <1>1, <1>2, <1>3, <1>4, <1>5, <1>6, <1>7, <1>8, <1>9, <1>10, Zenon
     DEF Next, Server

LEMMA TaskInvariant == Spec => []TaskInv
BY TaskInit, TaskNext, PTL DEF Spec

\* A file that is half written has a temporary name: _atomic_write gives a file
\* the name tasks know it by only when its content is complete, and what a stop
\* or a failing write leaves in the sandbox never gets one.
THEOREM FilesWhole == Spec => []WholeFiles
<1>1. TaskInv => WholeFiles
  BY Zenon DEF TaskInv
<1> QED  BY <1>1, TaskInvariant, PTL

\* A task that is answered with an error has changed and removed no file, and
\* has left at most a temporary one: in a plan without the plan artifact the
\* only file is put in place after everything that can fail.
THEOREM ErrorsChangeNothing == Spec => []ErrorLeavesFiles
<1>1. TaskInv => ErrorLeavesFiles
  BY Zenon DEF TaskInv
<1> QED  BY <1>1, TaskInvariant, PTL

\* An OK is the truth about the input as it was when the task was first asked
\* for, line numbers and count included: always when execute_plan ran but once,
\* and for a task that can be repeated however often the server stopped.
THEOREM AnswersAreTrue == Spec => []AnswerIsTrue
<1>1. TaskInv => AnswerIsTrue
  BY Zenon DEF TaskInv
<1> QED  BY <1>1, TaskInvariant, PTL

=============================================================================
