--------------------------- MODULE TaskExecution ----------------------------
(***************************************************************************)
(* handle_task with the ToolDispatcher of server/agent/tool_dispatcher.py: *)
(* a plan is carried out step by step on the files of the sandbox, with    *)
(* every write going through a temporary file, and the server may stop     *)
(* between any two of these steps.  What it had in memory is gone then and *)
(* the files stay.  The user may start the same task again.                *)
(*                                                                         *)
(* A file is the sequence of its lines, with a mark whether its writer got *)
(* to the end.  A line is a text and the line numbers that searches have   *)
(* put in front of it; which lines contain which pattern is a constant.    *)
(* The copies of one request that the caches answer are in AgentServer:    *)
(* here a task is one that reaches the planner.                            *)
(***************************************************************************)
EXTENDS Planner, FiniteSets, Functions

CONSTANTS
    Tasks,          \* the tasks in use
    Contains(_, _), \* whether a line contains a pattern
    Lines,          \* the lines of the first files
    InitialFiles,   \* what the sandbox may hold at first: name -> lines
    TempNames,      \* the names tempfile makes up
    INLINE_LIMIT,   \* lines that fit into an answer (64 KB)
    SEARCH_CAP,     \* a search stops when it has more matches (1000)
    MaxTasks,       \* bound: executions that are begun
    MaxCrashes      \* bound: stops of the server

ASSUME TasksAssumption ==
    \A t \in Tasks : /\ t.opcode \in {"SEARCH", "FILTER", "HASH"}
                     /\ t.return_plan \in BOOLEAN
ASSUME InitialFilesAssumption ==
    \A f \in InitialFiles : \A n \in DOMAIN f : f[n] \in Seq(Lines)
\* No task writes to a name that tempfile makes up; it may read one.
ASSUME TempNamesAssumption ==
    /\ "result.txt" \notin TempNames
    /\ \A t \in Tasks : t.out_file \notin TempNames
ASSUME LimitsAssumption ==
    /\ INLINE_LIMIT \in Nat \ {0} /\ SEARCH_CAP \in Nat
    /\ MaxTasks \in Nat
    /\ MaxCrashes \in Nat

VARIABLES
    files,     \* the sandbox: name -> lines and whether they are all there
    tmp,       \* name of the temporary file in use, if any
    task,      \* the task being executed or executed last
    steps,     \* the steps of its plan that remain
    context,   \* what its steps have produced
    phase,     \* IDLE, RUNNING or ANSWERED
    answer,    \* status and output of the last answer
    before,    \* history: the sandbox when the task was first asked for
    start,     \* history: the sandbox when this execution of it began
    executions,\* history: executions begun so far
    crashes    \* history: stops so far

history == <<before, start, executions, crashes>>
vars == <<files, tmp, task, steps, context, phase, answer, before, start,
          executions, crashes>>

File(lines, whole) == [lines |-> lines, whole |-> whole]

NoOutput == [in |-> "nowhere", lines |-> <<>>]

Init ==
    /\ \E f \in InitialFiles : files = [n \in DOMAIN f |-> File(f[n], TRUE)]
    /\ tmp = {}
    /\ task \in Tasks
    /\ steps = <<>>
    /\ context = <<>>
    /\ phase = "IDLE"
    /\ answer = [status |-> "OK", output |-> NoOutput]
    /\ before = files
    /\ start = files
    /\ executions = 0
    /\ crashes = 0

-----------------------------------------------------------------------------
(***************************************************************************)
(* What the tools compute.                                                 *)
(***************************************************************************)

Line(text) == [text |-> text, at |-> <<>>]
Blank == Line("")

\* "Line i: " in front of a line, which may be the result of a search itself.
Numbered(i, line) == [line EXCEPT !.at = <<i>> \o @]

\* The places of the lines that contain the pattern of t, and the function
\* that lists places in order: the only one of its set.
Hits(t, lines) == {i \in DOMAIN lines : Contains(lines[i], t.pattern)}
InOrder(places) ==
    {m \in [1..Cardinality(places) -> places] :
        \A i, j \in DOMAIN m : i < j => m[i] < m[j]}

\* _tool_filter_lines: the lines that match.  (As a set of one element, like
\* everything that is made of InOrder.)
Matching(t, lines) ==
    {[i \in DOMAIN m |-> lines[m[i]]] : m \in InOrder(Hits(t, lines))}

\* _tool_search_lines: each with its line number, cut off after one match more
\* than the cap.
CutOff(found) ==
    IF Len(found) <= SEARCH_CAP THEN found
    ELSE SubSeq(found, 1, SEARCH_CAP + 1) \o <<Line("truncated")>>
Found(t, lines) ==
    {CutOff([i \in DOMAIN m |-> Numbered(m[i], lines[m[i]])]) :
        m \in InOrder(Hits(t, lines))}

\* _tool_build_report: a header with the number of results, and the results.
Report(results) ==
    <<[text |-> "found", at |-> <<Len(results)>>]>> \o results

\* Lines of a stream keep their line ends, and writing them joins them with
\* line ends once more: a blank line between any two.
Joined(lines) ==
    [i \in 1..(IF lines = <<>> THEN 0 ELSE 2 * Len(lines) - 1) |->
        IF i % 2 = 1 THEN lines[(i + 1) \div 2] ELSE Blank]

Digest(lines) == <<[text |-> "digest", at |-> <<>>, of |-> lines]>>

\* The outputs that a tool which writes nothing may have.
Outputs(step) ==
    CASE step.tool \in {"READ_FILE", "STREAM_READ"} -> {files[step.path].lines}
      [] step.tool = "SEARCH_LINES" -> Found(task, context[step.consumes])
      [] step.tool = "FILTER_LINES" ->
             IF step.consumes = "file_stream"
             THEN {Joined(r) : r \in Matching(task, context[step.consumes])}
             ELSE Matching(task, context[step.consumes])
      [] step.tool = "HASH_SHA256" -> {Digest(context[step.consumes])}
      [] step.tool = "BUILD_REPORT" ->
             IF step.consumes = "nothing" THEN {<<Line("completed")>>}
             ELSE {Report(context[step.consumes])}

Writes(step) == step.tool \in {"WRITE_FILE", "WRITE_ARTIFACT", "FALLBACK"}

Put(f, key, value) ==
    [k \in DOMAIN f \cup {key} |-> IF k = key THEN value ELSE f[k]]
Remove(f, key) == Restrict(f, DOMAIN f \ {key})

-----------------------------------------------------------------------------
\* handle_task up to the plan.  The size is that of whatever has the bare name
\* of the input in the working directory, which is not the sandbox, or 0: large
\* or small, it says nothing about the input.
StartTask(t) ==
    /\ phase # "RUNNING"
    /\ executions < MaxTasks
    /\ executions' = executions + 1
    /\ task' = t
    /\ \E size \in {0, STREAM_THRESHOLD + 1} : steps' = BuildPlan(t, size)
    /\ context' = <<>>
    /\ phase' = "RUNNING"
    /\ start' = files
    /\ before' = IF phase = "IDLE" /\ task = t THEN before ELSE files
    /\ UNCHANGED <<files, tmp, answer, crashes>>

\* The key the next step consumes is there.
Supplied(step) == step.consumes = "nothing" \/ step.consumes \in DOMAIN context

Readable(step) ==
    step.tool \in {"READ_FILE", "STREAM_READ"} => step.path \in DOMAIN files

\* _execute_step for a tool that only computes.
RunTool ==
    /\ phase = "RUNNING"
    /\ steps # <<>>
    /\ ~ Writes(Head(steps))
    /\ Supplied(Head(steps))
    /\ Readable(Head(steps))
    /\ \E out \in Outputs(Head(steps)) :
           context' = Put(context, Head(steps).produces, out)
    /\ steps' = Tail(steps)
    /\ UNCHANGED <<files, tmp, task, phase, answer, history>>

\* An exception ends the task and the dispatcher answers with an error.
Fail ==
    /\ phase' = "ANSWERED"
    /\ answer' = [status |-> "ERROR", output |-> NoOutput]
    /\ steps' = <<>>
    /\ context' = <<>>
    /\ UNCHANGED <<task, history>>

\* An input that is missing or cannot be read (a stream finds out when it is
\* consumed), an empty path, and always the plan artifact: its writer calls
\* asdict, which the module does not import.  Only a report never fails.
ToolRaises ==
    /\ phase = "RUNNING"
    /\ steps # <<>>
    /\ tmp = {}
    /\ ~ Supplied(Head(steps)) \/ Head(steps).tool # "BUILD_REPORT"
    /\ Fail
    /\ UNCHANGED <<files, tmp>>

-----------------------------------------------------------------------------
(***************************************************************************)
(* _atomic_write: temporary file, content, rename.  The temporary file is  *)
(* made in the directory of the target with delete=False: it is a file of  *)
(* the sandbox like any other, to be listed and read, until it is renamed  *)
(* or removed.                                                             *)
(***************************************************************************)

WriteStep ==
    /\ phase = "RUNNING"
    /\ steps # <<>>
    /\ Head(steps).tool \in {"WRITE_FILE", "FALLBACK"}
    /\ Head(steps).path # NoFile

Content == context[Head(steps).consumes]

\* NamedTemporaryFile under a new name, and some of tmp.write.
OpenTemp ==
    /\ WriteStep
    /\ tmp = {}
    /\ \E n \in TempNames \ DOMAIN files, k \in 0..Len(Content) :
           /\ tmp' = {n}
           /\ files' = Put(files, n, File(SubSeq(Content, 1, k), FALSE))
    /\ UNCHANGED <<task, steps, context, phase, answer, history>>

\* All of it is written, flushed and synchronised.
WriteTemp ==
    /\ WriteStep
    /\ \E n \in tmp :
           /\ ~ files[n].whole
           /\ files' = Put(files, n, File(Content, TRUE))
    /\ UNCHANGED <<tmp, task, steps, context, phase, answer, history>>

\* tmp.write fails: tmp_name is not set yet, so the file is never removed.
WriteTempRaises ==
    /\ WriteStep
    /\ \E n \in tmp : ~ files[n].whole
    /\ tmp' = {}
    /\ Fail
    /\ UNCHANGED files

\* The temporary file is done with; its step has been carried out.
Rename ==
    /\ \E n \in tmp : files' = Put(Remove(files, n), Head(steps).path, files[n])
    /\ tmp' = {}
    /\ context' = Put(context, Head(steps).produces, <<Line("written")>>)
    /\ steps' = Tail(steps)
    /\ UNCHANGED <<task, phase, answer, history>>

\* Mutant: the file is renamed before all of its content is written.
ReplaceEarly ==
    /\ WriteStep
    /\ Rename

\* os.replace: from now on the file is there, whole.
Replace ==
    /\ WriteStep
    /\ \E n \in tmp : files[n].whole
    /\ Rename

\* Mutant: the old file is removed first, to make room.
ReplaceRaisesTooLate ==
    /\ WriteStep
    /\ \E n \in tmp :
           /\ files[n].whole
           /\ files' = Remove(Remove(files, n), Head(steps).path)
    /\ tmp' = {}
    /\ Fail

\* os.replace fails (the target is a directory): the file is removed.
ReplaceRaises ==
    /\ WriteStep
    /\ \E n \in tmp :
           /\ files[n].whole
           /\ files' = Remove(files, n)
    /\ tmp' = {}
    /\ Fail

-----------------------------------------------------------------------------
(***************************************************************************)
(* The end of execute_plan.                                                *)
(***************************************************************************)

PlanDone == phase = "RUNNING" /\ steps = <<>>

TooLarge ==
    /\ "final_output" \in DOMAIN context
    /\ Len(context["final_output"]) > INLINE_LIMIT

\* _write_fallback_artifact.  The path is made of "default_client" and the
\* request id; the tasks here are ones whose ids agree, from several clients.
FallbackStep == <<Step("FALLBACK", "result.txt", "final_output", "fallback")>>

\* Mutant: an artifact that is there is not written again.
FallBackUnlessThere ==
    /\ PlanDone
    /\ TooLarge
    /\ "fallback" \notin DOMAIN context
    /\ IF "result.txt" \in DOMAIN files
       THEN /\ context' = Put(context, "fallback", <<Line("written")>>)
            /\ UNCHANGED steps
       ELSE /\ steps' = FallbackStep
            /\ UNCHANGED context
    /\ UNCHANGED <<files, tmp, task, phase, answer, history>>

\* A large output goes to an artifact first.
FallBack ==
    /\ PlanDone
    /\ TooLarge
    /\ "fallback" \notin DOMAIN context
    /\ steps' = FallbackStep
    /\ UNCHANGED <<files, tmp, task, context, phase, answer, history>>

\* The answer: the output, or where to find it, or nothing.
Finish ==
    /\ PlanDone
    /\ TooLarge => "fallback" \in DOMAIN context
    /\ answer' = [status |-> "OK",
                  output |->
                    IF "final_output" \notin DOMAIN context THEN NoOutput
                    ELSE IF TooLarge THEN [in |-> "artifact", lines |-> <<>>]
                    ELSE [in |-> "answer", lines |-> context["final_output"]]]
    /\ phase' = "ANSWERED"
    /\ context' = <<>>
    /\ UNCHANGED <<files, tmp, task, steps, history>>

\* The server process stops and is started again.  A temporary file that was
\* in use stays, with as much as it holds; nothing looks for it any more.
Crash ==
    /\ phase = "RUNNING"
    /\ crashes < MaxCrashes
    /\ crashes' = crashes + 1
    /\ tmp' = {}
    /\ steps' = <<>>
    /\ context' = <<>>
    /\ phase' = "IDLE"
    /\ UNCHANGED <<files, task, answer, before, start, executions>>

Server ==
    \/ RunTool
    \/ ToolRaises
    \/ OpenTemp
    \/ WriteTemp
    \/ WriteTempRaises
    \/ Replace
    \/ ReplaceRaises
    \/ FallBack
    \/ Finish

Next ==
    \/ \E t \in Tasks : StartTask(t)
    \/ Server
    \/ Crash

Spec == Init /\ [][Next]_vars

-----------------------------------------------------------------------------
\* Whenever the server stops, a file whose name tasks write to is the old one
\* or the new one, never half written: "Write file atomically using temp file +
\* rename" (_atomic_write).  Only a file with a temporary name may be half
\* written, while _atomic_write is at work and for ever after a stop.
WholeFiles == \A f \in DOMAIN files : ~ files[f].whole => f \in TempNames

\* A task that is answered with an error has changed and removed no file, and at
\* most left a temporary one behind, unless the plan artifact was asked for:
\* that step always fails, and fails last.
ErrorLeavesFiles ==
    phase = "ANSWERED" /\ answer.status = "ERROR" /\ ~ task.return_plan =>
        /\ \A f \in DOMAIN start : f \in DOMAIN files /\ files[f] = start[f]
        /\ DOMAIN files \subseteq DOMAIN start \cup TempNames

\* The results a task may have, given the lines of its input.  A filter may
\* leave blank lines between the matches.
Results(t, lines) ==
    CASE t.opcode = "SEARCH" -> {Report(r) : r \in Found(t, lines)}
      [] t.opcode = "FILTER" ->
             Matching(t, lines) \cup {Joined(r) : r \in Matching(t, lines)}
      [] t.opcode = "HASH" -> {Digest(lines)}

\* A task may be run again over what it has written: it writes elsewhere, or it
\* filters, and the blank lines that may leave do not match.  A second search
\* of a report would find it with other numbers, and a second hash is another.
Repeatable(t) ==
    IF t.opcode = "FILTER" THEN ~ Contains(Blank, t.pattern)
    ELSE t.input_file # (IF t.opcode = "SEARCH" THEN "result.txt" ELSE t.out_file)

\* Where a search shows its report to the client and the others store theirs.
Shown ==
    IF task.opcode # "SEARCH" THEN files[task.out_file].lines
    ELSE IF answer.output.in = "artifact" THEN files["result.txt"].lines
    ELSE answer.output.lines

\* An OK is the truth about the input as it was when the task was first asked
\* for: out_file holds its result, a search shows its matches with their places
\* in the input and their number.  If the task can be repeated, this is so even
\* when the server stopped on the way and the task was run again over whatever
\* the stop had left.
AnswerIsTrue ==
    /\ phase = "ANSWERED"
    /\ answer.status = "OK"
    /\ task.opcode # "SEARCH" => task.out_file # NoFile
    /\ before = start \/ Repeatable(task)
    => /\ task.input_file \in DOMAIN before
       /\ Shown \in Results(task, before[task.input_file].lines)

=============================================================================
