------------------------------ MODULE Planner -------------------------------
(***************************************************************************)
(* Planner of server/agent/planner.py: the steps that carry out a task.    *)
(* A step names its tool, the context key it consumes, the one it produces *)
(* and the file it reads or writes.  Patterns, messages and plan ids are   *)
(* left out; sizes are counted in lines.                                   *)
(***************************************************************************)
EXTENDS Integers, Sequences

CONSTANTS
    STREAM_THRESHOLD,  \* largest file that is read in one piece (256 KB)
    NoFile             \* out_file is missing from the payload

ASSUME ThresholdAssumption == STREAM_THRESHOLD \in Nat

Step(tool, path, consumes, produces) ==
    [tool |-> tool, path |-> path, consumes |-> consumes, produces |-> produces]

ExecutionMode(file_size) ==
    IF file_size <= STREAM_THRESHOLD THEN "MEMORY" ELSE "STREAM"

ReadStep(task, mode) ==
    IF mode = "MEMORY"
    THEN Step("READ_FILE", task.input_file, "nothing", "file_content")
    ELSE Step("STREAM_READ", task.input_file, "nothing", "file_stream")

SearchReport(task, mode) ==
    <<ReadStep(task, mode),
      Step("SEARCH_LINES", NoFile, ReadStep(task, mode).produces, "search_results"),
      Step("BUILD_REPORT", NoFile, "search_results", "final_output")>>

FilterLines(task, mode) ==
    <<ReadStep(task, mode),
      Step("FILTER_LINES", NoFile, ReadStep(task, mode).produces, "filtered_lines")>>
    \o IF task.out_file = NoFile THEN <<>>
       ELSE <<Step("WRITE_FILE", task.out_file, "filtered_lines", "write_status"),
              Step("BUILD_REPORT", NoFile, "nothing", "final_output")>>

\* Always a binary stream, and a write even when out_file is missing.
HashAndStore(task) ==
    <<Step("STREAM_READ", task.input_file, "nothing", "file_stream"),
      Step("HASH_SHA256", NoFile, "file_stream", "hash_result"),
      Step("WRITE_FILE", task.out_file, "hash_result", "write_status"),
      Step("BUILD_REPORT", NoFile, "nothing", "final_output")>>

\* options.return_plan adds a step that writes the plan itself.
PlanArtifact(task) ==
    IF task.return_plan
    THEN <<Step("WRITE_ARTIFACT", "plan.json", "nothing", "plan_artifact_path")>>
    ELSE <<>>

\* build_plan for a task whose input has the given size.
BuildPlan(task, file_size) ==
    LET mode == ExecutionMode(file_size)
    IN  (CASE task.opcode = "SEARCH" -> SearchReport(task, mode)
           [] task.opcode = "FILTER" -> FilterLines(task, mode)
           [] task.opcode = "HASH"   -> HashAndStore(task))
        \o PlanArtifact(task)

=============================================================================
