-------------------------- MODULE MCTaskExecution ---------------------------
(* An instance of TaskExecution for TLC: every kind of task on two files,    *)
(* among them tasks that overwrite their input, tasks without an output,     *)
(* searches in the artifact of an earlier one, also for a pattern that the   *)
(* header of a report contains, and a filter of a temporary file left over.  *)
EXTENDS TaskExecution

\* A pattern is the set of the texts it occurs in.
MCContains(line, pattern) == line.text \in pattern
Word == {"match"}
Letter == {"match", "found"}

Task(opcode, input_file, pattern, out_file, return_plan) ==
    [opcode |-> opcode, input_file |-> input_file, pattern |-> pattern,
     out_file |-> out_file, return_plan |-> return_plan]

MCTasks ==
    {Task("SEARCH", f, Word, NoFile, FALSE) : f \in {"a", "b"}}
    \cup {Task("SEARCH", "result.txt", Letter, NoFile, FALSE)}
    \cup {Task("FILTER", "a", Word, f, FALSE) : f \in {"a", "b", NoFile}}
    \cup {Task("FILTER", "tmp1", Word, "b", FALSE)}
    \cup {Task("HASH", "a", {}, f, FALSE) : f \in {"a", "b", NoFile}}
    \cup {Task("HASH", "b", {}, "a", TRUE)}

MCLines == {Line("match"), Line("other")}
Contents == UNION {[1..n -> MCLines] : n \in 0..3}
MCInitialFiles ==
    [{"a"} -> Contents]
    \cup {f \in [{"a", "b"} -> Contents] : f["b"] = <<Line("match"), Line("match")>>}

=============================================================================
