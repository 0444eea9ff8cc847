------------------------------ MODULE Verdicts ------------------------------
(***************************************************************************)
(* The columns a worker writes into a row of the submissions table: status, *)
(* wrong_testcase and program_output.  The text of program_output is kept   *)
(* only as far as its origin: which message, or which stream of the         *)
(* program, was stored.  wrong_testcase is kept as set or NULL.             *)
(***************************************************************************)

Nil == "nil"

FinalStatuses == {"ACCEPTED", "WRONG_ANSWER", "COMPILATION_ERROR"}

\* Messages the worker composes itself when it gives up before a result.
WorkerMessages == {"unsupportedLanguage", "noTestCases", "noSystemCode",
                   "noImports", "executionError"}

ProgramOutputs == WorkerMessages \cup {"stdout", "stderr", Nil}

Verdicts == [status : FinalStatuses, wrongTestcase : BOOLEAN,
             programOutput : ProgramOutputs]

Column(status, wrong, output) ==
  [status |-> status, wrongTestcase |-> wrong, programOutput |-> output]

\* No row with this id, and the row as it is inserted.
Absent     == Column("ABSENT", FALSE, Nil)
Processing == Column("PROCESSING", FALSE, Nil)

\* The update of every error branch of processCodeJob.
Failure(message) == Column("COMPILATION_ERROR", FALSE, message)

\* What Execute reports with a nil error.
Accepted     == Column("ACCEPTED", FALSE, Nil)
WrongAnswer  == Column("WRONG_ANSWER", TRUE, "stdout")
RuntimeError == Column("COMPILATION_ERROR", TRUE, "stderr")
BuildFailure == Column("COMPILATION_ERROR", FALSE, Nil)

ExecutionResults == {Accepted, WrongAnswer, RuntimeError, BuildFailure}
=============================================================================
