---------------------------- MODULE JudgeService ----------------------------
(***************************************************************************)
(* JudgePipeline and CodeRunner in one process: where a worker of the       *)
(* pipeline is at Execute, the runner takes its steps, and the verdict the  *)
(* worker writes is the one the runner returns.  Nothing else of either is  *)
(* left out, and neither is restricted by what it expects of the other.     *)
(***************************************************************************)
EXTENDS CodeRunner

CONSTANTS Languages,
          ServerFaults  \* failures of the pipeline that are not the runner's

\* The failures of JudgePipeline that a failure of CodeRunner brings about.
PipelineFaults ==
  ServerFaults
    \cup (Faults \cap {"crash", "hang"})
    \cup (IF Faults \cap {"disk", "docker", "twice"} # {} THEN {"execute"} ELSE {})
    \cup (IF "twice" \in Faults THEN {"xaddRetry"} ELSE {})

ASSUME ServerFaultsAssumption ==
  ServerFaults \subseteq {"insertLost", "xadd", "xaddLost", "readLost", "ack",
                          "load", "fetch", "execute", "update", "flush"}
ASSUME ServiceLanguagesAssumption == Languages \subseteq Int

\* The variables of JudgePipeline; at is its pc.
VARIABLES up, request, verdict, language, stream, lastDelivered, pending, at,
          job, result

Pipeline == INSTANCE JudgePipeline WITH pc <- at, Faults <- PipelineFaults

pipelineVars == <<up, request, verdict, language, stream, lastDelivered, pending,
                  at, job, result>>
serviceVars == <<vars, pipelineVars>>

\* GetLanguageConfig; the other ids are not supported.
LanguageName == [l \in {1, 2} |-> IF l = 1 THEN "python" ELSE "go"]

ServiceInit == Init /\ Pipeline!Init

-----------------------------------------------------------------------------
(* Variants with one plausible mistake each; they are not part of the next-  *)
(* state relation.                                                           *)

\* The error of Execute is logged but not returned on.
ReturnIgnoresError(w) ==
  /\ Report(w)
  /\ Pipeline!Conclude(w, IF outcome[w].verdict = ExecutionError
                            THEN Accepted ELSE outcome[w].verdict)
  /\ UNCHANGED <<up, request, verdict, language, stream, lastDelivered, pending>>

-----------------------------------------------------------------------------
(* The steps of the server outside Execute *)

\* A client sends a program, and the id of the language it is written in.
Insert(s, l) ==
  /\ Pipeline!Insert(s, l)
  /\ l \in DOMAIN LanguageName => program[s].language = LanguageName[l]

Process(w) ==
  \/ Pipeline!Read(w)
  \/ Pipeline!LoseRead(w)
  \/ Pipeline!Ack(w)
  \/ Pipeline!GetSubmission(w)
  \/ Pipeline!GetTestCases(w)
  \/ Pipeline!GetSystemCode(w)
  \/ Pipeline!GetLanguageImports(w)
  \/ Pipeline!UpdateSubmissionStatus(w)

Serve ==
  /\ \/ Pipeline!StartPool
     \/ Pipeline!Flush
     \/ \E s \in Submissions, l \in Languages : Insert(s, l)
     \/ \E s \in Submissions : Pipeline!Handle(s)
     \/ \E w \in Workers : Process(w)
  /\ UNCHANGED vars

-----------------------------------------------------------------------------
(* Execute, from its call to its return *)

CallExecute(w) ==
  /\ at[w] = "execute"
  /\ Begin(w, stream[job[w]])
  /\ UNCHANGED pipelineVars

\* A step of the runner that the pipeline does not see, unless it is the last.
Run(w) ==
  /\ Proceed(w)
  /\ IF pc'[w] = "hung" THEN Pipeline!GoTo(w, "hung") ELSE UNCHANGED <<at, job, result>>
  /\ UNCHANGED <<up, request, verdict, language, stream, lastDelivered, pending>>

\* What Execute returns is what the worker goes on to write.
ReturnExecute(w) ==
  /\ Report(w)
  /\ Pipeline!Conclude(w, outcome[w].verdict)
  /\ UNCHANGED <<up, request, verdict, language, stream, lastDelivered, pending>>

\* The process ends for both.
End == Pipeline!Crash /\ Crash

ServiceNext ==
  \/ Serve
  \/ \E w \in Workers : CallExecute(w) \/ Run(w) \/ ReturnExecute(w)
  \/ End

ServiceSpec == ServiceInit /\ [][ServiceNext]_serviceVars

-----------------------------------------------------------------------------
(* Properties *)

\* The service is a JudgePipeline: what Execute returns, and how it may fail or
\* not return, is what the pipeline allows for.  All that holds of the pipeline
\* holds of the service, the life cycle of submissions included.
\* (workerpool/pool.go: the call of Execute in processCodeJob)
PipelineSpec == Pipeline!Spec

\* The service is a CodeRunner: the pipeline calls Execute no more often than the
\* runner is made for, however processes end and groups are lost.
RunnerSpec == Spec

\* Whatever fails, a row says ACCEPTED or WRONG_ANSWER only if that is what the
\* program sent by the client deserves, until Execute is called again for it; and
\* what it says ACCEPTED of after that may be accepted.
\* (from the source file of Execute to the UPDATE of processCodeJob)
RowIsDeserved ==
  \A s \in Submissions :
    /\ calls[s] <= 1 /\ verdict[s] \in {Accepted, WrongAnswer} =>
         verdict[s] = Judge(program[s]).verdict
    /\ verdict[s] = Accepted => Acceptable(program[s], calls[s])

\* The same of COMPILATION_ERROR, with the message that goes with it, as long as
\* docker exec fails only because of the program and Execute is called once; an
\* error of the judge has a message of its own.
RowIsEarned ==
  \A s \in Submissions :
    calls[s] <= 1 /\ verdict[s] \in ExecutionResults =>
      verdict[s] = Judge(program[s]).verdict

\* A decided submission has no directory any more, and no container but one that
\* docker run started and did not name: the row is written after Execute has
\* cleaned up.  (workerpool/pool.go: processCodeJob)
DecidedLeavesNothing ==
  \A s \in Submissions : Pipeline!Decided(s) =>
    /\ dir[s] = "none"
    /\ \A c \in Containers :
         container[c] # Gone /\ ~container[c].lost => container[c].of # s
=============================================================================
