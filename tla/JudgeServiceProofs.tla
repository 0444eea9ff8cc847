------------------------- MODULE JudgeServiceProofs -------------------------
(***************************************************************************)
(* Theorems about JudgeService: the pipeline and the runner, proved apart   *)
(* from each other, keep in one process what each expects of the other.     *)
(***************************************************************************)
EXTENDS JudgeService, CodeRunnerProofs, FiniteSetTheorems

PP == INSTANCE JudgePipelineProofs WITH pc <- at, Faults <- PipelineFaults

-----------------------------------------------------------------------------
(* The pipeline of JudgeService is the one of JudgePipelineProofs.             *)

LEMMA SameVerdicts ==
  /\ Pipeline!ExecutionResults = ExecutionResults
  /\ Pipeline!BuildFailure = BuildFailure /\ PP!BuildFailure = BuildFailure
  /\ PP!ExecutionResults = ExecutionResults
  /\ PP!Failure("executionError") = ExecutionError
  /\ PP!Absent = Absent
  /\ PP!Processing = Processing
  /\ PP!Verdicts = Verdicts
BY DEF Pipeline!ExecutionResults, PP!ExecutionResults, ExecutionResults,
       Pipeline!Accepted, PP!Accepted, Accepted,
       Pipeline!WrongAnswer, PP!WrongAnswer, WrongAnswer,
       Pipeline!RuntimeError, PP!RuntimeError, RuntimeError,
       Pipeline!BuildFailure, PP!BuildFailure, BuildFailure,
       Pipeline!Column, PP!Column, Column,
       Pipeline!Nil, PP!Nil, Nil,
       PP!Failure, Failure, ExecutionError,
       PP!Absent, Absent, PP!Processing, Processing,
       PP!Verdicts, Verdicts, PP!FinalStatuses, FinalStatuses,
       PP!ProgramOutputs, ProgramOutputs, PP!WorkerMessages, WorkerMessages

\* The same sets are counted.
LEMMA SameCardinality ==
  /\ \A S : PP!Cardinality(S) = Pipeline!Cardinality(S)
  /\ \A S : PP!Cardinality(S) = Cardinality(S)
  /\ \A S : PP!IsFiniteSet(S) <=> IsFiniteSet(S)
<1>1. \A S : PP!Cardinality(S) = Pipeline!Cardinality(S)
  BY DEF PP!Cardinality, Pipeline!Cardinality
<1>2. \A S : PP!Cardinality(S) = Cardinality(S)
  BY DEF PP!Cardinality, Cardinality
<1>3. \A S : PP!IsFiniteSet(S) <=> IsFiniteSet(S)
  BY DEF PP!IsFiniteSet, IsFiniteSet
<1>. QED
  BY <1>1, <1>2, <1>3

LEMMA SameServer ==
  /\ Pipeline!StartPool <=> PP!StartPool
  /\ Pipeline!Flush <=> PP!Flush
  /\ Pipeline!Crash <=> PP!Crash
  /\ \A s \in Submissions, l \in Languages : Pipeline!Insert(s, l) <=> PP!Insert(s, l)
  /\ \A s \in Submissions : Pipeline!Handle(s) <=> PP!Handle(s)
<1> USE DEF Pipeline!handlerVars, PP!handlerVars, Pipeline!workerVars,
            PP!workerVars, Pipeline!queueVars, PP!queueVars,
            Pipeline!NoGroup, PP!NoGroup
<1>1. Pipeline!StartPool <=> PP!StartPool
  BY DEF Pipeline!StartPool, PP!StartPool
<1>2. Pipeline!Flush <=> PP!Flush
  BY DEF Pipeline!Flush, PP!Flush
<1>3. Pipeline!Crash <=> PP!Crash
  BY DEF Pipeline!Crash, PP!Crash, Pipeline!Absent, PP!Absent,
         Pipeline!Column, PP!Column, Pipeline!Nil, PP!Nil
<1>4. \A s \in Submissions, l \in Languages : Pipeline!Insert(s, l) <=> PP!Insert(s, l)
  BY DEF Pipeline!Insert, PP!Insert, Pipeline!ValidRequest, PP!ValidRequest,
         Pipeline!Processing, PP!Processing, Pipeline!Column, PP!Column,
         Pipeline!Nil, PP!Nil
<1>5. \A s \in Submissions : Pipeline!Handle(s) <=> PP!Handle(s)
  <2>1. \A s \in Submissions : Pipeline!Enqueue(s) <=> PP!Enqueue(s)
    BY SameCardinality
       DEF Pipeline!Enqueue, PP!Enqueue, Pipeline!Entries, PP!Entries
  <2>2. \A s \in Submissions : Pipeline!Respond(s) <=> PP!Respond(s)
    BY DEF Pipeline!Respond, PP!Respond
  <2>. QED
    BY <2>1, <2>2 DEF Pipeline!Handle, PP!Handle
<1>. QED
  BY <1>1, <1>2, <1>3, <1>4, <1>5

LEMMA SameInit == Pipeline!Init => PP!Init
BY DEF Pipeline!Init, PP!Init, Pipeline!NoGroup, PP!NoGroup,
       Pipeline!Absent, PP!Absent, Pipeline!Column, PP!Column,
       Pipeline!Nil, PP!Nil

LEMMA SameControl ==
  ASSUME NEW w \in Workers
  PROVE  /\ \A k : Pipeline!GoTo(w, k) <=> PP!GoTo(w, k)
         /\ \A v : Pipeline!Conclude(w, v) <=> PP!Conclude(w, v)
         /\ Pipeline!Finish(w) <=> PP!Finish(w)
         /\ \A m : Pipeline!Failure(m) = PP!Failure(m)
BY DEF Pipeline!GoTo, PP!GoTo, Pipeline!Conclude, PP!Conclude,
       Pipeline!Finish, PP!Finish, Pipeline!Absent, PP!Absent,
       Pipeline!Failure, PP!Failure,
       Pipeline!Column, PP!Column, Pipeline!Nil, PP!Nil

LEMMA SameProcess ==
  ASSUME NEW w \in Workers
  PROVE  /\ Pipeline!Read(w) <=> PP!Read(w)
         /\ Pipeline!LoseRead(w) <=> PP!LoseRead(w)
         /\ Pipeline!Ack(w) <=> PP!Ack(w)
         /\ Pipeline!GetSubmission(w) <=> PP!GetSubmission(w)
         /\ Pipeline!GetTestCases(w) <=> PP!GetTestCases(w)
         /\ Pipeline!GetSystemCode(w) <=> PP!GetSystemCode(w)
         /\ Pipeline!GetLanguageImports(w) <=> PP!GetLanguageImports(w)
         /\ Pipeline!UpdateSubmissionStatus(w) <=> PP!UpdateSubmissionStatus(w)
<1> USE SameControl
        DEF Pipeline!handlerVars, PP!handlerVars, Pipeline!workerVars,
            PP!workerVars, Pipeline!queueVars, PP!queueVars,
            Pipeline!NoGroup, PP!NoGroup, Pipeline!Deliverable, PP!Deliverable,
            Pipeline!Fetch, PP!Fetch
<1>1. Pipeline!Read(w) <=> PP!Read(w)
  BY DEF Pipeline!Read, PP!Read
<1>2. Pipeline!LoseRead(w) <=> PP!LoseRead(w)
  BY DEF Pipeline!LoseRead, PP!LoseRead
<1>3. Pipeline!Ack(w) <=> PP!Ack(w)
  BY DEF Pipeline!Ack, PP!Ack
<1>4. Pipeline!GetSubmission(w) <=> PP!GetSubmission(w)
  BY DEF Pipeline!GetSubmission, PP!GetSubmission,
         Pipeline!SupportedLanguages, PP!SupportedLanguages
<1>5. Pipeline!GetTestCases(w) <=> PP!GetTestCases(w)
  BY DEF Pipeline!GetTestCases, PP!GetTestCases
<1>6. Pipeline!GetSystemCode(w) <=> PP!GetSystemCode(w)
  BY DEF Pipeline!GetSystemCode, PP!GetSystemCode
<1>7. Pipeline!GetLanguageImports(w) <=> PP!GetLanguageImports(w)
  BY DEF Pipeline!GetLanguageImports, PP!GetLanguageImports
<1>8. Pipeline!UpdateSubmissionStatus(w) <=> PP!UpdateSubmissionStatus(w)
  BY DEF Pipeline!UpdateSubmissionStatus, PP!UpdateSubmissionStatus
<1>. QED
  BY <1>1, <1>2, <1>3, <1>4, <1>5, <1>6, <1>7, <1>8

LEMMA SameNext == [PP!Next]_(PP!vars) => [Pipeline!Next]_(Pipeline!vars)
<1>1. ASSUME NEW w \in Workers PROVE PP!Execute(w) => Pipeline!Execute(w)
  BY SameControl, SameVerdicts
     DEF PP!Execute, Pipeline!Execute, Pipeline!handlerVars, PP!handlerVars,
         Pipeline!queueVars, PP!queueVars,
         Pipeline!CompiledLanguages, PP!CompiledLanguages
<1>2. ASSUME NEW w \in Workers PROVE PP!ProcessJob(w) => Pipeline!ProcessJob(w)
  BY <1>1, SameProcess DEF PP!ProcessJob, Pipeline!ProcessJob
<1>3. PP!Next => Pipeline!Next
  BY <1>2, SameServer, SameProcess DEF PP!Next, Pipeline!Next
<1>4. PP!vars = Pipeline!vars /\ (UNCHANGED PP!vars => UNCHANGED Pipeline!vars)
  BY DEF PP!vars, Pipeline!vars
<1>. QED
  BY <1>3, <1>4

\* What JudgePipelineProofs assumes of its constants.
LEMMA PipelineAssumptions ==
  /\ PipelineFaults \subseteq PP!FaultKinds
  /\ Languages \subseteq Int
  /\ "xaddRetry" \in PipelineFaults => "twice" \in Faults
  /\ "twice" \in Faults => "xaddRetry" \in PipelineFaults
  /\ MaxRetries \in Nat
  /\ PP!Retries = Retries
BY FaultsAssumption, ServerFaultsAssumption, ServiceLanguagesAssumption,
   MaxRetriesAssumption
   DEF PipelineFaults, PP!FaultKinds, PP!Retries, Retries
-----------------------------------------------------------------------------
(* The joint invariant: a call of Execute is for the entry its worker holds,   *)
(* and every call made has used up an entry of its own.                        *)

Link ==
  \A w \in Workers :
    /\ pc[w] # "idle" =>
         /\ at[w] = IF pc[w] = "hung" THEN "hung" ELSE "execute"
         /\ task[w] = stream[job[w]]
    /\ at[w] = "hung" => pc[w] = "hung"

\* The worker holds an entry that it has not called Execute for.
Before(w) ==
  \/ at[w] \in {"ack", "load", "testCases", "systemCode", "imports"}
  \/ at[w] = "execute" /\ pc[w] = "idle"

\* Nobody will call Execute for this entry any more.
Spent(i) ==
  /\ lastDelivered >= 0 => i <= lastDelivered
  /\ \A w \in Workers : Before(w) => job[w] # i

SpentEntries(s) == {i \in PP!Entries(s) : Spent(i)}

CallsSpent ==
  \A s \in Submissions : calls[s] <= Cardinality(SpentEntries(s))

\* Only what is written in a supported language gets as far as Execute.
Judging == {"testCases", "systemCode", "imports", "execute", "hung"}

Supported ==
  \A w \in Workers : at[w] \in Judging =>
    language[stream[job[w]]] \in DOMAIN LanguageName

\* The language the row says is the one the program is written in.
SentAs ==
  \A s \in Submissions : language[s] \in DOMAIN LanguageName =>
    program[s].language = LanguageName[language[s]]

Links == Link /\ CallsSpent /\ Supported /\ SentAs

JInv == PP!EntriesInv /\ CauseInv /\ Links

\* What is known of the entry a worker holds.
LEMMA HeldFacts ==
  ASSUME PP!EntriesInv
  PROVE  /\ Len(stream) \in Nat
         /\ lastDelivered \in Int /\ lastDelivered >= -1
         /\ lastDelivered <= Len(stream)
         /\ \A i \in 1 .. Len(stream) : stream[i] \in Submissions
         /\ \A w \in Workers : at[w] # "idle" =>
              /\ job[w] \in 1 .. Len(stream)
              /\ lastDelivered >= 0 => job[w] <= lastDelivered
              /\ stream[job[w]] \in Submissions
              /\ job[w] \in PP!Entries(stream[job[w]])
<1>1. /\ stream \in Seq(Submissions)
      /\ lastDelivered \in -1 .. Len(stream)
      /\ job \in [Workers -> 0 .. Len(stream)]
      /\ \A w \in Workers : at[w] # "idle" => job[w] # 0
  BY DEF PP!EntriesInv, PP!TypeOK, PP!NoGroup
<1>2. Len(stream) \in Nat /\ \A i \in 1 .. Len(stream) : stream[i] \in Submissions
  BY <1>1
<1>3. \A w \in Workers : at[w] # "idle" => job[w] \in 1 .. Len(stream)
  BY <1>1, <1>2
<1>4. \A w \in Workers :
        at[w] # "idle" /\ lastDelivered # -1 => job[w] <= lastDelivered
  BY DEF PP!EntriesInv, PP!HeldIsDelivered, PP!NoGroup
<1>. QED
  BY <1>1, <1>2, <1>3, <1>4 DEF PP!Entries

\* A submission has an entry for each time XADD may be sent for it, at most.
LEMMA EntriesFacts ==
  ASSUME PP!EntriesInv, NEW s \in Submissions
  PROVE  /\ Cardinality(PP!Entries(s)) \in Nat
         /\ Cardinality(PP!Entries(s)) <= Retries + 1
         /\ \A S \in SUBSET PP!Entries(s) :
              /\ IsFiniteSet(S) /\ Cardinality(S) \in Nat
              /\ Cardinality(S) <= Cardinality(PP!Entries(s))
<1>1. stream \in Seq(Submissions)
  BY DEF PP!EntriesInv, PP!TypeOK
<1>2. IsFiniteSet(PP!Entries(s)) /\ Cardinality(PP!Entries(s)) \in Nat
  BY <1>1, PipelineAssumptions, PP!EntriesFinite, SameCardinality
<1>3. Cardinality(PP!Entries(s)) <= Retries + 1
  BY PipelineAssumptions, SameCardinality DEF PP!EntriesInv, PP!FewEntries
<1>4. \A S \in SUBSET PP!Entries(s) :
        /\ IsFiniteSet(S) /\ Cardinality(S) \in Nat
        /\ Cardinality(S) <= Cardinality(PP!Entries(s))
  BY <1>2, FS_Subset, FS_CardinalityType
<1>. QED
  BY <1>2, <1>3, <1>4

\* A part of a sequence has finitely many indices.
LEMMA EntriesOf ==
  ASSUME NEW q \in Seq(Submissions), NEW s
  PROVE  IsFiniteSet({i \in 1 .. Len(q) : q[i] = s})
<1>1. IsFiniteSet(1 .. Len(q))
  BY FS_Interval
<1>. QED
  BY <1>1, FS_Subset

\* One more of them.
LEMMA OneMore ==
  ASSUME PP!EntriesInv, NEW s \in Submissions,
         NEW S \in SUBSET PP!Entries(s), NEW i \in PP!Entries(s) \ S
  PROVE  /\ Cardinality(S) \in Nat
         /\ Cardinality(S \cup {i}) = Cardinality(S) + 1
         /\ Cardinality(S) <= Retries
<1>1. IsFiniteSet(S) /\ Cardinality(S) \in Nat
  BY EntriesFacts
<1>2. Cardinality(S \cup {i}) = Cardinality(S) + 1
  BY <1>1, FS_AddElement
<1>3. Cardinality(S \cup {i}) <= Cardinality(PP!Entries(s))
  BY EntriesFacts
<1>. QED
  BY <1>1, <1>2, <1>3, EntriesFacts, RetriesType

LEMMA SpentInit == ServiceInit => JInv
<1> SUFFICES ASSUME ServiceInit PROVE JInv
  OBVIOUS
<1>1. PP!Init
  BY SameInit DEF ServiceInit
<1>2. PP!EntriesInv
  BY <1>1, PipelineAssumptions, PP!EntriesInit
<1>3. CauseInv
  BY CauseInit DEF ServiceInit
<1>4. Link /\ Supported /\ SentAs
  BY <1>1 DEF ServiceInit, Init, PP!Init, Link, Supported, Judging, SentAs,
              LanguageName
<1>5. CallsSpent
  <2> SUFFICES ASSUME NEW s \in Submissions
               PROVE  calls[s] <= Cardinality(SpentEntries(s))
    BY DEF CallsSpent
  <2>1. calls[s] = 0
    BY DEF ServiceInit, Init
  <2>2. Cardinality(SpentEntries(s)) \in Nat
    BY <1>2, EntriesFacts DEF SpentEntries
  <2>. QED
    BY <2>1, <2>2
<1>. QED
  BY <1>2, <1>3, <1>4, <1>5 DEF JInv, Links

-----------------------------------------------------------------------------
(* Every step of the service is one of the runner.                             *)

\* The guard of Call, which the pipeline does not check: the entry at hand is
\* not one that earlier calls were made for.
LEMMA CallIsMeantFor ==
  ASSUME JInv, NEW w \in Workers, CallExecute(w)
  PROVE  /\ stream[job[w]] \in Submissions
         /\ Call(w, stream[job[w]])
<1> DEFINE s == stream[job[w]]
           i == job[w]
<1>1. at[w] = "execute" /\ pc[w] = "idle" /\ Begin(w, s)
  BY DEF CallExecute, Begin
<1>2. s \in Submissions /\ i \in PP!Entries(s)
  BY <1>1, HeldFacts DEF JInv
<1>3. i \notin SpentEntries(s)
  BY <1>1 DEF Spent, SpentEntries, Before
<1>4. SpentEntries(s) \in SUBSET PP!Entries(s)
  BY DEF SpentEntries
<1> HIDE DEF s, i
<1>5. Cardinality(SpentEntries(s)) \in Nat /\ Cardinality(SpentEntries(s)) <= Retries
  BY <1>2, <1>3, <1>4, OneMore DEF JInv
<1>6. calls[s] \in Nat
  BY <1>2, RetriesType DEF JInv, CauseInv, SInv, TypeOK, Ranges
<1>7. calls[s] <= Retries
  BY <1>2, <1>5, <1>6, RetriesType DEF JInv, Links, CallsSpent
<1>. QED
  BY <1>1, <1>2, <1>7 DEF Call, s, i

LEMMA RunIsExecute ==
  ASSUME NEW w \in Workers, Run(w)
  PROVE  Proceed(w) /\ pc[w] \notin {"idle", "hung", "return"}
BY DEF Run, Proceed, MkdirAll, OpenFile, WriteFile, DockerRun, Build, Tests,
       RunTest, DockerStop, RemoveAll, RemoveDir

LEMMA RunnerStep ==
  ASSUME JInv, [ServiceNext]_serviceVars
  PROVE  [Next]_vars
<1>1. CASE Serve
  BY <1>1 DEF Serve
<1>2. ASSUME NEW w \in Workers, CallExecute(w) PROVE Next
  BY <1>2, CallIsMeantFor DEF Next
<1>3. ASSUME NEW w \in Workers, Run(w) PROVE Next
  BY <1>3, RunIsExecute DEF Next
<1>4. ASSUME NEW w \in Workers, ReturnExecute(w) PROVE Next
  BY <1>4 DEF ReturnExecute, Next
<1>5. CASE End
  BY <1>5 DEF End, Next
<1>6. CASE UNCHANGED serviceVars
  BY <1>6 DEF serviceVars
<1>. QED
  BY <1>1, <1>2, <1>3, <1>4, <1>5, <1>6 DEF ServiceNext

-----------------------------------------------------------------------------
(* Every step of the service is one of the pipeline.                           *)

\* A program that does not end is one of those that may not.
LEMMA HangIsAllowed ==
  ASSUME TypeOK, NEW w \in Workers, Run(w), pc'[w] = "hung"
  PROVE  "hang" \in Faults /\ pc[w] = "run"
<1>1. Proceed(w)
  BY RunIsExecute
<1>2. ~(MkdirAll(w) \/ OpenFile(w) \/ WriteFile(w) \/ Build(w) \/ Tests(w)
        \/ DockerStop(w) \/ RemoveAll(w) \/ RemoveDir(w))
  BY ControlFacts DEF MkdirAll, OpenFile, WriteFile, Build, Tests, DockerStop,
                      RemoveAll, RemoveDir
<1>3. ~DockerRun(w)
  <2>1. DOMAIN pc = Workers
    BY DEF TypeOK, Ranges
  <2>2. \A k \in {"build", "tests"} : pc' # [pc EXCEPT ![w] = k]
    BY <2>1
  <2>3. ~Return(w, ExecutionError, 0, "remove")
    BY ControlFacts
  <2>. QED
    BY <2>2, <2>3 DEF DockerRun
<1>4. pc[w] = "run" /\ "hang" \in Ends(w)
  BY <1>1, <1>2, <1>3, ControlFacts DEF Proceed, RunTest
<1>5. "hang" \in Endings
  <2>1. Program(w) \in Programs /\ test[w] \in DOMAIN Program(w).tests
    BY <1>4 DEF TypeOK, Ranges, InsideTests, Program
  <2>2. \A p \in Programs : \A i \in DOMAIN p.tests : p.tests[i] \in Endings
    BY DEF Programs
  <2>3. CASE Runs(w) = "source"
    BY <1>4, <2>1, <2>2, <2>3 DEF Ends
  <2>4. CASE Runs(w) = "nothing"
    BY <1>4, <2>4 DEF Ends
  <2>5. CASE Runs(w) = "part"
    BY <1>4, <2>5 DEF Ends
  <2>6. CASE Runs(w) \notin {"source", "nothing", "part"}
    BY <1>4, <2>6 DEF Ends
  <2>. QED
    BY <2>3, <2>4, <2>5, <2>6
<1>. QED
  BY <1>4, <1>5 DEF Endings

LEMMA PipelineStep ==
  ASSUME JInv, [ServiceNext]_serviceVars
  PROVE  [PP!Next]_(PP!vars)
<1>1. CASE Serve
  BY <1>1, SameServer, SameProcess DEF Serve, Insert, Process, PP!Next, PP!ProcessJob
<1>2. ASSUME NEW w \in Workers, CallExecute(w) PROVE UNCHANGED PP!vars
  BY <1>2 DEF CallExecute, pipelineVars, PP!vars
<1>3. ASSUME NEW w \in Workers, Run(w) PROVE [PP!Next]_(PP!vars)
  <2>1. CASE pc'[w] = "hung"
    <3>1. pc[w] = "run" /\ "hang" \in Faults
      BY <1>3, <2>1, HangIsAllowed DEF JInv, CauseInv, SInv
    <3>2. at[w] = "execute" /\ "hang" \in PipelineFaults
      BY <3>1 DEF JInv, Links, Link, PipelineFaults
    <3>3. PP!Execute(w)
      BY <1>3, <2>1, <3>2, SameControl
         DEF Run, PP!Execute, PP!handlerVars, PP!queueVars
    <3>. QED
      BY <3>3 DEF PP!Next, PP!ProcessJob
  <2>2. CASE pc'[w] # "hung"
    BY <1>3, <2>2 DEF Run, PP!vars
  <2>. QED
    BY <2>1, <2>2
<1>4. ASSUME NEW w \in Workers, ReturnExecute(w) PROVE PP!Next
  <2>1. pc[w] = "return"
    BY <1>4 DEF ReturnExecute, Report
  <2>2. at[w] = "execute"
    BY <2>1 DEF JInv, Links, Link
  <2>3. outcome[w].verdict \in {ExecutionError} \cup ExecutionResults
    <3>1. outcome[w].verdict \in Results
      BY DEF JInv, CauseInv, SInv, TypeOK, Ranges, Outcomes
    <3>2. outcome[w].verdict # Absent
      BY <2>1 DEF JInv, CauseInv, Returned, Deferred
    <3>. QED
      BY <3>1, <3>2 DEF Results
  <2>4. outcome[w].verdict = ExecutionError => "execute" \in PipelineFaults
    BY DEF JInv, CauseInv, ErrorHasCause, PipelineFaults
  <2>5. outcome[w].verdict = BuildFailure =>
          language[stream[job[w]]] \in PP!CompiledLanguages
    <3> SUFFICES ASSUME outcome[w].verdict = BuildFailure
                 PROVE  language[stream[job[w]]] = 2
      BY DEF PP!CompiledLanguages
    <3>1. program[stream[job[w]]].language = "go"
      BY <2>1 DEF JInv, Links, Link, CauseInv, BuildFails, NeedsCompilation, Program
    <3>2. stream[job[w]] \in Submissions
      BY <2>2, HeldFacts DEF JInv
    <3>3. language[stream[job[w]]] \in {1, 2}
      BY <2>2 DEF JInv, Links, Supported, Judging, LanguageName
    <3>. QED
      BY <3>1, <3>2, <3>3 DEF JInv, Links, SentAs, LanguageName
  <2>6. PP!Conclude(w, outcome[w].verdict)
    BY <1>4, SameControl DEF ReturnExecute
  <2>7. PP!Execute(w)
    BY <1>4, <2>2, <2>3, <2>4, <2>5, <2>6, SameVerdicts
       DEF ReturnExecute, PP!Execute, PP!handlerVars, PP!queueVars
  <2>. QED
    BY <2>7 DEF PP!Next, PP!ProcessJob
<1>5. CASE End
  BY <1>5, SameServer DEF End, PP!Next
<1>6. CASE UNCHANGED serviceVars
  BY <1>6 DEF serviceVars, pipelineVars, PP!vars
<1>. QED
  BY <1>1, <1>2, <1>3, <1>4, <1>5, <1>6 DEF ServiceNext
-----------------------------------------------------------------------------
(* The joint invariant is inductive.                                           *)

\* What the steps outside Execute leave alone, and where they lead.
ServeMoves ==
  /\ \A w \in Workers :
       /\ at[w] \in {"execute", "hung"} => at'[w] = at[w]
       /\ at'[w] = "hung" => at[w] = "hung"
       /\ at[w] # "idle" /\ at'[w] # "idle" => job'[w] = job[w]
       /\ at[w] = "update" => at'[w] \in {"update", "idle"}
       /\ at[w] = "idle" /\ at'[w] # "idle" =>
            lastDelivered >= 0 /\ job'[w] = lastDelivered + 1 /\ at'[w] = "ack"
       /\ at'[w] \in Judging =>
            \/ at[w] \in Judging
            \/ at[w] = "load" /\ language[stream[job[w]]] \in DOMAIN LanguageName
       /\ at'[w] = "update" =>
            \/ at[w] = "update" /\ result'[w] = result[w]
            \/ /\ at[w] \in {"load", "testCases", "systemCode", "imports"}
               /\ \E m \in WorkerMessages : result'[w] = PP!Failure(m)
  /\ Len(stream') \in Nat /\ Len(stream) <= Len(stream')
  /\ \A i \in 1 .. Len(stream) :
       stream'[i] = stream[i] /\ language'[stream[i]] = language[stream[i]]
  /\ \A i \in 1 .. Len(stream) :
       (lastDelivered >= 0 => i <= lastDelivered) =>
         (lastDelivered' >= 0 => i <= lastDelivered')
  /\ \A s \in Submissions :
       \/ verdict'[s] = verdict[s]
       \/ verdict'[s] = PP!Processing
       \/ \E w \in Workers :
            /\ at[w] = "update" /\ stream[job[w]] = s
            /\ verdict'[s] = result[w]

LEMMA ServerServes ==
  ASSUME PP!EntriesInv,
         \/ PP!StartPool
         \/ PP!Flush
         \/ \E s \in Submissions, l \in Languages : PP!Insert(s, l)
         \/ \E s \in Submissions : PP!Handle(s)
  PROVE  ServeMoves
<1> USE HeldFacts DEF PP!NoGroup, PP!workerVars, PP!queueVars, PP!handlerVars
<1>1. CASE PP!StartPool
  BY <1>1 DEF PP!StartPool, ServeMoves
<1>2. CASE PP!Flush
  BY <1>2 DEF PP!Flush, ServeMoves
<1>3. ASSUME NEW s \in Submissions, NEW l \in Languages, PP!Insert(s, l)
      PROVE  ServeMoves
  <2>1. \A i \in 1 .. Len(stream) : language'[stream[i]] = language[stream[i]]
    <3>1. language \in [Submissions -> Languages \cup {0}]
      BY DEF PP!EntriesInv, PP!TypeOK
    <3>2. \A i \in 1 .. Len(stream) : stream[i] # s
      BY <1>3 DEF PP!Insert, PP!EntriesInv, PP!NewIsUnpublished
    <3>. QED
      BY <1>3, <3>1, <3>2 DEF PP!Insert
  <2>. QED
    BY <1>3, <2>1 DEF PP!Insert, ServeMoves, PP!EntriesInv, PP!TypeOK
<1>4. ASSUME NEW s \in Submissions, PP!Enqueue(s)
      PROVE  ServeMoves
  <2>1. stream \in Seq(Submissions)
    BY DEF PP!EntriesInv, PP!TypeOK
  <2>2. /\ Len(stream') \in Nat /\ Len(stream) <= Len(stream')
        /\ \A i \in 1 .. Len(stream) : stream'[i] = stream[i]
    <3>1. stream' = stream \/ stream' = Append(stream, s)
      BY <1>4 DEF PP!Enqueue
    <3>. QED
      BY <2>1, <3>1
  <2>3. UNCHANGED <<at, job, result, lastDelivered, verdict, language>>
    BY <1>4 DEF PP!Enqueue
  <2>. QED
    BY <2>2, <2>3 DEF ServeMoves
<1>5. ASSUME NEW s \in Submissions, PP!Respond(s)
      PROVE  ServeMoves
  BY <1>5 DEF PP!Respond, ServeMoves
<1>. QED
  BY <1>1, <1>2, <1>3, <1>4, <1>5 DEF PP!Handle

LEMMA WorkerServes ==
  ASSUME PP!EntriesInv, NEW w \in Workers,
         \/ PP!Read(w)
         \/ PP!LoseRead(w)
         \/ PP!Ack(w)
         \/ PP!GetSubmission(w)
         \/ PP!GetTestCases(w)
         \/ PP!GetSystemCode(w)
         \/ PP!GetLanguageImports(w)
         \/ PP!UpdateSubmissionStatus(w)
  PROVE  ServeMoves
<1>1. /\ at \in [Workers -> PP!PCs]
      /\ job \in [Workers -> 0 .. Len(stream)]
      /\ DOMAIN result = Workers
      /\ DOMAIN verdict = Submissions
  BY DEF PP!EntriesInv, PP!TypeOK
<1> USE HeldFacts DEF PP!NoGroup, PP!workerVars, PP!queueVars, PP!handlerVars
<1>2. CASE PP!Read(w)
  BY <1>1, <1>2 DEF PP!Read, PP!Deliverable, ServeMoves, Judging
<1>3. CASE PP!LoseRead(w)
  BY <1>1, <1>3 DEF PP!LoseRead, PP!Deliverable, ServeMoves
<1>4. ASSUME NEW k, PP!GoTo(w, k), k \notin {"idle", "hung", "update"},
             at[w] \notin {"idle", "execute", "hung", "update"},
             k \in Judging =>
               \/ at[w] \in Judging
               \/ at[w] = "load" /\ language[stream[job[w]]] \in DOMAIN LanguageName,
             UNCHANGED <<verdict, language, stream, lastDelivered>>
      PROVE  ServeMoves
  BY <1>1, <1>4 DEF PP!GoTo, ServeMoves
<1>5. ASSUME NEW m \in WorkerMessages, PP!Conclude(w, PP!Failure(m)),
             at[w] \in {"load", "testCases", "systemCode", "imports"},
             UNCHANGED <<verdict, language, stream, lastDelivered>>
      PROVE  ServeMoves
  BY <1>1, <1>5 DEF PP!Conclude, ServeMoves, Judging
<1>6. ASSUME PP!Finish(w), at[w] \notin {"idle", "execute", "hung"},
             \/ UNCHANGED verdict
             \/ /\ at[w] = "update"
                /\ verdict' = [verdict EXCEPT ![stream[job[w]]] = result[w]],
             UNCHANGED <<language, stream, lastDelivered>>
      PROVE  ServeMoves
  BY <1>1, <1>6 DEF PP!Finish, ServeMoves, Judging
<1>7. CASE PP!Ack(w)
  BY <1>4, <1>7 DEF PP!Ack, Judging
<1>8. CASE PP!GetSubmission(w)
  BY <1>4, <1>5, <1>6, <1>8
     DEF PP!GetSubmission, PP!SupportedLanguages, LanguageName, WorkerMessages
<1>9. CASE PP!GetTestCases(w) \/ PP!GetSystemCode(w) \/ PP!GetLanguageImports(w)
  BY <1>4, <1>5, <1>9
     DEF PP!GetTestCases, PP!GetSystemCode, PP!GetLanguageImports, PP!Fetch,
         Judging, WorkerMessages
<1>10. CASE PP!UpdateSubmissionStatus(w)
  BY <1>6, <1>10 DEF PP!UpdateSubmissionStatus
<1>. QED
  BY <1>2, <1>3, <1>7, <1>8, <1>9, <1>10

LEMMA ServeServes ==
  ASSUME PP!EntriesInv, Serve
  PROVE  ServeMoves /\ UNCHANGED vars
BY ServerServes, WorkerServes, SameServer, SameProcess DEF Serve, Insert, Process

\* An entry stays spent as long as nobody comes to hold it anew.
LEMMA SpentStays ==
  ASSUME PP!EntriesInv,
         Len(stream') \in Nat, Len(stream) <= Len(stream'),
         \A i \in 1 .. Len(stream) : stream'[i] = stream[i],
         \A i \in 1 .. Len(stream) :
           (lastDelivered >= 0 => i <= lastDelivered) =>
             (lastDelivered' >= 0 => i <= lastDelivered'),
         \A w \in Workers : Before(w)' =>
           \/ Before(w) /\ job'[w] = job[w]
           \/ lastDelivered >= 0 /\ job'[w] = lastDelivered + 1
  PROVE  \A s \in Submissions : SpentEntries(s) \subseteq SpentEntries(s)'
<1> SUFFICES ASSUME NEW s \in Submissions, NEW i \in PP!Entries(s), Spent(i)
             PROVE  i \in PP!Entries(s)' /\ Spent(i)'
  BY DEF SpentEntries
<1>1. i \in 1 .. Len(stream) /\ stream[i] = s
  BY DEF PP!Entries
<1>2. i \in PP!Entries(s)'
  BY <1>1, HeldFacts DEF PP!Entries
<1>3. lastDelivered' >= 0 => i <= lastDelivered'
  BY <1>1 DEF Spent
<1>4. ASSUME NEW w \in Workers, Before(w)' PROVE job'[w] # i
  <2>1. CASE Before(w) /\ job'[w] = job[w]
    BY <2>1 DEF Spent
  <2>2. CASE lastDelivered >= 0 /\ job'[w] = lastDelivered + 1
    BY <1>1, <2>2, HeldFacts DEF Spent
  <2>. QED
    BY <1>4, <2>1, <2>2
<1>. QED
  BY <1>2, <1>3, <1>4 DEF Spent

LEMMA CallsSpentStays ==
  ASSUME TypeOK, PP!EntriesInv, PP!EntriesInv', CallsSpent, UNCHANGED calls,
         \A s \in Submissions : SpentEntries(s) \subseteq SpentEntries(s)'
  PROVE  CallsSpent'
<1> SUFFICES ASSUME NEW s \in Submissions
             PROVE  calls[s] <= Cardinality(SpentEntries(s)')
  BY DEF CallsSpent
<1>1. SpentEntries(s)' \in SUBSET PP!Entries(s)'
  BY DEF SpentEntries
<1>2. IsFiniteSet(SpentEntries(s)') /\ Cardinality(SpentEntries(s)') \in Nat
  <2>1. stream' \in Seq(Submissions)
    BY DEF PP!EntriesInv, PP!TypeOK
  <2>2. IsFiniteSet(PP!Entries(s)')
    BY <2>1, EntriesOf DEF PP!Entries
  <2>. QED
    BY <1>1, <2>2, FS_Subset, FS_CardinalityType
<1>3. Cardinality(SpentEntries(s)) \in Nat
  BY EntriesFacts DEF SpentEntries
<1>4. Cardinality(SpentEntries(s)) <= Cardinality(SpentEntries(s)')
  BY <1>2, FS_Subset
<1>5. calls[s] \in Nat /\ calls[s] <= Cardinality(SpentEntries(s))
  BY RetriesType DEF CallsSpent, TypeOK, Ranges
<1>. QED
  BY <1>2, <1>3, <1>4, <1>5

\* Execute is called for an entry, which is spent from then on.
LEMMA CallLinks ==
  ASSUME JInv, NEW w \in Workers, CallExecute(w)
  PROVE  Links'
<1>1. at[w] = "execute" /\ Begin(w, stream[job[w]])
  BY DEF CallExecute
<1>2. PICK s \in Submissions : s = stream[job[w]]
  BY <1>1, HeldFacts DEF JInv
<1>3. PICK k \in PP!Entries(s) : k = job[w] /\ (lastDelivered >= 0 => k <= lastDelivered)
  BY <1>1, <1>2, HeldFacts DEF JInv
<1>4. /\ pc[w] = "idle" /\ pc'[w] = "mkdir" /\ task'[w] = s
      /\ \A v \in Workers \ {w} : pc'[v] = pc[v] /\ task'[v] = task[v]
      /\ calls[s] \in Nat /\ calls'[s] = calls[s] + 1
      /\ \A r \in Submissions \ {s} : calls'[r] = calls[r]
      /\ UNCHANGED <<at, job, stream, lastDelivered, language, program>>
  BY <1>1, <1>2, BeginFacts DEF CallExecute, pipelineVars, JInv, CauseInv, SInv
<1>5. Link'
  BY <1>1, <1>2, <1>4 DEF JInv, Links, Link
<1>6. Supported' /\ SentAs'
  BY <1>4 DEF JInv, Links, Supported, SentAs
<1>7. k \notin SpentEntries(s)
  BY <1>1, <1>3, <1>4 DEF SpentEntries, Spent, Before
<1>8. \A v \in Workers : Before(v)' => Before(v) /\ v # w
  BY <1>1, <1>4 DEF Before
<1>9. /\ \A r : PP!Entries(r)' = PP!Entries(r)
      /\ \A i : Spent(i) => Spent(i)'
  BY <1>4, <1>8 DEF Spent, PP!Entries
<1>10. Spent(k)'
  <2>1. \A v \in Workers \ {w} : Before(v) => job[v] # k
    BY <1>1, <1>3 DEF Before, JInv, PP!EntriesInv, PP!OneWorkerPerEntry
  <2>. QED
    BY <1>3, <1>4, <1>8, <2>1 DEF Spent
<1>11. CallsSpent'
  <2> SUFFICES ASSUME NEW r \in Submissions
               PROVE  calls'[r] <= Cardinality(SpentEntries(r)')
    BY DEF CallsSpent
  <2>1. /\ SpentEntries(r) \in SUBSET PP!Entries(r)
        /\ SpentEntries(r)' \in SUBSET PP!Entries(r)
        /\ SpentEntries(r) \subseteq SpentEntries(r)'
        /\ r = s => SpentEntries(r) \cup {k} \subseteq SpentEntries(r)'
    BY <1>9, <1>10 DEF SpentEntries
  <2>2. /\ IsFiniteSet(SpentEntries(r)')
        /\ Cardinality(SpentEntries(r)') \in Nat
        /\ Cardinality(SpentEntries(r)) \in Nat
    BY <2>1, EntriesFacts DEF JInv
  <2>3. calls[r] <= Cardinality(SpentEntries(r)) /\ calls[r] \in Nat
    BY RetriesType DEF JInv, Links, CallsSpent, CauseInv, SInv, TypeOK, Ranges
  <2>4. CASE r = s
    <3>1. Cardinality(SpentEntries(r) \cup {k}) = Cardinality(SpentEntries(r)) + 1
      BY <1>7, <2>1, <2>4, OneMore DEF JInv
    <3>2. Cardinality(SpentEntries(r) \cup {k}) <= Cardinality(SpentEntries(r)')
      BY <2>1, <2>2, <2>4, FS_Subset
    <3>. QED
      BY <1>4, <2>2, <2>3, <2>4, <3>1, <3>2
  <2>5. CASE r # s
    <3>1. Cardinality(SpentEntries(r)) <= Cardinality(SpentEntries(r)')
      BY <2>1, <2>2, FS_Subset
    <3>. QED
      BY <1>4, <2>2, <2>3, <2>5, <3>1
  <2>. QED
    BY <2>4, <2>5
<1>. QED
  BY <1>5, <1>6, <1>11 DEF Links

\* The handlers store the language they are sent.
LEMMA LanguageStored ==
  ASSUME Serve
  PROVE  \/ UNCHANGED language
         \/ \E s \in Submissions, l \in Languages :
              /\ language' = [language EXCEPT ![s] = l]
              /\ l \in DOMAIN LanguageName => program[s].language = LanguageName[l]
<1> USE DEF Pipeline!handlerVars
<1>1. CASE Pipeline!StartPool \/ Pipeline!Flush
  BY <1>1 DEF Pipeline!StartPool, Pipeline!Flush
<1>2. ASSUME NEW s \in Submissions, NEW l \in Languages, Insert(s, l)
      PROVE  \E r \in Submissions, k \in Languages :
               /\ language' = [language EXCEPT ![r] = k]
               /\ k \in DOMAIN LanguageName => program[r].language = LanguageName[k]
  BY <1>2 DEF Insert, Pipeline!Insert
<1>3. ASSUME NEW s \in Submissions, Pipeline!Handle(s) PROVE UNCHANGED language
  BY <1>3 DEF Pipeline!Handle, Pipeline!Enqueue, Pipeline!Respond
<1>4. ASSUME NEW w \in Workers, Process(w) PROVE UNCHANGED language
  BY <1>4 DEF Process, Pipeline!Read, Pipeline!LoseRead, Pipeline!Ack,
              Pipeline!GetSubmission, Pipeline!GetTestCases,
              Pipeline!GetSystemCode, Pipeline!GetLanguageImports,
              Pipeline!Fetch, Pipeline!UpdateSubmissionStatus
<1>. QED
  BY <1>1, <1>2, <1>3, <1>4 DEF Serve

LEMMA ServeLinks ==
  ASSUME JInv, PP!EntriesInv', Serve
  PROVE  Links'
<1>1. ServeMoves /\ UNCHANGED <<pc, task, calls, program>>
  BY ServeServes DEF JInv, vars
<1>2. \A w \in Workers : at[w] \in PP!PCs
  BY DEF JInv, PP!EntriesInv, PP!TypeOK
<1>3. Link'
  <2> SUFFICES ASSUME NEW w \in Workers
               PROVE  /\ pc'[w] # "idle" =>
                           /\ at'[w] = IF pc'[w] = "hung" THEN "hung" ELSE "execute"
                           /\ task'[w] = stream'[job'[w]]
                      /\ at'[w] = "hung" => pc'[w] = "hung"
    BY DEF Link
  <2>1. ASSUME pc[w] # "idle"
        PROVE  /\ at'[w] = IF pc'[w] = "hung" THEN "hung" ELSE "execute"
               /\ task'[w] = stream'[job'[w]]
    <3>1. at[w] \in {"execute", "hung"} /\ at'[w] = at[w] /\ job'[w] = job[w]
      BY <1>1, <2>1 DEF JInv, Links, Link, ServeMoves
    <3>2. job[w] \in 1 .. Len(stream)
      BY <3>1, HeldFacts DEF JInv
    <3>3. stream'[job[w]] = stream[job[w]]
      BY <1>1, <3>2 DEF ServeMoves
    <3>. QED
      BY <1>1, <2>1, <3>1, <3>3 DEF JInv, Links, Link
  <2>2. at'[w] = "hung" => pc'[w] = "hung"
    BY <1>1 DEF JInv, Links, Link, ServeMoves
  <2>. QED
    BY <1>1, <2>1, <2>2
<1>4. ASSUME NEW w \in Workers, Before(w)'
      PROVE  \/ Before(w) /\ job'[w] = job[w]
             \/ lastDelivered >= 0 /\ job'[w] = lastDelivered + 1
  <2>1. at'[w] \notin {"idle", "update", "hung"}
    BY <1>4 DEF Before
  <2>2. at[w] \notin {"update", "hung"}
    BY <1>1, <2>1 DEF ServeMoves
  <2>3. CASE at[w] = "idle"
    BY <1>1, <2>1, <2>3 DEF ServeMoves
  <2>4. CASE at[w] # "idle"
    <3>1. job'[w] = job[w]
      BY <1>1, <2>1, <2>4 DEF ServeMoves
    <3>2. at[w] = "execute" => at'[w] = "execute"
      BY <1>1 DEF ServeMoves
    <3>3. Before(w)
      BY <1>1, <1>2, <1>4, <2>2, <2>4, <3>2 DEF Before, PP!PCs
    <3>. QED
      BY <3>1, <3>3
  <2>. QED
    BY <2>3, <2>4
<1>5. CallsSpent'
  <2>1. \A s \in Submissions : SpentEntries(s) \subseteq SpentEntries(s)'
    BY <1>1, <1>4, SpentStays DEF JInv, ServeMoves
  <2>. QED
    BY <1>1, <2>1, CallsSpentStays DEF JInv, Links, CauseInv, SInv
<1>6. Supported'
  <2> SUFFICES ASSUME NEW w \in Workers, at'[w] \in Judging
               PROVE  language'[stream'[job'[w]]] \in DOMAIN LanguageName
    BY DEF Supported
  <2>1. /\ at[w] # "idle" /\ at'[w] # "idle"
        /\ language[stream[job[w]]] \in DOMAIN LanguageName
    BY <1>1 DEF ServeMoves, JInv, Links, Supported, Judging
  <2>2. job'[w] = job[w] /\ job[w] \in 1 .. Len(stream)
    BY <1>1, <2>1, HeldFacts DEF ServeMoves, JInv
  <2>. QED
    BY <1>1, <2>1, <2>2 DEF ServeMoves
<1>7. SentAs'
  <2>1. DOMAIN language = Submissions
    BY DEF JInv, PP!EntriesInv, PP!TypeOK
  <2>. QED
    BY <1>1, <2>1, LanguageStored DEF JInv, Links, SentAs
<1>. QED
  BY <1>3, <1>5, <1>6, <1>7 DEF Links

\* A step of a worker that calls nothing and takes nothing from the queue.
LEMMA WorkerLinks ==
  ASSUME JInv, PP!EntriesInv',
         UNCHANGED <<calls, program, language, stream, lastDelivered, job>>,
         NEW w \in Workers,
         \A v \in Workers \ {w} :
           pc'[v] = pc[v] /\ task'[v] = task[v] /\ at'[v] = at[v],
         \/ /\ pc'[w] # "idle" /\ pc[w] # "idle" /\ task'[w] = task[w]
            /\ at'[w] = IF pc'[w] = "hung" THEN "hung" ELSE "execute"
         \/ pc'[w] = "idle" /\ at'[w] = "update"
  PROVE  Links'
<1>1. Link'
  BY DEF JInv, Links, Link
<1>2. \A v \in Workers : Before(v)' => Before(v)
  BY DEF Before
<1>3. CallsSpent'
  <2>1. \A s \in Submissions : SpentEntries(s) \subseteq SpentEntries(s)'
    BY <1>2, SpentStays, HeldFacts DEF JInv
  <2>. QED
    BY <2>1, CallsSpentStays DEF JInv, Links, CauseInv, SInv
<1>4. \A v \in Workers : at'[v] \in Judging => at[v] \in Judging
  BY DEF JInv, Links, Link, Judging
<1>5. Supported' /\ SentAs'
  BY <1>4 DEF JInv, Links, Supported, SentAs
<1>. QED
  BY <1>1, <1>3, <1>5 DEF Links

LEMMA JInvStep == JInv /\ [ServiceNext]_serviceVars => JInv'
<1> SUFFICES ASSUME JInv, [ServiceNext]_serviceVars
             PROVE  JInv'
  OBVIOUS
<1>0. PP!EntriesInv' /\ CauseInv'
  <2>1. PP!EntriesInv'
    BY PipelineStep, PipelineAssumptions, PP!EntriesStep DEF JInv
  <2>2. CauseInv'
    BY RunnerStep, CauseStep DEF JInv
  <2>. QED
    BY <2>1, <2>2
<1>1. TypeOK /\ at \in [Workers -> PP!PCs]
  BY DEF JInv, CauseInv, SInv, PP!EntriesInv, PP!TypeOK
<1>2. CASE Serve
  BY <1>0, <1>2, ServeLinks DEF JInv
<1>3. ASSUME NEW w \in Workers, CallExecute(w) PROVE JInv'
  BY <1>0, <1>3, CallLinks DEF JInv
<1>4. ASSUME NEW w \in Workers, Run(w) PROVE JInv'
  <2>1. PICK label : Moves(w, label)
    BY <1>1, <1>4, RunIsExecute, Shape
  <2>2. /\ pc[w] # "idle" /\ pc'[w] # "idle"
        /\ \A v \in Workers \ {w} : pc'[v] = pc[v]
        /\ UNCHANGED <<task, calls, program>>
    BY <1>1, <2>1 DEF Moves, callerVars, TypeOK, Ranges
  <2>3. pc[w] # "hung"
    BY <1>4, RunIsExecute
  <2>4. at[w] = "execute"
    BY <2>2, <2>3 DEF JInv, Links, Link
  <2>5. /\ at'[w] = IF pc'[w] = "hung" THEN "hung" ELSE "execute"
        /\ \A v \in Workers \ {w} : at'[v] = at[v]
        /\ UNCHANGED <<job, stream, lastDelivered, language>>
    BY <1>1, <1>4, <2>4, SameControl DEF Run, PP!GoTo
  <2>. QED
    BY <1>0, <2>2, <2>5, WorkerLinks DEF JInv
<1>5. ASSUME NEW w \in Workers, ReturnExecute(w) PROVE JInv'
  <2>1. /\ pc'[w] = "idle"
        /\ \A v \in Workers \ {w} : pc'[v] = pc[v] /\ task'[v] = task[v]
        /\ UNCHANGED <<calls, program>>
    BY <1>1, <1>5, ReportFacts DEF ReturnExecute
  <2>2. /\ at'[w] = "update"
        /\ \A v \in Workers \ {w} : at'[v] = at[v]
        /\ UNCHANGED <<job, stream, lastDelivered, language>>
    BY <1>1, <1>5, SameControl DEF ReturnExecute, PP!Conclude
  <2>. QED
    BY <1>0, <2>1, <2>2, WorkerLinks DEF JInv
<1>6. CASE End
  <2>1. /\ \A w \in Workers : pc'[w] = "idle" /\ at'[w] = "idle"
        /\ UNCHANGED <<calls, program, stream, lastDelivered, language>>
    BY <1>6 DEF End, Crash, callerVars, Pipeline!Crash, Pipeline!queueVars
  <2>2. Link'
    BY <2>1 DEF Link
  <2>3. CallsSpent'
    <3>1. \A w \in Workers : ~Before(w)'
      BY <2>1 DEF Before
    <3>2. \A s \in Submissions : SpentEntries(s) \subseteq SpentEntries(s)'
      BY <2>1, <3>1, SpentStays, HeldFacts DEF JInv
    <3>. QED
      BY <1>0, <1>1, <2>1, <3>2, CallsSpentStays DEF JInv, Links
  <2>4. Supported' /\ SentAs'
    BY <2>1 DEF JInv, Links, Supported, Judging, SentAs
  <2>. QED
    BY <1>0, <2>2, <2>3, <2>4 DEF JInv, Links
<1>7. CASE UNCHANGED serviceVars
  <2>1. UNCHANGED <<pc, task, calls, program, at, job, stream, lastDelivered,
                    language>>
    BY <1>7 DEF serviceVars, vars, pipelineVars
  <2>2. Link'
    BY <2>1 DEF JInv, Links, Link
  <2>3. CallsSpent'
    BY <2>1 DEF JInv, Links, CallsSpent, SpentEntries, Spent, Before, PP!Entries
  <2>4. Supported' /\ SentAs'
    BY <2>1 DEF JInv, Links, Supported, SentAs
  <2>. QED
    BY <1>0, <2>2, <2>3, <2>4 DEF JInv, Links
<1>. QED
  BY <1>2, <1>3, <1>4, <1>5, <1>6, <1>7 DEF ServiceNext

\* The pipeline calls Execute no more often than the runner is made for: once
\* for each time XADD is sent for a submission, for any number of retries of the
\* Redis client, whatever fails, wherever the process ends and whenever the
\* consumer group is lost and made anew (RunnerSpec of JudgeService).  What
\* CodeRunnerProofs proves holds in the service.
THEOREM RunnerImplemented == ServiceSpec => RunnerSpec
<1>1. ServiceInit => Init
  BY DEF ServiceInit
<1>2. JInv /\ [ServiceNext]_serviceVars => [Next]_vars
  BY RunnerStep
<1>. QED
  BY <1>1, <1>2, SpentInit, JInvStep, PTL DEF ServiceSpec, RunnerSpec, Spec

\* Execute returns, or fails, or does not return, as the pipeline allows for
\* (PipelineSpec of JudgeService).  What JudgePipelineProofs proves holds in
\* the service.
THEOREM PipelineImplemented == ServiceSpec => PipelineSpec
<1>1. ServiceInit => Pipeline!Init
  BY DEF ServiceInit
<1>2. JInv /\ [ServiceNext]_serviceVars => [PP!Next]_(PP!vars)
  BY PipelineStep
<1>3. [PP!Next]_(PP!vars) => [Pipeline!Next]_(Pipeline!vars)
  BY SameNext
<1>. QED
  BY <1>1, <1>2, <1>3, SpentInit, JInvStep, PTL
     DEF ServiceSpec, PipelineSpec, Pipeline!Spec
-----------------------------------------------------------------------------
(* What holds of the two together: the rows say what the programs deserve.     *)

\* What may be said of a program that Execute was called for n times.
Just(p, n, v) ==
  /\ n <= 1 /\ v \in Sure => v = Judge(p).verdict
  /\ v = Accepted => Acceptable(p, n)

RowsJust == \A s \in Submissions : Just(program[s], calls[s], verdict[s])

\* What the workers are about to write.
ResultsJust ==
  \A w \in Workers : at[w] = "update" =>
    Just(program[stream[job[w]]], calls[stream[job[w]]], result[w])

RInv == JInv /\ VInv /\ RowsJust /\ ResultsJust

\* The messages of the worker are no results of Execute.
LEMMA FailureFacts ==
  /\ \A m \in WorkerMessages : PP!Failure(m) \notin ExecutionResults
  /\ Processing \notin ExecutionResults
  /\ Absent \notin ExecutionResults
BY DEF WorkerMessages, PP!Failure, PP!Column, ExecutionResults, Accepted,
       WrongAnswer, RuntimeError, BuildFailure, Column, Nil, Processing, Absent

\* More calls take nothing back, and what Execute did not say needs no reason.
LEMMA JustFacts ==
  ASSUME NEW p
  PROVE  /\ \A m, n \in Nat : \A v :
              m <= n /\ Just(p, m, v) => Just(p, n, v)
         /\ \A n, v : v \notin ExecutionResults => Just(p, n, v)
<1>1. ASSUME NEW m \in Nat, NEW n \in Nat, NEW v, m <= n, Just(p, m, v)
      PROVE  Just(p, n, v)
  BY <1>1, MoreCalls DEF Just
<1>2. ASSUME NEW n, NEW v, v \notin ExecutionResults PROVE Just(p, n, v)
  BY <1>2, SureFacts DEF Just
<1>. QED
  BY <1>1, <1>2

\* What Execute returns is just.
LEMMA OutcomeIsJust ==
  ASSUME VInv, NEW w \in Workers, pc[w] = "return"
  PROVE  Just(Program(w), calls[task[w]], outcome[w].verdict)
<1>1. outcome[w].verdict = Accepted => Acceptable(Program(w), calls[task[w]])
  BY DEF VInv, EInv, Earned
<1>2. task[w] \in Submissions /\ calls[task[w]] \in Nat /\ calls[task[w]] >= 1
  BY RetriesType
     DEF VInv, EInv, SInv, TypeOK, Ranges, InsideTests, Once, Sole
<1>3. calls[task[w]] <= 1 /\ outcome[w].verdict \in Sure =>
        outcome[w].verdict = Judge(Program(w)).verdict
  BY <1>2 DEF VInv, Deserved
<1>. QED
  BY <1>1, <1>3 DEF Just

LEMMA RowsInit == ServiceInit => RInv
<1> SUFFICES ASSUME ServiceInit PROVE RInv
  OBVIOUS
<1>1. /\ \A s \in Submissions : verdict[s] = Pipeline!Absent
      /\ \A w \in Workers : at[w] = "idle"
  BY DEF ServiceInit, Pipeline!Init
<1>2. Pipeline!Absent = Absent
  BY DEF Pipeline!Absent, Pipeline!Column, Pipeline!Nil, Absent, Column, Nil
<1>3. RowsJust /\ ResultsJust
  BY <1>1, <1>2, FailureFacts, JustFacts DEF RowsJust, ResultsJust
<1>. QED
  BY <1>3, SpentInit, DeservedInit DEF ServiceInit, RInv

LEMMA CallsAreCounted ==
  ASSUME JInv, NEW w \in Workers, at[w] # "idle"
  PROVE  stream[job[w]] \in Submissions /\ calls[stream[job[w]]] \in Nat
BY HeldFacts, RetriesType DEF JInv, CauseInv, SInv, TypeOK, Ranges

LEMMA RowsServe ==
  ASSUME RInv, Serve
  PROVE  RowsJust' /\ ResultsJust'
<1>1. ServeMoves /\ UNCHANGED <<program, calls>>
  BY ServeServes DEF RInv, JInv, vars
<1>2. RowsJust'
  <2> SUFFICES ASSUME NEW s \in Submissions
               PROVE  Just(program[s], calls[s], verdict'[s])
    BY <1>1 DEF RowsJust
  <2>1. CASE verdict'[s] = PP!Processing
    BY <2>1, SameVerdicts, FailureFacts, JustFacts
  <2>2. CASE verdict'[s] = verdict[s]
    BY <2>2 DEF RInv, RowsJust
  <2>3. CASE \E w \in Workers : /\ at[w] = "update" /\ stream[job[w]] = s
                                /\ verdict'[s] = result[w]
    BY <2>3 DEF RInv, ResultsJust
  <2>. QED
    BY <1>1, <2>1, <2>2, <2>3 DEF ServeMoves
<1>3. ResultsJust'
  <2> SUFFICES ASSUME NEW w \in Workers, at'[w] = "update"
               PROVE  Just(program[stream'[job'[w]]], calls[stream'[job'[w]]],
                           result'[w])
    BY <1>1 DEF ResultsJust
  <2>1. CASE at[w] = "update" /\ result'[w] = result[w]
    <3>1. job'[w] = job[w] /\ job[w] \in 1 .. Len(stream)
      BY <1>1, <2>1, HeldFacts DEF ServeMoves, RInv, JInv
    <3>2. stream'[job'[w]] = stream[job[w]]
      BY <1>1, <3>1 DEF ServeMoves
    <3>. QED
      BY <2>1, <3>2 DEF RInv, ResultsJust
  <2>2. CASE \E m \in WorkerMessages : result'[w] = PP!Failure(m)
    BY <2>2, FailureFacts, JustFacts
  <2>. QED
    BY <1>1, <2>1, <2>2 DEF ServeMoves
<1>. QED
  BY <1>2, <1>3

LEMMA RowsStep == RInv /\ [ServiceNext]_serviceVars => RInv'
<1> SUFFICES ASSUME RInv, [ServiceNext]_serviceVars PROVE RInv'
  OBVIOUS
<1>0. JInv' /\ VInv'
  BY RunnerStep, JInvStep, DeservedStep DEF RInv
<1>1. TypeOK /\ at \in [Workers -> PP!PCs] /\ DOMAIN result = Workers
  BY DEF RInv, JInv, CauseInv, SInv, PP!EntriesInv, PP!TypeOK
<1>2. CASE Serve
  BY <1>0, <1>2, RowsServe DEF RInv
<1>3. ASSUME UNCHANGED <<verdict, program, stream, job, result>>,
             \A s \in Submissions : calls[s] \in Nat /\ calls'[s] \in Nat
                                    /\ calls[s] <= calls'[s],
             \A w \in Workers : at'[w] = "update" => at[w] = "update"
      PROVE  RInv'
  <2>1. RowsJust'
    BY <1>3, JustFacts DEF RInv, RowsJust
  <2>2. ASSUME NEW w \in Workers, at'[w] = "update"
        PROVE  Just(program[stream[job[w]]], calls'[stream[job[w]]], result[w])
    <3>1. at[w] = "update" /\ stream[job[w]] \in Submissions
      BY <1>3, <2>2, HeldFacts DEF RInv, JInv
    <3>. QED
      BY <1>3, <3>1, JustFacts DEF RInv, ResultsJust
  <2>3. ResultsJust'
    BY <1>3, <2>2 DEF ResultsJust
  <2>. QED
    BY <1>0, <2>1, <2>3 DEF RInv
<1>4. \A s \in Submissions : calls[s] \in Nat
  BY <1>1, RetriesType DEF TypeOK, Ranges
<1>5. ASSUME NEW w \in Workers, CallExecute(w) PROVE RInv'
  <2>1. PICK s \in Submissions : s = stream[job[w]]
    BY <1>5, HeldFacts DEF CallExecute, RInv, JInv
  <2>2. /\ UNCHANGED <<program, verdict, stream, job, result, at>>
        /\ \A r \in Submissions : calls'[r] \in Nat /\ calls[r] <= calls'[r]
    BY <1>1, <1>5, <2>1, BeginFacts DEF CallExecute, pipelineVars
  <2>. QED
    BY <1>3, <1>4, <2>2
<1>6. ASSUME NEW w \in Workers, Run(w) PROVE RInv'
  <2>1. UNCHANGED <<program, calls>>
    BY <1>1, <1>6, RunIsExecute, Shape DEF Moves, callerVars
  <2>2. UNCHANGED <<verdict, stream, job, result>>
    BY <1>6, SameControl DEF Run, PP!GoTo
  <2>3. \A v \in Workers : at'[v] = "update" => at[v] = "update"
    BY <1>1, <1>6, SameControl DEF Run, PP!GoTo
  <2>. QED
    BY <1>3, <1>4, <2>1, <2>2, <2>3
<1>7. ASSUME NEW w \in Workers, ReturnExecute(w) PROVE RInv'
  <2>1. /\ pc[w] = "return"
        /\ UNCHANGED <<program, calls, verdict, stream, job>>
        /\ result'[w] = outcome[w].verdict
        /\ \A v \in Workers \ {w} : at'[v] = at[v] /\ result'[v] = result[v]
    BY <1>1, <1>7, SameControl DEF ReturnExecute, Report, PP!Conclude
  <2>2. task[w] = stream[job[w]]
    BY <2>1 DEF RInv, JInv, Links, Link
  <2>3. Just(program[stream[job[w]]], calls[stream[job[w]]], outcome[w].verdict)
    BY <2>1, <2>2, OutcomeIsJust DEF RInv, Program
  <2>4. RowsJust' /\ ResultsJust'
    BY <2>1, <2>3 DEF RInv, RowsJust, ResultsJust
  <2>. QED
    BY <1>0, <2>4 DEF RInv
<1>8. CASE End
  <2>1. /\ \A w \in Workers : at'[w] = "idle"
        /\ UNCHANGED <<verdict, program, calls>>
    BY <1>8 DEF End, Crash, callerVars, Pipeline!Crash
  <2>2. RowsJust' /\ ResultsJust'
    BY <2>1 DEF RInv, RowsJust, ResultsJust
  <2>. QED
    BY <1>0, <2>2 DEF RInv
<1>9. CASE UNCHANGED serviceVars
  BY <1>3, <1>4, <1>9 DEF serviceVars, vars, pipelineVars
<1>. QED
  BY <1>2, <1>5, <1>6, <1>7, <1>8, <1>9 DEF ServiceNext

\* Whatever fails, until Execute is called again for it a row says ACCEPTED only
\* of a program that passes every test and WRONG_ANSWER only of one whose first
\* failure is a wrong output; and what it says ACCEPTED of at any time may be
\* accepted after the calls there were (RowIsDeserved of JudgeService).
THEOREM RowsAreDeserved == ServiceSpec => []RowIsDeserved
<1>1. RInv => RowIsDeserved
  BY SureFacts DEF RInv, RowsJust, Just, RowIsDeserved
<1>. QED
  BY <1>1, RowsInit, RowsStep, PTL DEF ServiceSpec

\* A row with a result of Execute says what the program deserves, until Execute is
\* called again for it, unless docker exec fails for a reason of its own
\* (RowIsEarned of JudgeService).
THEOREM RowsAreEarned ==
  ASSUME "exec" \notin Faults
  PROVE  ServiceSpec => []RowIsEarned
<1>1. RInv => RowIsEarned
  BY DEF RInv, RowsJust, Just, Sure, RowIsEarned
<1>. QED
  BY <1>1, RowsInit, RowsStep, PTL DEF ServiceSpec
-----------------------------------------------------------------------------
(* What holds of the two together: a decided submission leaves nothing behind. *)

Clean(s) ==
  /\ dir[s] = "none"
  /\ \A c \in Containers :
       container[c] # Gone /\ ~container[c].lost => container[c].of # s

WrittenIsClean ==
  \A w \in Workers : at[w] = "update" => Clean(stream[job[w]])

DecidedIsClean == \A s \in Submissions : verdict[s] \in Verdicts => Clean(s)

DInv ==
  /\ JInv /\ LInv /\ PP!IInv
  /\ WrittenIsClean
  /\ DecidedIsClean

LEMMA CleanInit == ServiceInit => DInv
<1> SUFFICES ASSUME ServiceInit PROVE DInv
  OBVIOUS
<1>1. PP!Init
  BY SameInit DEF ServiceInit
<1>2. PP!IInv
  BY <1>1, PipelineAssumptions, PP!IInvInit
<1>3. \A s \in Submissions : Clean(s)
  BY DEF ServiceInit, Init, Clean
<1>4. WrittenIsClean /\ DecidedIsClean
  BY <1>1, <1>3 DEF PP!Init, WrittenIsClean, DecidedIsClean
<1>. QED
  BY <1>2, <1>4, SpentInit, TidyInit DEF ServiceInit, DInv

\* Before the call of Execute nothing was made for the submission.
LEMMA BeforeIsClean ==
  ASSUME "twice" \notin Faults, DInv, NEW w \in Workers, Before(w)
  PROVE  Clean(stream[job[w]])
<1>1. at[w] # "idle"
  BY DEF Before
<1>2. PICK s \in Submissions : s = stream[job[w]] /\ job[w] \in PP!Entries(s)
  BY <1>1, HeldFacts DEF DInv, JInv
<1>3. job[w] \notin SpentEntries(s)
  BY DEF SpentEntries, Spent
<1>4. /\ Cardinality(SpentEntries(s)) \in Nat
      /\ Cardinality(SpentEntries(s)) <= Retries
  BY <1>2, <1>3, OneMore DEF SpentEntries, DInv, JInv
<1>5. calls[s] = 0
  <2>1. calls[s] \in Nat /\ calls[s] <= Cardinality(SpentEntries(s))
    BY RetriesType
       DEF DInv, JInv, Links, CallsSpent, CauseInv, SInv, TypeOK, Ranges
  <2>. QED
    BY <1>4, <2>1 DEF Retries
<1>. QED
  BY <1>2, <1>5 DEF DInv, LInv, SInv, Unwritten, Clean

LEMMA CleanServe ==
  ASSUME "twice" \notin Faults, DInv, Serve
  PROVE  WrittenIsClean' /\ DecidedIsClean'
<1>1. ServeMoves /\ UNCHANGED <<dir, container, pc>>
  BY ServeServes DEF DInv, JInv, vars
<1>2. \A s : Clean(s)' <=> Clean(s)
  BY <1>1 DEF Clean
<1>3. ASSUME NEW w \in Workers, at'[w] = "update"
      PROVE  Clean(stream'[job'[w]])
  <2>1. /\ at[w] = "update" \/ Before(w)
        /\ at[w] # "idle"
    BY <1>1, <1>3 DEF ServeMoves, Before
  <2>2. job'[w] = job[w] /\ job[w] \in 1 .. Len(stream)
    BY <1>1, <1>3, <2>1, HeldFacts DEF ServeMoves, DInv, JInv
  <2>3. stream'[job'[w]] = stream[job[w]]
    BY <1>1, <2>2 DEF ServeMoves
  <2>. QED
    BY <2>1, <2>3, BeforeIsClean DEF DInv, WrittenIsClean
<1>4. ASSUME NEW s \in Submissions, verdict'[s] \in Verdicts
      PROVE  Clean(s)
  <2>1. verdict'[s] # PP!Processing
    <3>1. Processing \notin Verdicts
      <4>1. \A v \in Verdicts : v.status \in FinalStatuses
        BY DEF Verdicts
      <4>2. Processing.status = "PROCESSING"
        BY DEF Processing, Column
      <4>. QED
        BY <4>1, <4>2 DEF FinalStatuses
    <3>. QED
      BY <1>4, <3>1, SameVerdicts
  <2>2. CASE verdict'[s] = verdict[s]
    BY <1>4, <2>2 DEF DInv, DecidedIsClean
  <2>3. CASE \E w \in Workers : at[w] = "update" /\ stream[job[w]] = s
    BY <2>3 DEF DInv, WrittenIsClean
  <2>. QED
    BY <1>1, <2>1, <2>2, <2>3 DEF ServeMoves
<1>5. WrittenIsClean'
  <2> SUFFICES ASSUME NEW w \in Workers, at'[w] = "update"
               PROVE  Clean(stream[job[w]])'
    BY DEF WrittenIsClean
  <2>. QED
    BY <1>1, <1>3 DEF Clean
<1>6. DecidedIsClean'
  BY <1>2, <1>4 DEF DecidedIsClean
<1>. QED
  BY <1>5, <1>6

\* What is clean stays clean while Execute runs for another submission.
LEMMA CleanRun ==
  ASSUME DInv, NEW w \in Workers, Run(w)
  PROVE  WrittenIsClean' /\ DecidedIsClean'
<1>1. TypeOK /\ at \in [Workers -> PP!PCs]
  BY DEF DInv, LInv, SInv, JInv, PP!EntriesInv, PP!TypeOK
<1>2. PICK label : Moves(w, label) /\ Files(w) /\ Hosts(w)
  BY <1>1, RunIsExecute, Shape
<1>3. /\ UNCHANGED <<verdict, stream, job>>
      /\ \A v \in Workers : at'[v] = "update" => at[v] = "update"
  BY <1>1, SameControl DEF Run, PP!GoTo
<1>4. task[w] = stream[job[w]] /\ at[w] \in {"execute", "hung"}
  BY <1>2 DEF Moves, DInv, JInv, Links, Link
<1>5. ASSUME NEW s \in Submissions \ {task[w]}, Clean(s) PROVE Clean(s)'
  <2>1. dir'[s] = "none"
    BY <1>2, <1>5 DEF Files, Clean
  <2>2. ASSUME NEW c \in Containers, container'[c] # Gone, ~container'[c].lost
        PROVE  container'[c].of # s
    <3>1. pc[w] = "build" => container[cid[w]] # Gone
      BY <1>1 DEF TypeOK, OwnContainer, WithContainer
    <3>. QED
      BY <1>2, <1>5, <2>2, <3>1 DEF Hosts, Clean
  <2>. QED
    BY <2>1, <2>2 DEF Clean
<1>6. ASSUME NEW v \in Workers, at[v] = "update"
      PROVE  stream[job[v]] \in Submissions \ {task[w]}
  <2>1. v # w
    BY <1>4, <1>6
  <2>2. /\ stream[job[v]] \in Submissions
        /\ job[v] \in 1 .. Len(stream) /\ job[w] \in 1 .. Len(stream)
    BY <1>4, <1>6, HeldFacts DEF DInv, JInv
  <2>3. stream[job[v]] # stream[job[w]]
    BY <1>4, <1>6, <2>1, <2>2
       DEF DInv, PP!IInv, PP!PublishedOnce, PP!OneWorkerPerEntry
  <2>. QED
    BY <1>4, <2>2, <2>3
<1>7. WrittenIsClean'
  <2> SUFFICES ASSUME NEW v \in Workers, at'[v] = "update"
               PROVE  Clean(stream[job[v]])'
    BY DEF WrittenIsClean
  <2>1. PICK s \in Submissions \ {task[w]} : s = stream[job[v]] /\ Clean(s)
    BY <1>3, <1>6 DEF DInv, WrittenIsClean
  <2>2. Clean(s)'
    BY <1>5, <2>1
  <2>. QED
    BY <1>3, <2>1, <2>2 DEF Clean
<1>8. DecidedIsClean'
  <2> SUFFICES ASSUME NEW s \in Submissions, verdict'[s] \in Verdicts
               PROVE  Clean(s)'
    BY DEF DecidedIsClean
  <2>1. Clean(s)
    BY <1>3 DEF DInv, DecidedIsClean
  <2>2. s # task[w]
    BY <1>3, <1>4, SameVerdicts
       DEF DInv, PP!IInv, PP!DecidedIsOver, PP!Decided
  <2>. QED
    BY <1>5, <2>1, <2>2
<1>. QED
  BY <1>7, <1>8

LEMMA CleanStep ==
  ASSUME "cleanup" \notin Faults, "twice" \notin Faults,
         DInv, [ServiceNext]_serviceVars
  PROVE  DInv'
<1>1. JInv' /\ LInv' /\ PP!IInv'
  <2>1. LInv'
    BY RunnerStep, TidyStep DEF DInv
  <2>2. PP!IInv'
    BY PipelineStep, PipelineAssumptions, PP!IInvStep DEF DInv
  <2>. QED
    BY <2>1, <2>2, JInvStep DEF DInv
<1>2. CASE Serve
  BY <1>1, <1>2, CleanServe DEF DInv
<1>3. ASSUME UNCHANGED <<dir, container, verdict, stream, job>>,
             \A w \in Workers : at'[w] = "update" =>
               at[w] = "update" \/ Clean(stream[job[w]])
      PROVE  DInv'
  <2>1. WrittenIsClean' /\ DecidedIsClean'
    BY <1>3 DEF DInv, WrittenIsClean, DecidedIsClean, Clean
  <2>. QED
    BY <1>1, <2>1 DEF DInv
<1>4. ASSUME NEW w \in Workers, CallExecute(w) PROVE DInv'
  BY <1>3, <1>4 DEF CallExecute, Begin, pipelineVars, hostVars
<1>5. ASSUME NEW w \in Workers, Run(w) PROVE DInv'
  BY <1>1, <1>5, CleanRun DEF DInv
<1>6. ASSUME NEW w \in Workers, ReturnExecute(w) PROVE DInv'
  <2>0. pc[w] = "return" /\ task[w] \in Submissions
    BY <1>6, ReportFacts DEF ReturnExecute, DInv, LInv, SInv
  <2>1. pc[w] = "return" /\ UNCHANGED <<dir, container, verdict, stream, job>>
    BY <1>6, SameControl DEF ReturnExecute, Report, hostVars, PP!Conclude
  <2>2. Clean(task[w]) /\ task[w] = stream[job[w]]
    BY <2>0 DEF DInv, JInv, Links, Link, LInv, Tidy, WithContainer, Clean
  <2>3. \A v \in Workers \ {w} : at'[v] = at[v]
    BY <1>6, SameControl
       DEF ReturnExecute, PP!Conclude, DInv, JInv, PP!EntriesInv, PP!TypeOK
  <2>. QED
    BY <1>3, <2>1, <2>2, <2>3
<1>7. CASE End
  <2>1. /\ \A w \in Workers : at'[w] = "idle"
        /\ UNCHANGED <<dir, container, verdict>>
    BY <1>7 DEF End, Crash, hostVars, Pipeline!Crash
  <2>2. WrittenIsClean' /\ DecidedIsClean'
    BY <2>1 DEF DInv, WrittenIsClean, DecidedIsClean, Clean
  <2>. QED
    BY <1>1, <2>2 DEF DInv
<1>8. CASE UNCHANGED serviceVars
  BY <1>3, <1>8 DEF serviceVars, vars, pipelineVars
<1>. QED
  BY <1>2, <1>4, <1>5, <1>6, <1>7, <1>8 DEF ServiceNext

\* A submission that polls show as decided has no directory on the host, and no
\* container but one that docker run started and then failed to name, unless
\* removing them fails or an id is queued more than once: also where a process
\* ended in the middle of Execute, because nobody decides what it left
\* (DecidedLeavesNothing of JudgeService).
THEOREM DecidedIsTidy ==
  ASSUME "cleanup" \notin Faults, "twice" \notin Faults
  PROVE  ServiceSpec => []DecidedLeavesNothing
<1>1. DInv => DecidedLeavesNothing
  <2>1. Pipeline!Verdicts = Verdicts
    BY DEF Pipeline!Verdicts, Verdicts, Pipeline!FinalStatuses, FinalStatuses,
           Pipeline!ProgramOutputs, ProgramOutputs, Pipeline!WorkerMessages,
           WorkerMessages, Pipeline!Nil, Nil
  <2>. QED
    BY <2>1 DEF DInv, DecidedIsClean, Clean, DecidedLeavesNothing, Pipeline!Decided
<1>2. DInv /\ [ServiceNext]_serviceVars => DInv'
  BY CleanStep
<1>. QED
  BY <1>1, <1>2, CleanInit, PTL DEF ServiceSpec

\* In the service, too, no submission is judged twice, and rows go through
\* their life cycle, if XADD is not repeated: the theorems of
\* JudgePipelineProofs hold with the runner in the place of its caller's view.
THEOREM ServiceJudgesOnce ==
  ASSUME "twice" \notin Faults
  PROVE  ServiceSpec => []PP!JudgedAtMostOnce /\ PP!LifecycleSpec
<1>1. "xaddRetry" \notin PipelineFaults
  BY PipelineAssumptions
<1>2. PP!Spec => []PP!JudgedAtMostOnce
  BY <1>1, PipelineAssumptions, PP!AtMostOnce
<1>3. PP!Spec => PP!LifecycleSpec
  BY <1>1, PipelineAssumptions, PP!ImplementsLifecycle
<1>4. ServiceInit => PP!Init
  BY SameInit DEF ServiceInit
<1>5. JInv /\ [ServiceNext]_serviceVars => [PP!Next]_(PP!vars)
  BY PipelineStep
<1>6. ServiceSpec => PP!Spec
  BY <1>4, <1>5, SpentInit, JInvStep, PTL DEF ServiceSpec, PP!Spec
<1>. QED
  BY <1>2, <1>3, <1>6, PTL
=============================================================================
