--------------------------- MODULE JudgePipeline ---------------------------
(***************************************************************************)
(* The path of a submission through the server: the POST handler inserts a  *)
(* row and publishes its id to a Redis stream, the workers of the pool read *)
(* the stream through a consumer group, judge the submission and update the *)
(* row.  Calls to MySQL, Redis and Docker are separate steps and may fail.  *)
(***************************************************************************)
EXTENDS Integers, Sequences, FiniteSets, Verdicts

CONSTANTS Submissions,  \* ids MySQL may assign to submissions
          Workers,      \* the workers of the pool
          Languages,    \* language ids clients may send
          MaxRetries,   \* how often the Redis client repeats a command
          Faults        \* which failures the environment may produce

(***************************************************************************)
(* The failures, by the call they hit:                                      *)
(*   insertLost   the row is inserted but the handler gets an error         *)
(*   xadd         XADD fails, nothing is published                          *)
(*   xaddLost     XADD publishes but the handler gets an error              *)
(*   xaddRetry    XADD publishes, its reply is lost and the Redis client    *)
(*                repeats it, MaxRetries times at most                      *)
(*   readLost     the entry is delivered but the reply to XREADGROUP is lost*)
(*   ack          XACK fails                                                *)
(*   load         the submission cannot be read                             *)
(*   fetch        test cases, system code or imports cannot be read         *)
(*   execute      Execute returns an error (directory, file or container)   *)
(*   hang         the submitted program does not end                        *)
(*   update       the result cannot be written                              *)
(*   crash        the process ends: a kill, a panic, or log.Fatalf          *)
(*   flush        Redis loses its data, the consumer group included         *)
(***************************************************************************)
FaultKinds == {"insertLost", "xadd", "xaddLost", "xaddRetry", "readLost", "ack",
               "load", "fetch", "execute", "hang", "update", "crash", "flush"}

\* The failures that can leave a recorded submission with nobody to judge it.
LossyFaults == {"insertLost", "xadd", "readLost", "load", "update", "crash",
                "flush"}

ASSUME FaultsAssumption == Faults \subseteq FaultKinds
ASSUME LanguagesAssumption == Languages \subseteq Int
ASSUME MaxRetriesAssumption == MaxRetries \in Nat

VARIABLES
  up,            \* the process is running
  request,       \* request[s]: the POST handler that created s
  verdict,       \* verdict[s]: status, wrong_testcase, program_output of row s
  language,      \* language[s]: language_id of row s, 0 before the insert
  stream,        \* every entry ever added to code_submissions, in order
  lastDelivered, \* position of the group judgers in the stream, or NoGroup
  pending,       \* entries delivered to the group and not acknowledged
  pc,            \* pc[w]: the call worker w is at
  job,           \* job[w]: the entry worker w holds, 0 if none
  result         \* result[w]: what worker w is about to write

vars == <<up, request, verdict, language, stream, lastDelivered, pending, pc,
          job, result>>

handlerVars == <<request, language>>
queueVars == <<stream, lastDelivered, pending>>
workerVars == <<pc, job, result>>

NoGroup == -1

SupportedLanguages == {1, 2}

\* Go is built before it runs; Python is not, so it has no build to fail.
CompiledLanguages == {2}

\* ValidateRequest, as far as the pipeline depends on the request.
ValidRequest(l) == l > 0

Decided(s) == verdict[s] \in Verdicts

\* The positions of the stream that carry s.
Entries(s) == {i \in 1 .. Len(stream) : stream[i] = s}

Held(s) == \E w \in Workers : pc[w] # "idle" /\ stream[job[w]] = s

Queued(s) ==
  /\ lastDelivered # NoGroup
  /\ \E i \in 1 .. Len(stream) : i > lastDelivered /\ stream[i] = s

Init ==
  /\ up = FALSE
  /\ request = [s \in Submissions |-> "new"]
  /\ verdict = [s \in Submissions |-> Absent]
  /\ language = [s \in Submissions |-> 0]
  /\ stream = <<>>
  /\ lastDelivered = NoGroup
  /\ pending = {}
  /\ pc = [w \in Workers |-> "idle"]
  /\ job = [w \in Workers |-> 0]
  /\ result = [w \in Workers |-> Absent]

-----------------------------------------------------------------------------
(* Control of a worker *)

GoTo(w, label) ==
  /\ pc' = [pc EXCEPT ![w] = label]
  /\ UNCHANGED <<job, result>>

\* The worker stops judging and writes a verdict.
Conclude(w, v) ==
  /\ pc' = [pc EXCEPT ![w] = "update"]
  /\ result' = [result EXCEPT ![w] = v]
  /\ UNCHANGED job

\* processCodeJob returns.
Finish(w) ==
  /\ pc' = [pc EXCEPT ![w] = "idle"]
  /\ job' = [job EXCEPT ![w] = 0]
  /\ result' = [result EXCEPT ![w] = Absent]

-----------------------------------------------------------------------------
(* Variants of the actions below with one plausible mistake each: they are   *)
(* not part of Next, and each breaks a property that the original keeps.     *)

\* A restart that forgets where the group was: the group is made again at $.
StartPoolAtTail ==
  /\ ~up
  /\ up' = TRUE
  /\ lastDelivered' = Len(stream)
  /\ UNCHANGED <<handlerVars, verdict, stream, pending, workerVars>>

\* A restart that makes the group again at 0.
StartPoolAtHead ==
  /\ ~up
  /\ up' = TRUE
  /\ lastDelivered' = 0
  /\ UNCHANGED <<handlerVars, verdict, stream, pending, workerVars>>

\* A handler that publishes again when it is told that XADD failed.
EnqueueAgain(s) ==
  /\ request[s] = "inserted"
  /\ \/ stream' = Append(stream, s)
     \/ "xaddLost" \in Faults /\ stream' = stream \o <<s, s>>
  /\ request' = [request EXCEPT ![s] = "queued"]
  /\ UNCHANGED <<up, language, verdict, lastDelivered, pending, workerVars>>

\* A worker that gives the job up when it cannot acknowledge it.
AckOrGiveUp(w) ==
  /\ pc[w] = "ack"
  /\ \/ /\ pending' = pending \ {job[w]}
        /\ GoTo(w, "load")
     \/ /\ "ack" \in Faults
        /\ UNCHANGED pending
        /\ Finish(w)
  /\ UNCHANGED <<up, handlerVars, verdict, stream, lastDelivered>>

\* An error branch that returns without UpdateSubmissionStatus.
GetTestCasesOrReturn(w) ==
  /\ pc[w] = "testCases"
  /\ \/ GoTo(w, "systemCode")
     \/ "fetch" \in Faults /\ Finish(w)
  /\ UNCHANGED <<up, handlerVars, verdict, queueVars>>

\* An error branch that updates the row without a result.
GetSystemCodeNoResult(w) ==
  /\ pc[w] = "systemCode"
  /\ \/ GoTo(w, "imports")
     \/ "fetch" \in Faults /\ GoTo(w, "update")
  /\ UNCHANGED <<up, handlerVars, verdict, queueVars>>

-----------------------------------------------------------------------------
(* Process start and end *)

\* The group is created at $ when there is none; BUSYGROUP leaves it where it
\* is.  The pool is started before the router serves its first request.
StartPool ==
  /\ ~up
  /\ up' = TRUE
  /\ lastDelivered' = IF lastDelivered = NoGroup THEN Len(stream)
                                                 ELSE lastDelivered
  /\ UNCHANGED <<handlerVars, verdict, stream, pending, workerVars>>

\* Nothing runs the deferred Stop: router.Run returns only to log.Fatalf, and
\* no signal is handled.  Requests in flight lose their connection.
Crash ==
  /\ "crash" \in Faults
  /\ up
  /\ up' = FALSE
  /\ request' = [s \in Submissions |->
                   IF request[s] \in {"inserted", "queued"} THEN "refused"
                                                           ELSE request[s]]
  /\ pc' = [w \in Workers |-> "idle"]
  /\ job' = [w \in Workers |-> 0]
  /\ result' = [w \in Workers |-> Absent]
  /\ UNCHANGED <<verdict, language, queueVars>>

\* Redis comes back empty.  Entries are reached only through the group, so
\* the loss of the group is what matters; later entries are appended to stream.
Flush ==
  /\ "flush" \in Faults
  /\ lastDelivered # NoGroup
  /\ lastDelivered' = NoGroup
  /\ pending' = {}
  /\ UNCHANGED <<up, handlerVars, verdict, stream, workerVars>>

-----------------------------------------------------------------------------
(* SubmissionHandler.CreateSubmission *)

Insert(s, l) ==
  /\ up
  /\ request[s] = "new"
  /\ ValidRequest(l)
  /\ verdict' = [verdict EXCEPT ![s] = Processing]
  /\ language' = [language EXCEPT ![s] = l]
  /\ \/ request' = [request EXCEPT ![s] = "inserted"]
     \/ /\ "insertLost" \in Faults
        /\ request' = [request EXCEPT ![s] = "refused"]
  /\ UNCHANGED <<up, queueVars, workerVars>>

\* One attempt of XADD.  The client repeats an attempt whose reply is lost, so
\* others may publish and read between two entries of s, and the last attempt
\* may still fail; an attempt that published nothing and is repeated is a stutter.
Enqueue(s) ==
  /\ request[s] = "inserted"
  /\ \/ /\ stream' = Append(stream, s)
        /\ request' = [request EXCEPT ![s] = "queued"]
     \/ /\ "xaddRetry" \in Faults
        /\ Cardinality(Entries(s)) < MaxRetries
        /\ stream' = Append(stream, s)
        /\ UNCHANGED request
     \/ /\ "xaddLost" \in Faults
        /\ stream' = Append(stream, s)
        /\ request' = [request EXCEPT ![s] = "refused"]
     \/ /\ "xadd" \in Faults
        /\ UNCHANGED stream
        /\ request' = [request EXCEPT ![s] = "refused"]
  /\ UNCHANGED <<up, language, verdict, lastDelivered, pending, workerVars>>

Respond(s) ==
  /\ request[s] = "queued"
  /\ request' = [request EXCEPT ![s] = "accepted"]
  /\ UNCHANGED <<up, language, verdict, queueVars, workerVars>>

-----------------------------------------------------------------------------
(* CodeWorker.Start and processCodeJob *)

Deliverable ==
  /\ lastDelivered # NoGroup
  /\ lastDelivered < Len(stream)

\* XREADGROUP with ">" hands every entry to one consumer of the group.
Read(w) ==
  /\ up
  /\ pc[w] = "idle"
  /\ Deliverable
  /\ lastDelivered' = lastDelivered + 1
  /\ pending' = pending \cup {lastDelivered + 1}
  /\ pc' = [pc EXCEPT ![w] = "ack"]
  /\ job' = [job EXCEPT ![w] = lastDelivered + 1]
  /\ UNCHANGED <<up, handlerVars, verdict, stream, result>>

\* The worker sees an error and goes on with ">": the entry stays pending.
LoseRead(w) ==
  /\ "readLost" \in Faults
  /\ up
  /\ pc[w] = "idle"
  /\ Deliverable
  /\ lastDelivered' = lastDelivered + 1
  /\ pending' = pending \cup {lastDelivered + 1}
  /\ UNCHANGED <<up, handlerVars, verdict, stream, workerVars>>

\* The entry is acknowledged before the work; an error is only logged.
Ack(w) ==
  /\ pc[w] = "ack"
  /\ \/ pending' = pending \ {job[w]}
     \/ "ack" \in Faults /\ UNCHANGED pending
  /\ GoTo(w, "load")
  /\ UNCHANGED <<up, handlerVars, verdict, stream, lastDelivered>>

GetSubmission(w) ==
  /\ pc[w] = "load"
  /\ \/ /\ language[stream[job[w]]] \in SupportedLanguages
        /\ GoTo(w, "testCases")
     \/ /\ language[stream[job[w]]] \notin SupportedLanguages
        /\ Conclude(w, Failure("unsupportedLanguage"))
     \/ "load" \in Faults /\ Finish(w)
  /\ UNCHANGED <<up, handlerVars, verdict, queueVars>>

\* One of the three cached reads, each with its own message on failure.
Fetch(w, here, next, message) ==
  /\ pc[w] = here
  /\ \/ GoTo(w, next)
     \/ "fetch" \in Faults /\ Conclude(w, Failure(message))
  /\ UNCHANGED <<up, handlerVars, verdict, queueVars>>

GetTestCases(w) == Fetch(w, "testCases", "systemCode", "noTestCases")

GetSystemCode(w) == Fetch(w, "systemCode", "imports", "noSystemCode")

GetLanguageImports(w) == Fetch(w, "imports", "execute", "noImports")

\* Execute as its caller sees it; module CodeRunner has the inside.
Execute(w) ==
  /\ pc[w] = "execute"
  /\ \/ \E v \in ExecutionResults :
          /\ v = BuildFailure => language[stream[job[w]]] \in CompiledLanguages
          /\ Conclude(w, v)
     \/ "execute" \in Faults /\ Conclude(w, Failure("executionError"))
     \/ "hang" \in Faults /\ GoTo(w, "hung")
  /\ UNCHANGED <<up, handlerVars, verdict, queueVars>>

UpdateSubmissionStatus(w) ==
  /\ pc[w] = "update"
  /\ \/ verdict' = [verdict EXCEPT ![stream[job[w]]] = result[w]]
     \/ "update" \in Faults /\ UNCHANGED verdict
  /\ Finish(w)
  /\ UNCHANGED <<up, handlerVars, queueVars>>

-----------------------------------------------------------------------------

Handle(s) == Enqueue(s) \/ Respond(s)

ProcessJob(w) ==
  \/ Ack(w)
  \/ GetSubmission(w)
  \/ GetTestCases(w)
  \/ GetSystemCode(w)
  \/ GetLanguageImports(w)
  \/ Execute(w)
  \/ UpdateSubmissionStatus(w)

Next ==
  \/ StartPool
  \/ Crash
  \/ Flush
  \/ \E s \in Submissions, l \in Languages : Insert(s, l)
  \/ \E s \in Submissions : Handle(s)
  \/ \E w \in Workers : Read(w) \/ LoseRead(w) \/ ProcessJob(w)

Spec == Init /\ [][Next]_vars

(***************************************************************************)
(* Clients need not send anything.  What has begun goes on: the supervisor  *)
(* starts the process, the runtime schedules every handler and worker, and  *)
(* MySQL, Redis and Docker answer every call.  Strong fairness of Read: a   *)
(* restarted process is not killed each time before its first read.         *)
(***************************************************************************)
Fairness ==
  /\ WF_vars(StartPool)
  /\ \A s \in Submissions : WF_vars(Handle(s))
  /\ \A w \in Workers : WF_vars(ProcessJob(w))
  /\ SF_vars(\E w \in Workers : Read(w))

FairSpec == Spec /\ Fairness

-----------------------------------------------------------------------------
(* Properties *)

PCs == {"idle", "ack", "load", "testCases", "systemCode", "imports",
        "execute", "hung", "update"}

\* The ranges of the variables; a worker at a call holds an entry of the
\* stream, and a worker about to update a row has a verdict to write.
TypeOK ==
  /\ up \in BOOLEAN
  /\ request \in [Submissions ->
                    {"new", "inserted", "queued", "accepted", "refused"}]
  /\ verdict \in [Submissions -> Verdicts \cup {Absent, Processing}]
  /\ language \in [Submissions -> Languages \cup {0}]
  /\ stream \in Seq(Submissions)
  /\ lastDelivered \in NoGroup .. Len(stream)
  /\ pending \subseteq 1 .. Len(stream)
  /\ pc \in [Workers -> PCs]
  /\ job \in [Workers -> 0 .. Len(stream)]
  /\ result \in [Workers -> Verdicts \cup {Absent}]
  /\ \A w \in Workers : pc[w] # "idle" => job[w] # 0
  /\ \A w \in Workers : pc[w] = "update" => result[w] \in Verdicts

\* Whatever fails, no submission is judged twice: two workers never hold it,
\* nobody holds it while it waits in the queue, and a decided one is neither
\* held nor queued (the group hands out, the early XACK and the restart at the
\* group's old position).  It takes an XADD that is not repeated.
JudgedAtMostOnce ==
  \A s \in Submissions :
    /\ \A v, w \in Workers :
         /\ pc[v] # "idle" /\ stream[job[v]] = s
         /\ pc[w] # "idle" /\ stream[job[w]] = s
         => v = w
    /\ Held(s) => ~Queued(s)
    /\ Decided(s) => ~Held(s) /\ ~Queued(s)

\* A row in PROCESSING has a handler about to publish it, an entry the group
\* will still deliver, or a worker judging it (README.md, "PROCESSING").
ProcessingHasOwner ==
  \A s \in Submissions :
    verdict[s] = Processing =>
      request[s] = "inserted" \/ Queued(s) \/ Held(s)

\* The pipeline implements the life cycle: rows are decided once and never
\* overwritten, and 202 is sent only for a recorded submission.
Lifecycle ==
  INSTANCE SubmissionLifecycle
    WITH accepted <- {s \in Submissions : request[s] = "accepted"}

LifecycleSpec == Lifecycle!Spec

\* A client that was answered 202 and polls sees the status leave PROCESSING.
AcceptedIsDecided ==
  \A s \in Submissions : request[s] = "accepted" ~> Decided(s)

\* An entry that waits in the stream when the process dies is handed to a
\* worker of a later process.
QueuedIsPickedUp == \A s \in Submissions : Queued(s) ~> Held(s)

HungOn(s) == \E w \in Workers : pc[w] = "hung" /\ stream[job[w]] = s

\* A program that does not end delays nobody but the client who sent it.
HangIsIsolated ==
  \A s \in Submissions : request[s] = "accepted" ~> Decided(s) \/ HungOn(s)

\* A submission in COMPILATION_ERROR carries an error message or stderr.
CompilationErrorHasOutput ==
  \A s \in Submissions :
    verdict[s].status = "COMPILATION_ERROR" => verdict[s].programOutput # Nil
=============================================================================
