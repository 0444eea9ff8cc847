------------------------ MODULE JudgePipelineProofs ------------------------
(***************************************************************************)
(* Theorems about JudgePipeline for all submissions, workers and faults.    *)
(***************************************************************************)
EXTENDS JudgePipeline, FiniteSetTheorems, TLAPS

\* What the workers write are verdicts, and a verdict is neither of the two
\* states of an undecided row.
LEMMA VerdictFacts ==
  /\ ExecutionResults \subseteq Verdicts
  /\ \A m \in WorkerMessages : Failure(m) \in Verdicts
  /\ Absent \notin Verdicts
  /\ Processing \notin Verdicts
  /\ Absent # Processing
<1>1. \A st \in FinalStatuses, b \in BOOLEAN, o \in ProgramOutputs :
        Column(st, b, o) \in Verdicts
  BY DEF Column, Verdicts
<1>2. ExecutionResults \subseteq Verdicts
  BY <1>1 DEF ExecutionResults, Accepted, WrongAnswer, RuntimeError,
              BuildFailure, FinalStatuses, ProgramOutputs
<1>3. \A m \in WorkerMessages : Failure(m) \in Verdicts
  BY <1>1 DEF Failure, FinalStatuses, ProgramOutputs
<1>4. \A v \in Verdicts : v.status \in FinalStatuses
  BY DEF Verdicts
<1>5. Absent.status = "ABSENT" /\ Processing.status = "PROCESSING"
  BY DEF Absent, Processing, Column
<1>6. Absent \notin Verdicts /\ Processing \notin Verdicts /\ Absent # Processing
  BY <1>4, <1>5 DEF FinalStatuses
<1>. QED BY <1>2, <1>3, <1>6

\* What XADD does to the stream.
LEMMA StreamGrows ==
  ASSUME NEW S, NEW q \in Seq(S), NEW s \in S
  PROVE  /\ Len(q) \in Nat
         /\ Append(q, s) \in Seq(S)
         /\ Len(Append(q, s)) = Len(q) + 1
OBVIOUS

\* Every step keeps the variables in their ranges.
LEMMA TypeStep == TypeOK /\ [Next]_vars => TypeOK'
<1> SUFFICES ASSUME TypeOK, [Next]_vars
             PROVE  TypeOK'
  OBVIOUS
<1> USE DEF TypeOK, PCs, NoGroup, handlerVars, queueVars, workerVars
<1>1. CASE StartPool
  BY <1>1 DEF StartPool
<1>2. CASE Crash
  <2>1. request' \in [Submissions ->
                        {"new", "inserted", "queued", "accepted", "refused"}]
    BY <1>2 DEF Crash
  <2>2. /\ pc' \in [Workers -> PCs]
        /\ job' \in [Workers -> 0 .. Len(stream')]
        /\ result' \in [Workers -> Verdicts \cup {Absent}]
        /\ \A w \in Workers : pc'[w] = "idle"
    BY <1>2 DEF Crash
  <2>. QED
    BY <1>2, <2>1, <2>2 DEF Crash
<1>3. CASE Flush
  BY <1>3 DEF Flush
<1>4. ASSUME NEW s \in Submissions, NEW l \in Languages, Insert(s, l)
      PROVE  TypeOK'
  BY <1>4 DEF Insert
<1>5. ASSUME NEW s \in Submissions, Enqueue(s)
      PROVE  TypeOK'
  <2>1. /\ stream' \in Seq(Submissions)
        /\ Len(stream') \in Nat
        /\ Len(stream) \in Nat
        /\ Len(stream) <= Len(stream')
    <3>1. stream' = stream \/ stream' = Append(stream, s)
      BY <1>5 DEF Enqueue
    <3>2. stream \in Seq(Submissions)
      OBVIOUS
    <3>. HIDE DEF TypeOK
    <3>3. /\ Len(stream) \in Nat
          /\ Append(stream, s) \in Seq(Submissions)
          /\ Len(Append(stream, s)) = Len(stream) + 1
      BY <3>2, StreamGrows
    <3>4. CASE stream' = stream
      BY <3>2, <3>3, <3>4
    <3>5. CASE stream' = Append(stream, s)
      BY <3>3, <3>5
    <3>. QED
      BY <3>1, <3>4, <3>5
  <2>2. /\ request' \in [Submissions ->
                          {"new", "inserted", "queued", "accepted", "refused"}]
        /\ UNCHANGED <<up, language, verdict, lastDelivered, pending, pc, job,
                       result>>
    BY <1>5 DEF Enqueue
  <2>3. /\ lastDelivered' \in NoGroup .. Len(stream')
        /\ pending' \subseteq 1 .. Len(stream')
        /\ job' \in [Workers -> 0 .. Len(stream')]
    BY <2>1, <2>2
  <2>. QED
    BY <2>1, <2>2, <2>3
<1>6. ASSUME NEW s \in Submissions, Respond(s)
      PROVE  TypeOK'
  BY <1>6 DEF Respond
<1>7. ASSUME NEW w \in Workers, Read(w)
      PROVE  TypeOK'
  BY <1>7 DEF Read, Deliverable
<1>8. ASSUME NEW w \in Workers, LoseRead(w)
      PROVE  TypeOK'
  BY <1>8 DEF LoseRead, Deliverable
<1>9. ASSUME NEW w \in Workers, Ack(w)
      PROVE  TypeOK'
  BY <1>9 DEF Ack, GoTo
<1>10. ASSUME NEW w \in Workers, GetSubmission(w)
       PROVE  TypeOK'
  <2>1. CASE GoTo(w, "testCases")
    BY <1>10, <2>1 DEF GetSubmission, GoTo
  <2>2. CASE Conclude(w, Failure("unsupportedLanguage"))
    BY <1>10, <2>2, VerdictFacts DEF GetSubmission, Conclude, WorkerMessages
  <2>3. CASE Finish(w)
    BY <1>10, <2>3 DEF GetSubmission, Finish
  <2>. QED
    BY <1>10, <2>1, <2>2, <2>3 DEF GetSubmission
<1>11. ASSUME NEW w \in Workers, NEW here, NEW next \in PCs \ {"update"},
              NEW m \in WorkerMessages, Fetch(w, here, next, m), here # "idle"
       PROVE  TypeOK'
  <2>1. CASE GoTo(w, next)
    BY <1>11, <2>1 DEF Fetch, GoTo
  <2>2. CASE Conclude(w, Failure(m))
    <3>1. Failure(m) \in Verdicts
      BY VerdictFacts
    <3>. QED
      BY <1>11, <2>2, <3>1 DEF Fetch, Conclude
  <2>. QED
    BY <1>11, <2>1, <2>2 DEF Fetch
<1>12. ASSUME NEW w \in Workers,
              GetTestCases(w) \/ GetSystemCode(w) \/ GetLanguageImports(w)
       PROVE  TypeOK'
  BY <1>11, <1>12
     DEF GetTestCases, GetSystemCode, GetLanguageImports, WorkerMessages
<1>13. ASSUME NEW w \in Workers, Execute(w)
       PROVE  TypeOK'
  BY <1>13, VerdictFacts DEF Execute, GoTo, Conclude, WorkerMessages
<1>14. ASSUME NEW w \in Workers, UpdateSubmissionStatus(w)
       PROVE  TypeOK'
  BY <1>14 DEF UpdateSubmissionStatus, Finish
<1>15. CASE UNCHANGED vars
  BY <1>15 DEF vars
<1>. QED
  BY <1>1, <1>2, <1>3, <1>4, <1>5, <1>6, <1>7, <1>8, <1>9, <1>10, <1>12,
     <1>13, <1>14, <1>15 DEF Next, Handle, ProcessJob

LEMMA TypeInit == Init => TypeOK
<1> SUFFICES ASSUME Init
             PROVE  TypeOK
  OBVIOUS
<1>1. stream \in Seq(Submissions) /\ Len(stream) = 0
  BY DEF Init
<1>2. lastDelivered \in NoGroup .. Len(stream) /\ pending \subseteq 1 .. Len(stream)
  BY <1>1 DEF Init, NoGroup
<1>3. /\ up \in BOOLEAN
      /\ verdict \in [Submissions -> Verdicts \cup {Absent, Processing}]
      /\ language \in [Submissions -> Languages \cup {0}]
      /\ request \in [Submissions ->
                        {"new", "inserted", "queued", "accepted", "refused"}]
  BY DEF Init
<1>4. /\ pc \in [Workers -> PCs]
      /\ job \in [Workers -> 0 .. Len(stream)]
      /\ result \in [Workers -> Verdicts \cup {Absent}]
      /\ \A w \in Workers : pc[w] = "idle"
  BY <1>1 DEF Init, PCs
<1>. QED
  BY <1>1, <1>2, <1>3, <1>4 DEF TypeOK

\* The ranges of the variables, whatever fails (TypeOK of JudgePipeline).
THEOREM TypeCorrect == Spec => []TypeOK
BY TypeInit, TypeStep, PTL DEF Spec
-----------------------------------------------------------------------------
(* The inductive invariant behind JudgedAtMostOnce and the refinement: an    *)
(* id is published once, an entry is held by one worker and only behind the  *)
(* position of the group, and rows follow their request.                     *)

\* No two entries of the stream carry the same submission.
PublishedOnce ==
  \A i, j \in 1 .. Len(stream) : stream[i] = stream[j] => i = j

\* An entry belongs to a request that has passed XADD.
PublishedByHandler ==
  \A i \in 1 .. Len(stream) : request[stream[i]] \notin {"new", "inserted"}

\* What a worker holds, the group has delivered, unless the group is lost.
HeldIsDelivered ==
  \A w \in Workers :
    pc[w] # "idle" /\ lastDelivered # NoGroup => job[w] <= lastDelivered

OneWorkerPerEntry ==
  \A v, w \in Workers :
    pc[v] # "idle" /\ pc[w] # "idle" /\ job[v] = job[w] => v = w

\* A decided submission was published and has left the queue and the workers.
DecidedIsOver ==
  \A s \in Submissions :
    Decided(s) =>
      /\ request[s] \notin {"new", "inserted"}
      /\ \A w \in Workers : pc[w] # "idle" => stream[job[w]] # s
      /\ lastDelivered # NoGroup =>
           \A i \in 1 .. Len(stream) : stream[i] = s => i <= lastDelivered

RowFollowsRequest ==
  \A s \in Submissions : request[s] = "new" <=> verdict[s] = Absent

IInv ==
  /\ TypeOK
  /\ PublishedOnce
  /\ PublishedByHandler
  /\ HeldIsDelivered
  /\ OneWorkerPerEntry
  /\ DecidedIsOver
  /\ RowFollowsRequest

(***************************************************************************)
(* Most steps only let go: nothing is published or written, a worker keeps  *)
(* its entry or drops it, the group moves forward, to the end of the stream *)
(* or away, and no request goes back.                                       *)
(***************************************************************************)
LetsGo ==
  /\ UNCHANGED <<stream, verdict>>
  /\ \A w \in Workers :
       pc'[w] # "idle" => pc[w] # "idle" /\ job'[w] = job[w]
  /\ \A s \in Submissions :
       /\ request'[s] = "new" <=> request[s] = "new"
       /\ request'[s] = "inserted" => request[s] = "inserted"
  /\ \/ lastDelivered' = NoGroup
     \/ lastDelivered # NoGroup /\ lastDelivered <= lastDelivered'
     \/ lastDelivered' = Len(stream)

LEMMA LetsGoStep ==
  ASSUME IInv, TypeOK', LetsGo
  PROVE  IInv'
<1> USE DEF IInv
<1>1. PublishedOnce'
  BY DEF LetsGo, PublishedOnce
<1>2. PublishedByHandler'
  BY DEF LetsGo, PublishedByHandler, TypeOK
<1>3. HeldIsDelivered'
  BY DEF LetsGo, HeldIsDelivered, TypeOK, NoGroup
<1>4. OneWorkerPerEntry'
  BY DEF LetsGo, OneWorkerPerEntry
<1>5. DecidedIsOver'
  <2> SUFFICES ASSUME NEW s \in Submissions, Decided(s)'
               PROVE  /\ request'[s] \notin {"new", "inserted"}
                      /\ \A w \in Workers :
                           pc'[w] # "idle" => stream'[job'[w]] # s
                      /\ lastDelivered' # NoGroup =>
                           \A i \in 1 .. Len(stream') :
                             stream'[i] = s => i <= lastDelivered'
    BY DEF DecidedIsOver
  <2>1. Decided(s)
    BY DEF Decided, LetsGo
  <2>2. request'[s] \notin {"new", "inserted"}
    BY <2>1 DEF LetsGo, DecidedIsOver
  <2>3. \A w \in Workers : pc'[w] # "idle" => stream'[job'[w]] # s
    BY <2>1 DEF LetsGo, DecidedIsOver
  <2>4. ASSUME lastDelivered' # NoGroup, NEW i \in 1 .. Len(stream'),
               stream'[i] = s
        PROVE  i <= lastDelivered'
    BY <2>1, <2>4 DEF LetsGo, DecidedIsOver, TypeOK, NoGroup
  <2>. QED
    BY <2>2, <2>3, <2>4
<1>6. RowFollowsRequest'
  BY DEF LetsGo, RowFollowsRequest
<1>. QED
  BY <1>1, <1>2, <1>3, <1>4, <1>5, <1>6

\* The steps that only let go.
LEMMA LetsGoSteps ==
  ASSUME TypeOK
  PROVE  /\ StartPool \/ Crash \/ Flush => LetsGo
         /\ \A s \in Submissions : Respond(s) => LetsGo
         /\ \A w \in Workers :
              \/ LoseRead(w)
              \/ Ack(w)
              \/ GetSubmission(w)
              \/ GetTestCases(w)
              \/ GetSystemCode(w)
              \/ GetLanguageImports(w)
              \/ Execute(w)
              => LetsGo
         /\ UNCHANGED vars => LetsGo
<1> USE DEF TypeOK, LetsGo, handlerVars, queueVars, workerVars, NoGroup
<1>1. ASSUME StartPool PROVE LetsGo
  BY <1>1 DEF StartPool
<1>2. ASSUME Crash PROVE LetsGo
  BY <1>2 DEF Crash
<1>3. ASSUME Flush PROVE LetsGo
  BY <1>3 DEF Flush
<1>4. ASSUME NEW s \in Submissions, Respond(s) PROVE LetsGo
  BY <1>4 DEF Respond
<1>5. ASSUME NEW w \in Workers, LoseRead(w) PROVE LetsGo
  BY <1>5 DEF LoseRead, Deliverable
<1>6. ASSUME NEW w \in Workers, NEW to,
             pc[w] # "idle", GoTo(w, to),
             UNCHANGED <<up, handlerVars, verdict, stream, lastDelivered>>
      PROVE  LetsGo
  BY <1>6 DEF GoTo
<1>7. ASSUME NEW w \in Workers, NEW v,
             pc[w] # "idle", Conclude(w, v),
             UNCHANGED <<up, handlerVars, verdict, queueVars>>
      PROVE  LetsGo
  BY <1>7 DEF Conclude
<1>8. ASSUME NEW w \in Workers,
             pc[w] # "idle", Finish(w),
             UNCHANGED <<up, handlerVars, verdict, queueVars>>
      PROVE  LetsGo
  BY <1>8 DEF Finish
<1> HIDE DEF TypeOK, LetsGo
<1>9. ASSUME NEW w \in Workers, Ack(w) PROVE LetsGo
  BY <1>6, <1>9 DEF Ack
<1>10. ASSUME NEW w \in Workers, GetSubmission(w) PROVE LetsGo
  BY <1>6, <1>7, <1>8, <1>10 DEF GetSubmission
<1>11. ASSUME NEW w \in Workers,
              GetTestCases(w) \/ GetSystemCode(w) \/ GetLanguageImports(w)
       PROVE  LetsGo
  BY <1>6, <1>7, <1>11
     DEF GetTestCases, GetSystemCode, GetLanguageImports, Fetch
<1>12. ASSUME NEW w \in Workers, Execute(w) PROVE LetsGo
  BY <1>6, <1>7, <1>12 DEF Execute
<1>13. ASSUME UNCHANGED vars PROVE LetsGo
  BY <1>13 DEF vars, TypeOK, LetsGo
<1>. QED
  BY <1>1, <1>2, <1>3, <1>4, <1>5, <1>9, <1>10, <1>11, <1>12, <1>13

LEMMA InsertStep ==
  ASSUME IInv, TypeOK', NEW s \in Submissions, NEW l \in Languages, Insert(s, l)
  PROVE  IInv'
<1> USE DEF IInv, TypeOK, Insert, handlerVars, queueVars, workerVars
<1>1. PublishedOnce' /\ HeldIsDelivered' /\ OneWorkerPerEntry'
  BY DEF PublishedOnce, HeldIsDelivered, OneWorkerPerEntry
<1>2. PublishedByHandler'
  BY DEF PublishedByHandler
<1>3. DecidedIsOver'
  BY VerdictFacts DEF DecidedIsOver, Decided
<1>4. RowFollowsRequest'
  BY VerdictFacts DEF RowFollowsRequest
<1>. QED
  BY <1>1, <1>2, <1>3, <1>4

LEMMA EnqueueStep ==
  ASSUME IInv, TypeOK', "xaddRetry" \notin Faults,
         NEW s \in Submissions, Enqueue(s)
  PROVE  IInv'
<1> USE DEF IInv
<1>1. stream \in Seq(Submissions) /\ Len(stream) \in Nat
  BY DEF TypeOK
<1>2. /\ request[s] = "inserted"
      /\ request' \in {[request EXCEPT ![s] = "queued"],
                       [request EXCEPT ![s] = "refused"]}
      /\ UNCHANGED <<verdict, lastDelivered, pc, job>>
  BY DEF Enqueue, workerVars
<1>3. stream' = stream \/ stream' = Append(stream, s)
  BY DEF Enqueue
<1>4. /\ Len(stream') \in Nat
      /\ \A i \in 1 .. Len(stream) : stream'[i] = stream[i]
      /\ \A i \in 1 .. Len(stream') :
           i \in 1 .. Len(stream) \/ (i = Len(stream) + 1 /\ stream'[i] = s)
  BY <1>1, <1>3
<1>5. \A i \in 1 .. Len(stream) : stream[i] # s /\ stream[i] \in Submissions
  BY <1>1, <1>2 DEF PublishedByHandler
<1>6. /\ request'[s] \notin {"new", "inserted"}
      /\ \A r \in Submissions \ {s} : request'[r] = request[r]
  BY <1>2 DEF TypeOK
<1>7. PublishedOnce'
  BY <1>4, <1>5 DEF PublishedOnce
<1>8. PublishedByHandler'
  <2> SUFFICES ASSUME NEW i \in 1 .. Len(stream')
               PROVE  request'[stream'[i]] \notin {"new", "inserted"}
    BY DEF PublishedByHandler
  <2>1. CASE i \in 1 .. Len(stream)
    BY <1>4, <1>5, <1>6, <2>1 DEF PublishedByHandler
  <2>2. CASE stream'[i] = s
    BY <1>6, <2>2
  <2>. QED
    BY <1>4, <2>1, <2>2
<1>9. HeldIsDelivered' /\ OneWorkerPerEntry'
  BY <1>2 DEF HeldIsDelivered, OneWorkerPerEntry
<1>10. ASSUME NEW r \in Submissions, Decided(r)'
       PROVE  /\ request'[r] \notin {"new", "inserted"}
              /\ \A w \in Workers : pc'[w] # "idle" => stream'[job'[w]] # r
              /\ lastDelivered' # NoGroup =>
                   \A i \in 1 .. Len(stream') :
                     stream'[i] = r => i <= lastDelivered'
  <2>1. Decided(r) /\ r # s
    BY <1>2, <1>10 DEF Decided, DecidedIsOver
  <2>2. request'[r] \notin {"new", "inserted"}
    BY <1>6, <2>1 DEF DecidedIsOver
  <2>3. ASSUME NEW w \in Workers, pc'[w] # "idle"
        PROVE  stream'[job'[w]] # r
    <3>1. job[w] \in 1 .. Len(stream) /\ job'[w] = job[w] /\ pc[w] # "idle"
      BY <1>1, <1>2, <2>3 DEF TypeOK
    <3>. QED
      BY <1>4, <2>1, <3>1 DEF DecidedIsOver
  <2>4. ASSUME lastDelivered' # NoGroup, NEW i \in 1 .. Len(stream'),
               stream'[i] = r
        PROVE  i <= lastDelivered'
    <3>1. i \in 1 .. Len(stream) /\ stream[i] = r
      BY <1>4, <2>1, <2>4
    <3>. QED
      BY <1>2, <2>1, <2>4, <3>1 DEF DecidedIsOver
  <2>. QED
    BY <2>2, <2>3, <2>4
<1>11. DecidedIsOver'
  BY <1>10 DEF DecidedIsOver
<1>12. RowFollowsRequest'
  BY <1>2 DEF RowFollowsRequest, TypeOK
<1>. QED
  BY <1>7, <1>8, <1>9, <1>11, <1>12

LEMMA ReadStep ==
  ASSUME IInv, TypeOK', NEW w \in Workers, Read(w)
  PROVE  IInv'
<1> USE DEF IInv
<1> DEFINE e == lastDelivered + 1
<1>1. /\ pc[w] = "idle"
      /\ lastDelivered \in Nat
      /\ lastDelivered' = e
      /\ e \in 1 .. Len(stream)
      /\ job' = [job EXCEPT ![w] = e]
      /\ pc' = [pc EXCEPT ![w] = "ack"]
      /\ UNCHANGED <<request, verdict, stream>>
  BY DEF Read, Deliverable, TypeOK, NoGroup, handlerVars
<1>2. /\ job'[w] = e
      /\ \A v \in Workers \ {w} : job'[v] = job[v] /\ pc'[v] = pc[v]
      /\ \A v \in Workers : job[v] \in Nat
  BY <1>1 DEF TypeOK
<1> HIDE DEF e
<1>3. \A v \in Workers : pc[v] # "idle" => job[v] <= lastDelivered
  BY <1>1 DEF HeldIsDelivered, NoGroup
<1>4. e > lastDelivered /\ e \in Nat
  BY <1>1 DEF e
<1>5. PublishedOnce' /\ PublishedByHandler' /\ RowFollowsRequest'
  BY <1>1 DEF PublishedOnce, PublishedByHandler, RowFollowsRequest
<1>6. HeldIsDelivered'
  BY <1>1, <1>2, <1>3, <1>4 DEF HeldIsDelivered
<1>7. OneWorkerPerEntry'
  <2> SUFFICES ASSUME NEW u \in Workers, NEW v \in Workers,
                      pc'[u] # "idle", pc'[v] # "idle", job'[u] = job'[v]
               PROVE  u = v
    BY DEF OneWorkerPerEntry
  <2>1. CASE u # w /\ v # w
    BY <1>2, <2>1 DEF OneWorkerPerEntry
  <2>2. CASE u = w /\ v # w
    BY <1>1, <1>2, <1>3, <1>4, <2>2
  <2>3. CASE u # w /\ v = w
    BY <1>1, <1>2, <1>3, <1>4, <2>3
  <2>. QED
    BY <2>1, <2>2, <2>3
<1>8. ASSUME NEW r \in Submissions, Decided(r)'
      PROVE  /\ request'[r] \notin {"new", "inserted"}
             /\ \A v \in Workers : pc'[v] # "idle" => stream'[job'[v]] # r
             /\ lastDelivered' # NoGroup =>
                  \A i \in 1 .. Len(stream') :
                    stream'[i] = r => i <= lastDelivered'
  <2>1. Decided(r)
    BY <1>1, <1>8 DEF Decided
  <2>2. request[r] \notin {"new", "inserted"}
    BY <2>1 DEF DecidedIsOver
  <2>3. \A i \in 1 .. Len(stream) : stream[i] = r => i <= lastDelivered
    BY <1>1, <2>1 DEF DecidedIsOver, NoGroup
  <2>4. stream[e] # r
    BY <1>1, <1>4, <2>3
  <2>5. ASSUME NEW v \in Workers, pc'[v] # "idle"
        PROVE  stream'[job'[v]] # r
    <3>1. CASE v = w
      BY <1>1, <1>2, <2>4, <3>1
    <3>2. CASE v # w
      BY <1>1, <1>2, <2>1, <2>5, <3>2 DEF DecidedIsOver
    <3>. QED
      BY <3>1, <3>2
  <2>. QED
    BY <1>1, <1>4, <2>2, <2>3, <2>5
<1>9. DecidedIsOver'
  BY <1>8 DEF DecidedIsOver
<1>. QED
  BY <1>5, <1>6, <1>7, <1>9

\* The one step that decides: the submission of the entry the worker held is
\* in PROCESSING, and nobody else holds it or will be handed it.
LEMMA UpdateStep ==
  ASSUME IInv, TypeOK', NEW w \in Workers, UpdateSubmissionStatus(w)
  PROVE  /\ IInv'
         /\ verdict[stream[job[w]]] = Processing
<1> USE DEF IInv
<1> DEFINE q == stream[job[w]]
<1>1. /\ pc[w] = "update"
      /\ job[w] \in 1 .. Len(stream)
      /\ q \in Submissions
      /\ result[w] \in Verdicts
      /\ UNCHANGED <<request, stream, lastDelivered>>
      /\ pc' = [pc EXCEPT ![w] = "idle"]
      /\ job' = [job EXCEPT ![w] = 0]
      /\ verdict' = verdict \/ verdict' = [verdict EXCEPT ![q] = result[w]]
  BY DEF UpdateSubmissionStatus, Finish, TypeOK, handlerVars, queueVars
<1>2. /\ pc'[w] = "idle"
      /\ \A v \in Workers \ {w} : job'[v] = job[v] /\ pc'[v] = pc[v]
  BY <1>1 DEF TypeOK
<1>3. request[q] \notin {"new", "inserted"}
  BY <1>1 DEF PublishedByHandler
<1>4. ~Decided(q)
  BY <1>1 DEF DecidedIsOver
<1>5. verdict[q] = Processing
  BY <1>1, <1>3, <1>4 DEF RowFollowsRequest, Decided, TypeOK
<1>6. PublishedOnce' /\ PublishedByHandler'
  BY <1>1 DEF PublishedOnce, PublishedByHandler
<1>7. HeldIsDelivered' /\ OneWorkerPerEntry'
  BY <1>1, <1>2 DEF HeldIsDelivered, OneWorkerPerEntry
<1>8. \A r \in Submissions \ {q} : verdict'[r] = verdict[r]
  BY <1>1 DEF TypeOK
<1>9. verdict'[q] = verdict[q] \/ verdict'[q] \in Verdicts
  BY <1>1 DEF TypeOK
<1> HIDE DEF q
<1>10. ASSUME NEW v \in Workers \ {w}, pc[v] # "idle"
       PROVE  stream[job[v]] # q
  <2>1. job[v] \in 1 .. Len(stream)
    BY <1>10 DEF TypeOK
  <2>2. job[v] # job[w]
    BY <1>1, <1>10 DEF OneWorkerPerEntry
  <2>. QED
    BY <1>1, <2>1, <2>2 DEF PublishedOnce, q
<1>11. lastDelivered # NoGroup =>
         \A i \in 1 .. Len(stream) : stream[i] = q => i <= lastDelivered
  BY <1>1 DEF HeldIsDelivered, PublishedOnce, q
<1>12. ASSUME NEW r \in Submissions, Decided(r)'
       PROVE  /\ request'[r] \notin {"new", "inserted"}
              /\ \A v \in Workers : pc'[v] # "idle" => stream'[job'[v]] # r
              /\ lastDelivered' # NoGroup =>
                   \A i \in 1 .. Len(stream') :
                     stream'[i] = r => i <= lastDelivered'
  <2>1. CASE r = q
    BY <1>1, <1>2, <1>3, <1>10, <1>11, <2>1
  <2>2. CASE r # q
    <3>1. Decided(r)
      BY <1>8, <1>12, <2>2 DEF Decided
    <3>. QED
      BY <1>1, <1>2, <3>1 DEF DecidedIsOver
  <2>. QED
    BY <2>1, <2>2
<1>13. DecidedIsOver'
  BY <1>12 DEF DecidedIsOver
<1>14. RowFollowsRequest'
  BY <1>1, <1>3, <1>5, <1>8, <1>9, VerdictFacts DEF RowFollowsRequest
<1>. QED
  BY <1>5, <1>6, <1>7, <1>13, <1>14 DEF q

\* IInv is inductive as long as no XADD is repeated.
LEMMA IInvStep ==
  ASSUME "xaddRetry" \notin Faults, IInv, [Next]_vars
  PROVE  IInv'
<1>1. TypeOK'
  BY TypeStep DEF IInv
<1>2. CASE LetsGo
  BY <1>1, <1>2, LetsGoStep
<1>3. ASSUME NEW s \in Submissions, NEW l \in Languages, Insert(s, l)
      PROVE  IInv'
  BY <1>1, <1>3, InsertStep
<1>4. ASSUME NEW s \in Submissions, Enqueue(s)
      PROVE  IInv'
  BY <1>1, <1>4, EnqueueStep
<1>5. ASSUME NEW w \in Workers, Read(w)
      PROVE  IInv'
  BY <1>1, <1>5, ReadStep
<1>6. ASSUME NEW w \in Workers, UpdateSubmissionStatus(w)
      PROVE  IInv'
  BY <1>1, <1>6, UpdateStep
<1>. QED
  BY <1>2, <1>3, <1>4, <1>5, <1>6, LetsGoSteps DEF IInv, Next, Handle, ProcessJob

LEMMA IInvInit == Init => IInv
<1> SUFFICES ASSUME Init
             PROVE  IInv
  OBVIOUS
<1>1. Len(stream) = 0 /\ lastDelivered = NoGroup
  BY DEF Init
<1>2. TypeOK
  BY TypeInit
<1>3. PublishedOnce /\ PublishedByHandler
  BY <1>1 DEF PublishedOnce, PublishedByHandler
<1>4. HeldIsDelivered /\ OneWorkerPerEntry
  BY DEF Init, HeldIsDelivered, OneWorkerPerEntry
<1>5. DecidedIsOver
  BY VerdictFacts DEF Init, DecidedIsOver, Decided
<1>6. RowFollowsRequest
  BY DEF Init, RowFollowsRequest
<1>. QED
  BY <1>2, <1>3, <1>4, <1>5, <1>6 DEF IInv

\* The invariant says more than the property the runs check.
LEMMA IInvJudgedAtMostOnce == IInv => JudgedAtMostOnce
<1> SUFFICES ASSUME IInv, NEW s \in Submissions
             PROVE  /\ \A v, w \in Workers :
                         /\ pc[v] # "idle" /\ stream[job[v]] = s
                         /\ pc[w] # "idle" /\ stream[job[w]] = s
                         => v = w
                    /\ Held(s) => ~Queued(s)
                    /\ Decided(s) => ~Held(s) /\ ~Queued(s)
  BY DEF JudgedAtMostOnce
<1> USE DEF IInv
<1>1. \A w \in Workers : pc[w] # "idle" => job[w] \in 1 .. Len(stream)
  BY DEF TypeOK
<1>2. lastDelivered # NoGroup => lastDelivered \in Nat
  BY DEF TypeOK, NoGroup
<1>3. \A v, w \in Workers :
        /\ pc[v] # "idle" /\ stream[job[v]] = s
        /\ pc[w] # "idle" /\ stream[job[w]] = s
        => v = w
  BY <1>1 DEF PublishedOnce, OneWorkerPerEntry
<1>4. ASSUME Held(s), Queued(s)
      PROVE  FALSE
  <2>1. PICK w \in Workers : pc[w] # "idle" /\ stream[job[w]] = s
    BY <1>4 DEF Held
  <2>2. PICK i \in 1 .. Len(stream) : i > lastDelivered /\ stream[i] = s
    BY <1>4 DEF Queued
  <2>3. lastDelivered # NoGroup
    BY <1>4 DEF Queued
  <2>4. i = job[w]
    BY <1>1, <2>1, <2>2 DEF PublishedOnce
  <2>. QED
    BY <1>2, <2>1, <2>2, <2>3, <2>4 DEF HeldIsDelivered
<1>5. ASSUME Decided(s)
      PROVE  ~Held(s) /\ ~Queued(s)
  <2>1. ~Held(s)
    BY <1>5 DEF Held, DecidedIsOver
  <2>2. ~Queued(s)
    BY <1>2, <1>5 DEF Queued, DecidedIsOver
  <2>. QED
    BY <2>1, <2>2
<1>. QED
  BY <1>3, <1>4, <1>5

\* No submission is judged twice (JudgedAtMostOnce of JudgePipeline), however
\* many submissions and workers there are and whatever else fails, provided
\* the Redis client does not repeat XADD.
THEOREM AtMostOnce ==
  ASSUME "xaddRetry" \notin Faults
  PROVE  Spec => []JudgedAtMostOnce
<1>1. Init => IInv
  BY IInvInit
<1>2. IInv /\ [Next]_vars => IInv'
  BY IInvStep
<1>3. IInv => JudgedAtMostOnce
  BY IInvJudgedAtMostOnce
<1>. QED
  BY <1>1, <1>2, <1>3, PTL DEF Spec
-----------------------------------------------------------------------------
(* What holds of the entries even when XADD is repeated: one worker at most  *)
(* gets an entry, and the entries of a submission are bounded by the number  *)
(* of attempts.                                                              *)

\* The attempts of XADD that publish and are repeated.
Retries == IF "xaddRetry" \in Faults THEN MaxRetries ELSE 0

NewIsUnpublished == \A i \in 1 .. Len(stream) : request[stream[i]] # "new"

FewEntries ==
  \A s \in Submissions :
    /\ Cardinality(Entries(s)) <= Retries + 1
    /\ request[s] \in {"new", "inserted"} => Cardinality(Entries(s)) <= Retries

EntriesInv ==
  /\ TypeOK
  /\ NewIsUnpublished
  /\ FewEntries
  /\ HeldIsDelivered
  /\ OneWorkerPerEntry

LEMMA RetriesType == Retries \in Nat
BY MaxRetriesAssumption DEF Retries

LEMMA EntriesFinite ==
  ASSUME stream \in Seq(Submissions), NEW s
  PROVE  /\ IsFiniteSet(Entries(s))
         /\ Cardinality(Entries(s)) \in Nat
<1>1. Len(stream) \in Nat
  OBVIOUS
<1>2. IsFiniteSet(1 .. Len(stream))
  BY <1>1, FS_Interval
<1>3. Entries(s) \in SUBSET (1 .. Len(stream))
  BY DEF Entries
<1>. QED
  BY <1>2, <1>3, FS_Subset, FS_CardinalityType

\* A submission that is not published has no entry.
LEMMA NoEntries ==
  ASSUME NEW s, \A i \in 1 .. Len(stream) : stream[i] # s
  PROVE  Cardinality(Entries(s)) = 0
<1>1. Entries(s) = {}
  BY DEF Entries
<1>. QED
  BY <1>1, FS_EmptySet

\* One more entry, of s and of nobody else.
LEMMA EntriesGrow ==
  ASSUME stream \in Seq(Submissions), NEW s \in Submissions,
         stream' = Append(stream, s), NEW r \in Submissions
  PROVE  Cardinality(Entries(r)') =
           IF r = s THEN Cardinality(Entries(r)) + 1 ELSE Cardinality(Entries(r))
<1>1. /\ Len(stream) \in Nat
      /\ Len(stream') = Len(stream) + 1
      /\ \A i \in 1 .. Len(stream) : stream'[i] = stream[i]
      /\ stream'[Len(stream) + 1] = s
  OBVIOUS
<1>2. CASE r = s
  <2>1. Entries(r)' = Entries(r) \cup {Len(stream) + 1}
    BY <1>1, <1>2 DEF Entries
  <2>2. Len(stream) + 1 \notin Entries(r)
    BY <1>1 DEF Entries
  <2>. QED
    BY <1>2, <2>1, <2>2, EntriesFinite, FS_AddElement
<1>3. CASE r # s
  <2>1. Entries(r)' = Entries(r)
    BY <1>1, <1>3 DEF Entries
  <2>. QED
    BY <1>3, <2>1
<1>. QED
  BY <1>2, <1>3

LEMMA EntriesLetsGo ==
  ASSUME EntriesInv, TypeOK', LetsGo
  PROVE  EntriesInv'
<1> USE DEF EntriesInv
<1>1. NewIsUnpublished'
  BY DEF LetsGo, NewIsUnpublished, TypeOK
<1>2. FewEntries'
  <2> SUFFICES ASSUME NEW s \in Submissions
               PROVE  /\ Cardinality(Entries(s)') <= Retries + 1
                      /\ request'[s] \in {"new", "inserted"} =>
                           Cardinality(Entries(s)') <= Retries
    BY DEF FewEntries, Retries
  <2>1. Entries(s)' = Entries(s)
    BY DEF LetsGo, Entries
  <2>2. request'[s] \in {"new", "inserted"} => request[s] \in {"new", "inserted"}
    BY DEF LetsGo
  <2>. QED
    BY <2>1, <2>2 DEF FewEntries
<1>3. HeldIsDelivered'
  BY DEF LetsGo, HeldIsDelivered, TypeOK, NoGroup
<1>4. OneWorkerPerEntry'
  BY DEF LetsGo, OneWorkerPerEntry
<1>. QED
  BY <1>1, <1>2, <1>3, <1>4

LEMMA EntriesEnqueue ==
  ASSUME EntriesInv, TypeOK', NEW s \in Submissions, Enqueue(s)
  PROVE  EntriesInv'
<1> USE DEF EntriesInv
<1>1. stream \in Seq(Submissions) /\ Len(stream) \in Nat
  BY DEF TypeOK
<1>2. /\ request[s] = "inserted"
      /\ request' \in {request, [request EXCEPT ![s] = "queued"],
                       [request EXCEPT ![s] = "refused"]}
      /\ UNCHANGED <<lastDelivered, pc, job>>
      /\ stream' = stream \/ stream' = Append(stream, s)
  BY DEF Enqueue, workerVars
<1>3. \A r \in Submissions \ {s} : request'[r] = request[r]
  BY <1>2 DEF TypeOK
<1>4. request'[s] \in {"inserted", "queued", "refused"}
  BY <1>2 DEF TypeOK
<1>5. \A i \in 1 .. Len(stream') :
        \/ i \in 1 .. Len(stream) /\ stream'[i] = stream[i]
        \/ stream'[i] = s
  BY <1>1, <1>2
<1>6. NewIsUnpublished'
  <2> SUFFICES ASSUME NEW i \in 1 .. Len(stream')
               PROVE  request'[stream'[i]] # "new"
    BY DEF NewIsUnpublished
  <2>1. CASE stream'[i] = s
    BY <1>4, <2>1
  <2>2. CASE stream'[i] # s
    <3>1. stream'[i] = stream[i] /\ i \in 1 .. Len(stream)
      BY <1>5, <2>2
    <3>2. stream[i] \in Submissions /\ request[stream[i]] # "new"
      BY <1>1, <3>1 DEF NewIsUnpublished
    <3>. QED
      BY <1>3, <2>2, <3>1, <3>2
  <2>. QED
    BY <2>1, <2>2
<1>7. FewEntries'
  <2> SUFFICES ASSUME NEW r \in Submissions
               PROVE  /\ Cardinality(Entries(r)') <= Retries + 1
                      /\ request'[r] \in {"new", "inserted"} =>
                           Cardinality(Entries(r)') <= Retries
    BY DEF FewEntries, Retries
  <2>0. Cardinality(Entries(r)) \in Nat /\ Retries \in Nat
    BY <1>1, EntriesFinite, RetriesType
  <2>1. CASE stream' = stream
    <3>1. Entries(r)' = Entries(r)
      BY <2>1 DEF Entries
    <3>2. request'[r] \in {"new", "inserted"} => request[r] \in {"new", "inserted"}
      BY <1>2, <1>3
    <3>. QED
      BY <3>1, <3>2 DEF FewEntries
  <2>2. CASE stream' = Append(stream, s) /\ r # s
    BY <1>1, <1>3, <2>2, EntriesGrow DEF FewEntries
  <2>3. CASE stream' = Append(stream, s) /\ r = s
    <3>1. Cardinality(Entries(r)') = Cardinality(Entries(r)) + 1
      BY <1>1, <2>3, EntriesGrow
    <3>2. Cardinality(Entries(r)) <= Retries
      BY <1>2, <2>3 DEF FewEntries
    <3>3. request'[r] \in {"new", "inserted"} =>
            Cardinality(Entries(r)) < Retries
      <4>1. stream' # stream
        BY <1>1, <2>3
      <4>2. request'[s] \notin {"queued", "refused"} =>
              "xaddRetry" \in Faults /\ Cardinality(Entries(s)) < MaxRetries
        BY <4>1 DEF Enqueue, TypeOK
      <4>. QED
        BY <2>3, <4>2 DEF Retries
    <3>. QED
      BY <2>0, <3>1, <3>2, <3>3
  <2>. QED
    BY <1>2, <2>1, <2>2, <2>3
<1>8. HeldIsDelivered' /\ OneWorkerPerEntry'
  BY <1>2 DEF HeldIsDelivered, OneWorkerPerEntry
<1>. QED
  BY <1>6, <1>7, <1>8

LEMMA EntriesRead ==
  ASSUME EntriesInv, TypeOK', NEW w \in Workers, Read(w)
  PROVE  EntriesInv'
<1> USE DEF EntriesInv
<1>1. /\ pc[w] = "idle" /\ lastDelivered \in Nat
      /\ lastDelivered' = lastDelivered + 1
      /\ job' = [job EXCEPT ![w] = lastDelivered + 1]
      /\ pc' = [pc EXCEPT ![w] = "ack"]
      /\ UNCHANGED <<request, stream>>
  BY DEF Read, Deliverable, TypeOK, NoGroup, handlerVars
<1>2. /\ job'[w] = lastDelivered + 1
      /\ \A v \in Workers \ {w} : job'[v] = job[v] /\ pc'[v] = pc[v]
      /\ \A v \in Workers : job[v] \in Nat
  BY <1>1 DEF TypeOK
<1>3. \A v \in Workers : pc[v] # "idle" => job[v] <= lastDelivered
  BY <1>1 DEF HeldIsDelivered, NoGroup
<1>4. FewEntries' /\ NewIsUnpublished'
  BY <1>1 DEF FewEntries, NewIsUnpublished, Entries, Retries
<1>5. HeldIsDelivered'
  BY <1>1, <1>2, <1>3 DEF HeldIsDelivered
<1>6. \A v \in Workers \ {w} : pc'[v] # "idle" => job'[v] # job'[w]
  BY <1>1, <1>2, <1>3
<1>7. OneWorkerPerEntry'
  BY <1>2, <1>6 DEF OneWorkerPerEntry
<1>. QED
  BY <1>4, <1>5, <1>7

LEMMA EntriesStep == EntriesInv /\ [Next]_vars => EntriesInv'
<1> SUFFICES ASSUME EntriesInv, [Next]_vars
             PROVE  EntriesInv'
  OBVIOUS
<1>1. TypeOK /\ TypeOK'
  BY TypeStep DEF EntriesInv
<1>2. CASE LetsGo
  BY <1>1, <1>2, EntriesLetsGo
<1>3. ASSUME NEW s \in Submissions, NEW l \in Languages, Insert(s, l)
      PROVE  EntriesInv'
  <2> USE DEF EntriesInv
  <2>1. /\ UNCHANGED <<stream, lastDelivered, pc, job>>
        /\ request[s] = "new"
        /\ \A r \in Submissions \ {s} : request'[r] = request[r]
    BY <1>1, <1>3 DEF Insert, TypeOK, queueVars, workerVars
  <2>2. HeldIsDelivered' /\ OneWorkerPerEntry'
    BY <2>1 DEF HeldIsDelivered, OneWorkerPerEntry
  <2>3. \A i \in 1 .. Len(stream) : stream[i] \in Submissions \ {s}
    BY <1>1, <2>1 DEF TypeOK, NewIsUnpublished
  <2>4. NewIsUnpublished'
    BY <2>1, <2>3 DEF NewIsUnpublished
  <2>5. FewEntries'
    <3> SUFFICES ASSUME NEW r \in Submissions
                 PROVE  /\ Cardinality(Entries(r)') <= Retries + 1
                        /\ request'[r] \in {"new", "inserted"} =>
                             Cardinality(Entries(r)') <= Retries
      BY DEF FewEntries, Retries
    <3>1. Entries(r)' = Entries(r)
      BY <2>1 DEF Entries
    <3>2. CASE r = s
      BY <2>3, <3>1, <3>2, NoEntries, RetriesType
    <3>3. CASE r # s
      BY <2>1, <3>1, <3>3 DEF FewEntries
    <3>. QED
      BY <3>2, <3>3
  <2>. QED
    BY <1>1, <2>2, <2>4, <2>5
<1>4. ASSUME NEW s \in Submissions, Enqueue(s)
      PROVE  EntriesInv'
  BY <1>1, <1>4, EntriesEnqueue
<1>5. ASSUME NEW w \in Workers, Read(w)
      PROVE  EntriesInv'
  BY <1>1, <1>5, EntriesRead
<1>6. ASSUME NEW w \in Workers, UpdateSubmissionStatus(w)
      PROVE  EntriesInv'
  BY <1>1, <1>6
     DEF UpdateSubmissionStatus, Finish, EntriesInv, FewEntries, Entries,
         NewIsUnpublished, HeldIsDelivered, OneWorkerPerEntry, TypeOK, Retries,
         handlerVars, queueVars
<1>. QED
  BY <1>1, <1>2, <1>3, <1>4, <1>5, <1>6, LetsGoSteps DEF Next, Handle, ProcessJob

LEMMA EntriesInit == Init => EntriesInv
<1> SUFFICES ASSUME Init
             PROVE  EntriesInv
  OBVIOUS
<1>1. Len(stream) = 0
  BY DEF Init
<1>2. \A j \in 1 .. Len(stream) : FALSE
  BY <1>1
<1>3. FewEntries /\ NewIsUnpublished
  BY <1>2, NoEntries, RetriesType DEF FewEntries, NewIsUnpublished
<1>4. HeldIsDelivered /\ OneWorkerPerEntry
  BY DEF Init, HeldIsDelivered, OneWorkerPerEntry
<1>. QED
  BY <1>3, <1>4, TypeInit DEF EntriesInv
-----------------------------------------------------------------------------
(* The pipeline implements SubmissionLifecycle *)

LEMMA LifecycleInit == Init => Lifecycle!Init
BY DEF Init, Lifecycle!Init, Lifecycle!Absent, Lifecycle!Column, Lifecycle!Nil,
       Absent, Column, Nil

\* The abstract columns are the concrete ones.
LEMMA LifecycleColumns ==
  /\ Lifecycle!Absent = Absent
  /\ Lifecycle!Processing = Processing
  /\ Lifecycle!Verdicts = Verdicts
BY DEF Lifecycle!Absent, Lifecycle!Processing, Lifecycle!Verdicts,
       Lifecycle!FinalStatuses, Lifecycle!ProgramOutputs, Lifecycle!Column,
       Lifecycle!WorkerMessages, Lifecycle!Nil, Absent, Processing, Verdicts,
       FinalStatuses, ProgramOutputs, Column, WorkerMessages, Nil

AcceptedSet == {s \in Submissions : request[s] = "accepted"}

\* A step that writes no row and answers nobody is a stutter.
LEMMA LifecycleStutter ==
  ASSUME UNCHANGED verdict,
         \A s \in Submissions : request'[s] = "accepted" <=> request[s] = "accepted"
  PROVE  UNCHANGED Lifecycle!vars
BY DEF Lifecycle!vars

LEMMA LifecycleStep ==
  ASSUME "xaddRetry" \notin Faults, IInv, [Next]_vars
  PROVE  [Lifecycle!Next]_(Lifecycle!vars)
<1> USE DEF IInv
<1>1. CASE StartPool \/ Flush \/ UNCHANGED vars
  BY <1>1, LifecycleStutter DEF StartPool, Flush, vars, handlerVars
<1>2. CASE Crash
  <2>1. UNCHANGED verdict /\
        \A s \in Submissions : request'[s] = "accepted" <=> request[s] = "accepted"
    BY <1>2 DEF Crash, TypeOK
  <2>. QED
    BY <2>1, LifecycleStutter
<1>3. ASSUME NEW s \in Submissions, NEW l \in Languages, Insert(s, l)
      PROVE  Lifecycle!Next
  <2>1. /\ verdict[s] = Absent
        /\ verdict' = [verdict EXCEPT ![s] = Processing]
    BY <1>3 DEF Insert, RowFollowsRequest
  <2>2. AcceptedSet' = AcceptedSet
    BY <1>3 DEF Insert, TypeOK, AcceptedSet
  <2>. QED
    BY <2>1, <2>2, LifecycleColumns
       DEF Lifecycle!Next, Lifecycle!Record, AcceptedSet
<1>4. ASSUME NEW s \in Submissions, Enqueue(s)
      PROVE  UNCHANGED Lifecycle!vars
  <2>1. UNCHANGED verdict /\
        \A r \in Submissions : request'[r] = "accepted" <=> request[r] = "accepted"
    BY <1>4 DEF Enqueue, TypeOK
  <2>. QED
    BY <2>1, LifecycleStutter
<1>5. ASSUME NEW s \in Submissions, Respond(s)
      PROVE  Lifecycle!Next
  <2>1. verdict[s] # Absent /\ UNCHANGED verdict
    BY <1>5 DEF Respond, RowFollowsRequest
  <2>2. AcceptedSet' = AcceptedSet \cup {s}
    BY <1>5 DEF Respond, TypeOK, AcceptedSet
  <2>. QED
    BY <2>1, <2>2, LifecycleColumns
       DEF Lifecycle!Next, Lifecycle!Accept, AcceptedSet
<1>6. ASSUME NEW w \in Workers,
             Read(w) \/ LoseRead(w) \/ Ack(w) \/ GetSubmission(w)
               \/ GetTestCases(w) \/ GetSystemCode(w) \/ GetLanguageImports(w)
               \/ Execute(w)
      PROVE  UNCHANGED Lifecycle!vars
  <2>1. UNCHANGED <<verdict, request>>
    BY <1>6 DEF Read, LoseRead, Ack, GetSubmission, GetTestCases,
                GetSystemCode, GetLanguageImports, Fetch, Execute, handlerVars
  <2>. QED
    BY <2>1, LifecycleStutter
<1>7. ASSUME NEW w \in Workers, UpdateSubmissionStatus(w)
      PROVE  [Lifecycle!Next]_(Lifecycle!vars)
  <2>1. UNCHANGED request
    BY <1>7 DEF UpdateSubmissionStatus, handlerVars
  <2>2. CASE UNCHANGED verdict
    BY <2>1, <2>2, LifecycleStutter
  <2>3. CASE verdict' = [verdict EXCEPT ![stream[job[w]]] = result[w]]
    <3>1. /\ stream[job[w]] \in Submissions
          /\ result[w] \in Verdicts
      BY <1>7 DEF UpdateSubmissionStatus, TypeOK
    <3>2. verdict[stream[job[w]]] = Processing
      BY <1>7, UpdateStep, TypeStep
    <3>3. Lifecycle!Decide(stream[job[w]])
      BY <2>1, <2>3, <3>1, <3>2, LifecycleColumns DEF Lifecycle!Decide
    <3>. QED
      BY <3>1, <3>3 DEF Lifecycle!Next
  <2>. QED
    BY <1>7, <2>2, <2>3 DEF UpdateSubmissionStatus
<1>. QED
  BY <1>1, <1>2, <1>3, <1>4, <1>5, <1>6, <1>7 DEF Next, Handle, ProcessJob

\* The pipeline implements the life cycle of SubmissionLifecycle, for every
\* failure but a repeated XADD: a row is decided once, for good, and only a
\* recorded submission is answered 202.
THEOREM ImplementsLifecycle ==
  ASSUME "xaddRetry" \notin Faults
  PROVE  Spec => LifecycleSpec
<1>1. Init => IInv
  BY IInvInit
<1>2. IInv /\ [Next]_vars => IInv'
  BY IInvStep
<1>3. Init => Lifecycle!Init
  BY LifecycleInit
<1>4. IInv /\ [Next]_vars => [Lifecycle!Next]_(Lifecycle!vars)
  BY LifecycleStep
<1>. QED
  BY <1>1, <1>2, <1>3, <1>4, PTL DEF Spec, LifecycleSpec, Lifecycle!Spec
-----------------------------------------------------------------------------
(* Without the failures that lose work, every row in PROCESSING has an owner *)

\* The pool makes the group before the router serves, and the group stays.
GroupBeforeRows ==
  lastDelivered = NoGroup =>
    /\ ~up
    /\ \A s \in Submissions : verdict[s] = Absent
    /\ \A w \in Workers : pc[w] = "idle"

OInv == TypeOK /\ GroupBeforeRows /\ ProcessingHasOwner

\* A step of a worker that keeps its entry.
KeepsEntry(w) ==
  /\ pc[w] # "idle"
  /\ pc' \in [Workers -> PCs]
  /\ pc'[w] # "idle"
  /\ \A v \in Workers \ {w} : pc'[v] = pc[v]
  /\ UNCHANGED <<up, request, verdict, stream, lastDelivered, job>>

LEMMA KeepsEntryStep ==
  ASSUME OInv, TypeOK', NEW w \in Workers, KeepsEntry(w)
  PROVE  OInv'
<1>1. \A v \in Workers : pc'[v] = "idle" <=> pc[v] = "idle"
  BY DEF KeepsEntry
<1>2. GroupBeforeRows'
  BY <1>1 DEF KeepsEntry, OInv, GroupBeforeRows
<1>3. \A s \in Submissions : Held(s) => Held(s)'
  BY <1>1 DEF KeepsEntry, Held
<1>4. \A s \in Submissions : Queued(s) => Queued(s)'
  BY DEF KeepsEntry, Queued
<1>5. ProcessingHasOwner'
  BY <1>3, <1>4 DEF KeepsEntry, OInv, ProcessingHasOwner
<1>. QED
  BY <1>2, <1>5 DEF OInv

\* The calls of processCodeJob before the update.
LEMMA KeepsEntrySteps ==
  ASSUME TypeOK, TypeOK', "load" \notin Faults, NEW w \in Workers,
         \/ Ack(w)
         \/ GetSubmission(w)
         \/ GetTestCases(w)
         \/ GetSystemCode(w)
         \/ GetLanguageImports(w)
         \/ Execute(w)
  PROVE  KeepsEntry(w)
<1>1. /\ pc[w] # "idle"
      /\ UNCHANGED <<up, request, verdict, stream, lastDelivered>>
  BY DEF Ack, GetSubmission, GetTestCases, GetSystemCode, GetLanguageImports,
         Fetch, Execute, handlerVars, queueVars
<1>2. \/ \E label \in PCs \ {"idle"} : GoTo(w, label)
      \/ \E v : Conclude(w, v)
  BY DEF Ack, GetSubmission, GetTestCases, GetSystemCode, GetLanguageImports,
         Fetch, Execute, PCs
<1>3. ASSUME NEW label \in PCs \ {"idle"}, GoTo(w, label)
      PROVE  KeepsEntry(w)
  BY <1>1, <1>3 DEF KeepsEntry, GoTo, TypeOK
<1>4. ASSUME NEW v, Conclude(w, v)
      PROVE  KeepsEntry(w)
  BY <1>1, <1>4 DEF KeepsEntry, Conclude, TypeOK
<1>. QED
  BY <1>2, <1>3, <1>4

LEMMA OInvInsert ==
  ASSUME OInv, TypeOK', "insertLost" \notin Faults,
         NEW s \in Submissions, NEW l \in Languages, Insert(s, l)
  PROVE  OInv'
<1>1. /\ up
      /\ request' = [request EXCEPT ![s] = "inserted"]
      /\ verdict' = [verdict EXCEPT ![s] = Processing]
      /\ UNCHANGED <<up, stream, lastDelivered, pc, job>>
  BY DEF Insert, queueVars, workerVars
<1>2. GroupBeforeRows'
  BY <1>1 DEF OInv, GroupBeforeRows
<1>3. ASSUME NEW r \in Submissions, verdict'[r] = Processing
      PROVE  request'[r] = "inserted" \/ Queued(r)' \/ Held(r)'
  <2>1. CASE r = s
    BY <1>1, <2>1 DEF OInv, TypeOK
  <2>2. CASE r # s
    <3>1. verdict[r] = Processing /\ request'[r] = request[r]
      BY <1>1, <1>3, <2>2 DEF OInv, TypeOK
    <3>2. request[r] = "inserted" \/ Queued(r) \/ Held(r)
      BY <3>1 DEF OInv, ProcessingHasOwner
    <3>. QED
      BY <1>1, <3>1, <3>2 DEF Queued, Held
  <2>. QED
    BY <2>1, <2>2
<1>. QED
  BY <1>2, <1>3 DEF OInv, ProcessingHasOwner

LEMMA OInvEnqueue ==
  ASSUME OInv, TypeOK', "xadd" \notin Faults,
         NEW s \in Submissions, Enqueue(s)
  PROVE  OInv'
<1> USE DEF OInv
<1>1. /\ request[s] = "inserted"
      /\ \A r \in Submissions \ {s} : request'[r] = request[r]
      /\ UNCHANGED <<up, verdict, lastDelivered, pc, job>>
      /\ stream \in Seq(Submissions)
  BY DEF Enqueue, workerVars, TypeOK
<1>2. /\ Len(stream) \in Nat
      /\ Len(stream') \in Nat
      /\ Len(stream) + 1 \in 1 .. Len(stream')
      /\ stream'[Len(stream) + 1] = s
      /\ \A i \in 1 .. Len(stream) : i \in 1 .. Len(stream') /\ stream'[i] = stream[i]
  <2>1. stream' = Append(stream, s)
    BY DEF Enqueue
  <2>. QED
    BY <1>1, <2>1
<1>3. GroupBeforeRows'
  BY <1>1 DEF GroupBeforeRows
<1>4. lastDelivered \in NoGroup .. Len(stream)
  BY DEF TypeOK
<1>5. ASSUME NEW r \in Submissions, verdict'[r] = Processing
      PROVE  request'[r] = "inserted" \/ Queued(r)' \/ Held(r)'
  <2>1. CASE r = s
    <3>1. lastDelivered # NoGroup
      BY <1>1, <1>5, VerdictFacts DEF GroupBeforeRows
    <3>. QED
      BY <1>1, <1>2, <1>4, <2>1, <3>1 DEF Queued, NoGroup
  <2>2. CASE r # s
    <3>1. request[r] = "inserted" \/ Queued(r) \/ Held(r)
      BY <1>1, <1>5 DEF ProcessingHasOwner
    <3>2. CASE request[r] = "inserted"
      BY <1>1, <2>2, <3>2
    <3>3. CASE Queued(r)
      BY <1>1, <1>2, <3>3 DEF Queued
    <3>4. CASE Held(r)
      <4>1. \A w \in Workers : pc[w] # "idle" => job[w] \in 1 .. Len(stream)
        BY DEF TypeOK
      <4>. QED
        BY <1>1, <1>2, <3>4, <4>1 DEF Held
    <3>. QED
      BY <3>1, <3>2, <3>3, <3>4
  <2>. QED
    BY <2>1, <2>2
<1>. QED
  BY <1>3, <1>5 DEF ProcessingHasOwner

LEMMA OInvRead ==
  ASSUME OInv, TypeOK', NEW w \in Workers, Read(w)
  PROVE  OInv'
<1> USE DEF OInv
<1>1. /\ pc[w] = "idle"
      /\ lastDelivered \in Nat
      /\ lastDelivered' = lastDelivered + 1
      /\ job' = [job EXCEPT ![w] = lastDelivered + 1]
      /\ pc' = [pc EXCEPT ![w] = "ack"]
      /\ UNCHANGED <<up, request, verdict, stream>>
  BY DEF Read, Deliverable, TypeOK, NoGroup, handlerVars
<1>2. /\ job'[w] = lastDelivered + 1
      /\ pc'[w] # "idle"
      /\ \A v \in Workers \ {w} : job'[v] = job[v] /\ pc'[v] = pc[v]
  BY <1>1 DEF TypeOK
<1>3. lastDelivered' # NoGroup
  BY <1>1 DEF NoGroup
<1>4. ASSUME NEW r \in Submissions, verdict'[r] = Processing
      PROVE  request'[r] = "inserted" \/ Queued(r)' \/ Held(r)'
  <2>1. request[r] = "inserted" \/ Queued(r) \/ Held(r)
    BY <1>1, <1>4 DEF ProcessingHasOwner
  <2>2. CASE Held(r)
    BY <1>1, <1>2, <2>2 DEF Held
  <2>3. CASE Queued(r)
    <3>1. PICK i \in 1 .. Len(stream) : i > lastDelivered /\ stream[i] = r
      BY <2>3 DEF Queued
    <3>2. CASE i = lastDelivered + 1
      BY <1>1, <1>2, <3>1, <3>2 DEF Held
    <3>3. CASE i # lastDelivered + 1
      <4>1. i > lastDelivered'
        BY <1>1, <3>1, <3>3
      <4>. QED
        BY <1>1, <1>3, <3>1, <4>1 DEF Queued
    <3>. QED
      BY <3>2, <3>3
  <2>. QED
    BY <1>1, <2>1, <2>2, <2>3
<1>. QED
  BY <1>3, <1>4 DEF GroupBeforeRows, ProcessingHasOwner

LEMMA OInvUpdate ==
  ASSUME OInv, TypeOK', "update" \notin Faults,
         NEW w \in Workers, UpdateSubmissionStatus(w)
  PROVE  OInv'
<1> USE DEF OInv
<1> DEFINE q == stream[job[w]]
<1>1. /\ pc[w] = "update"
      /\ q \in Submissions
      /\ result[w] \in Verdicts
      /\ UNCHANGED <<up, request, stream, lastDelivered>>
      /\ pc' = [pc EXCEPT ![w] = "idle"]
      /\ job' = [job EXCEPT ![w] = 0]
      /\ verdict' = [verdict EXCEPT ![q] = result[w]]
  BY DEF UpdateSubmissionStatus, Finish, TypeOK, handlerVars, queueVars
<1>2. \A v \in Workers \ {w} : job'[v] = job[v] /\ pc'[v] = pc[v]
  BY <1>1 DEF TypeOK
<1>3. verdict'[q] # Processing
  BY <1>1, VerdictFacts DEF TypeOK
<1>4. GroupBeforeRows'
  BY <1>1 DEF GroupBeforeRows
<1>5. ASSUME NEW r \in Submissions, verdict'[r] = Processing
      PROVE  request'[r] = "inserted" \/ Queued(r)' \/ Held(r)'
  <2>1. r # q /\ verdict[r] = Processing
    BY <1>1, <1>3, <1>5 DEF TypeOK
  <2>2. request[r] = "inserted" \/ Queued(r) \/ Held(r)
    BY <2>1 DEF ProcessingHasOwner
  <2>. QED
    BY <1>1, <1>2, <2>1, <2>2 DEF Queued, Held
<1>. QED
  BY <1>4, <1>5 DEF ProcessingHasOwner

LEMMA OInvStep ==
  ASSUME Faults \cap LossyFaults = {}, OInv, [Next]_vars
  PROVE  OInv'
<1>1. /\ TypeOK /\ TypeOK'
      /\ Faults \cap {"insertLost", "xadd", "readLost", "load", "update",
                      "crash", "flush"} = {}
  BY TypeStep DEF OInv, LossyFaults
<1>2. CASE StartPool
  BY <1>1, <1>2, VerdictFacts
     DEF StartPool, OInv, GroupBeforeRows, ProcessingHasOwner, Queued, Held,
         handlerVars, workerVars, TypeOK, NoGroup
<1>3. ~Crash /\ ~Flush /\ \A w \in Workers : ~LoseRead(w)
  BY <1>1 DEF Crash, Flush, LoseRead
<1>4. ASSUME NEW s \in Submissions, NEW l \in Languages, Insert(s, l)
      PROVE  OInv'
  BY <1>1, <1>4, OInvInsert
<1>5. ASSUME NEW s \in Submissions, Enqueue(s)
      PROVE  OInv'
  BY <1>1, <1>5, OInvEnqueue
<1>6. ASSUME NEW s \in Submissions, Respond(s)
      PROVE  OInv'
  <2>1. /\ request[s] = "queued"
        /\ \A r \in Submissions \ {s} : request'[r] = request[r]
        /\ UNCHANGED <<up, verdict, stream, lastDelivered, pc, job>>
    BY <1>1, <1>6 DEF Respond, TypeOK, queueVars, workerVars
  <2>. QED
    BY <1>1, <2>1 DEF OInv, GroupBeforeRows, ProcessingHasOwner, Queued, Held
<1>7. ASSUME NEW w \in Workers, Read(w)
      PROVE  OInv'
  BY <1>1, <1>7, OInvRead
<1>8. ASSUME NEW w \in Workers,
             Ack(w) \/ GetSubmission(w) \/ GetTestCases(w) \/ GetSystemCode(w)
               \/ GetLanguageImports(w) \/ Execute(w)
      PROVE  OInv'
  BY <1>1, <1>8, KeepsEntrySteps, KeepsEntryStep
<1>9. ASSUME NEW w \in Workers, UpdateSubmissionStatus(w)
      PROVE  OInv'
  BY <1>1, <1>9, OInvUpdate
<1>10. CASE UNCHANGED vars
  BY <1>1, <1>10
     DEF vars, OInv, GroupBeforeRows, ProcessingHasOwner, Queued, Held
<1>. QED
  BY <1>2, <1>3, <1>4, <1>5, <1>6, <1>7, <1>8, <1>9, <1>10
     DEF Next, Handle, ProcessJob

\* A row in PROCESSING is always somebody's work (ProcessingHasOwner of
\* JudgePipeline) when none of the failures in LossyFaults happens.  Failed
\* acknowledgements, lost or repeated replies to XADD, failed reads and
\* programs that hang are allowed.
THEOREM NoLossNoOrphan ==
  ASSUME Faults \cap LossyFaults = {}
  PROVE  Spec => []ProcessingHasOwner
<1>1. Init => OInv
  BY TypeInit, VerdictFacts
     DEF Init, OInv, GroupBeforeRows, ProcessingHasOwner
<1>2. OInv /\ [Next]_vars => OInv'
  BY OInvStep
<1>3. OInv => ProcessingHasOwner
  BY DEF OInv
<1>. QED
  BY <1>1, <1>2, <1>3, PTL DEF Spec
=============================================================================
