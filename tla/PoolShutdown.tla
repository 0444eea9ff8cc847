---------------------------- MODULE PoolShutdown ----------------------------
(***************************************************************************)
(* Start and Stop of the worker pool, between the calls that StartGinServer *)
(* makes around them.  Start makes the group and one goroutine after the    *)
(* other; Stop, a deferred call, asks one worker after the other over an    *)
(* unbuffered channel, and the deferred calls after it close Redis and      *)
(* MySQL.  Then the process may be started again: the stream and the group  *)
(* are still there.                                                         *)
(*                                                                         *)
(* What a job does is in JudgePipeline; here it is begun and returns.       *)
(* Today router.Run returns only to log.Fatalf, which runs no deferred      *)
(* call: this module is about the pool as its interface offers it.          *)
(***************************************************************************)
EXTENDS Integers

CONSTANTS NumWorkers,
          MaxEntries,  \* bound on the entries published
          Faults

(***************************************************************************)
(* The failures:                                                            *)
(*   readLost  an entry is delivered but the reply to XREADGROUP is lost    *)
(*   hang      the submitted program does not end                           *)
(***************************************************************************)
FaultKinds == {"readLost", "hang"}

ASSUME FaultsAssumption == Faults \subseteq FaultKinds
ASSUME NumbersAssumption == NumWorkers \in Nat /\ MaxEntries \in Nat

Workers == 1 .. NumWorkers

VARIABLES
  at,            \* where StartGinServer is
  next,          \* the worker that the loop of Start or of Stop is at
  worker,        \* worker[w]: where the goroutine of w is
  job,           \* job[w]: the entry w holds, 0 if none
  late,          \* late[w]: history, the entries w got since Stop waits for it
  stream,        \* how many entries were published
  lastDelivered, \* position of the group, or NoGroup
  finished,      \* the entries whose job has returned
  lost           \* the entries whose delivery was lost

vars == <<at, next, worker, job, late, stream, lastDelivered, finished, lost>>
serverVars == <<at, next>>
workerVars == <<worker, job, late>>
queueVars == <<stream, lastDelivered, finished, lost>>

NoGroup == -1

Init ==
  /\ at = "down"
  /\ next = 1
  /\ worker = [w \in Workers |-> "none"]
  /\ job = [w \in Workers |-> 0]
  /\ late = [w \in Workers |-> 0]
  /\ stream = 0
  /\ lastDelivered = NoGroup
  /\ finished = {}
  /\ lost = {}

-----------------------------------------------------------------------------
(* Variants of the actions below with one plausible mistake each: they are   *)
(* not part of Next, and each breaks a property that the original keeps.     *)

\* The group is made again at $ by every start.
StartAtTail ==
  /\ at = "down"
  /\ at' = "starting"
  /\ lastDelivered' = stream
  /\ UNCHANGED <<next, workerVars, stream, finished, lost>>

\* A loop that leaves workers out.
StartEverySecond ==
  /\ at = "starting"
  /\ next <= NumWorkers
  /\ worker' = [worker EXCEPT ![next] = "select"]
  /\ next' = next + 2
  /\ UNCHANGED <<at, job, late, queueVars>>

\* A select that takes either branch when both can go.
SelectEither(w) ==
  /\ worker[w] = "select"
  /\ \/ /\ at = "stopping" /\ next = w
        /\ worker' = [worker EXCEPT ![w] = "gone"]
        /\ next' = next + 1
     \/ /\ worker' = [worker EXCEPT ![w] = "read"]
        /\ UNCHANGED next
  /\ UNCHANGED <<at, job, late, queueVars>>

\* A read that fails ends the goroutine.
ReadNothingReturns(w) ==
  /\ worker[w] = "read"
  /\ worker' = [worker EXCEPT ![w] = "gone"]
  /\ UNCHANGED <<serverVars, job, late, queueVars>>

\* A buffered channel: Stop does not wait.
StopReturnBuffered ==
  /\ at = "stopping"
  /\ at' = "stopped"
  /\ next' = 1
  /\ UNCHANGED <<workerVars, queueVars>>

-----------------------------------------------------------------------------
(* The server *)

\* XGROUP CREATE, which leaves a group that exists where it is.
StartGroup ==
  /\ at = "down"
  /\ at' = "starting"
  /\ lastDelivered' = IF lastDelivered = NoGroup THEN stream ELSE lastDelivered
  /\ UNCHANGED <<next, workerVars, stream, finished, lost>>

\* A worker runs before the next one is made.
StartWorker ==
  /\ at = "starting"
  /\ next <= NumWorkers
  /\ worker' = [worker EXCEPT ![next] = "select"]
  /\ next' = next + 1
  /\ UNCHANGED <<at, job, late, queueVars>>

Serve ==
  /\ at = "starting"
  /\ next > NumWorkers
  /\ at' = "serving"
  /\ UNCHANGED <<next, workerVars, queueVars>>

\* The router serves from Start on; requests under way may outlast it.
Publish ==
  /\ at \in {"serving", "stopping"}
  /\ stream < MaxEntries
  /\ stream' = stream + 1
  /\ UNCHANGED <<serverVars, workerVars, lastDelivered, finished, lost>>

Stop ==
  /\ at = "serving"
  /\ at' = "stopping"
  /\ next' = 1
  /\ UNCHANGED <<workerVars, queueVars>>

StopReturn ==
  /\ at = "stopping"
  /\ next > NumWorkers
  /\ at' = "stopped"
  /\ next' = 1
  /\ UNCHANGED <<workerVars, queueVars>>

CloseRedis ==
  /\ at = "stopped"
  /\ at' = "closing"
  /\ UNCHANGED <<next, workerVars, queueVars>>

\* db.Close, and the process ends with whatever goroutines it has.
CloseDB ==
  /\ at = "closing"
  /\ at' = "down"
  /\ worker' = [w \in Workers |-> "none"]
  /\ job' = [w \in Workers |-> 0]
  /\ late' = [w \in Workers |-> 0]
  /\ UNCHANGED <<next, queueVars>>

-----------------------------------------------------------------------------
(* A worker *)

\* Stop has w.quit <- true under way.
Asked(w) == at = "stopping" /\ next = w

\* The branch default is for when nobody sends on quit.  When the value is handed
\* over, Stop closes the channel and goes on to the next worker.
Select(w) ==
  /\ worker[w] = "select"
  /\ \/ /\ Asked(w)
        /\ worker' = [worker EXCEPT ![w] = "gone"]
        /\ next' = next + 1
     \/ /\ ~Asked(w)
        /\ worker' = [worker EXCEPT ![w] = "read"]
        /\ UNCHANGED next
  /\ UNCHANGED <<at, job, late, queueVars>>

Deliverable == lastDelivered # NoGroup /\ lastDelivered < stream

\* XREADGROUP answers with an entry,
Deliver(w) ==
  /\ worker[w] = "read"
  /\ Deliverable
  /\ lastDelivered' = lastDelivered + 1
  /\ worker' = [worker EXCEPT ![w] = "judge"]
  /\ job' = [job EXCEPT ![w] = lastDelivered + 1]
  /\ late' = IF Asked(w) THEN [late EXCEPT ![w] = @ + 1] ELSE late
  /\ UNCHANGED <<serverVars, stream, finished, lost>>

\* or with none: after five seconds, or with an error, whether an entry was
\* delivered or not.
ReadNothing(w) ==
  /\ worker[w] = "read"
  /\ worker' = [worker EXCEPT ![w] = "select"]
  /\ \/ UNCHANGED <<lastDelivered, lost>>
     \/ /\ "readLost" \in Faults
        /\ Deliverable
        /\ lastDelivered' = lastDelivered + 1
        /\ lost' = lost \cup {lastDelivered + 1}
  /\ UNCHANGED <<serverVars, job, late, stream, finished>>

\* processCodeJob returns, or the program it runs never ends.
ProcessCodeJob(w) ==
  /\ worker[w] = "judge"
  /\ \/ /\ worker' = [worker EXCEPT ![w] = "select"]
        /\ finished' = finished \cup {job[w]}
        /\ job' = [job EXCEPT ![w] = 0]
     \/ /\ "hang" \in Faults
        /\ worker' = [worker EXCEPT ![w] = "hung"]
        /\ UNCHANGED <<job, finished>>
  /\ UNCHANGED <<serverVars, late, stream, lastDelivered, lost>>

-----------------------------------------------------------------------------

Server == StartGroup \/ StartWorker \/ Serve \/ StopReturn \/ CloseRedis \/ CloseDB

Run(w) == Select(w) \/ Deliver(w) \/ ReadNothing(w) \/ ProcessCodeJob(w)

Next ==
  \/ Server
  \/ Publish
  \/ Stop
  \/ \E w \in Workers : Run(w)

Spec == Init /\ [][Next]_vars

\* StartGinServer goes on where it does not wait, and so does every goroutine:
\* XREADGROUP answers within five seconds.  Nothing has to be published, and
\* nothing has to stop the server.
FairSpec == Spec /\ WF_vars(Server) /\ \A w \in Workers : WF_vars(Run(w))

-----------------------------------------------------------------------------
(* Properties *)

Entries == 1 .. MaxEntries

\* Types, and that only a worker that judges holds an entry.
TypeOK ==
  /\ at \in {"down", "starting", "serving", "stopping", "stopped", "closing"}
  /\ next \in 1 .. NumWorkers + 1
  /\ worker \in [Workers -> {"none", "select", "read", "judge", "hung", "gone"}]
  /\ job \in [Workers -> 0 .. MaxEntries]
  /\ late \in [Workers -> 0 .. MaxEntries]
  /\ stream \in 0 .. MaxEntries
  /\ lastDelivered \in NoGroup .. stream
  /\ finished \subseteq Entries
  /\ lost \subseteq Entries
  /\ \A w \in Workers : job[w] # 0 <=> worker[w] \in {"judge", "hung"}

\* When Stop has returned, and so before Redis and MySQL are closed, every worker
\* is gone and none holds an entry.  (pool.go: Stop hands over a value, and a
\* worker takes it only between two jobs.)
StopDrains ==
  at \in {"stopped", "closing"} =>
    \A w \in Workers : worker[w] = "gone" /\ job[w] = 0

\* A worker that Stop waits for gets at most one more entry: the one its read was
\* waiting for.  (pool.go: select prefers quit to default)
OneMoreAtMost == \A w \in Workers : late[w] <= 1

\* However often the pool is stopped and started, an entry waits for the group, is
\* held, was judged, or its delivery was lost.
\* (pool.go: XGROUP CREATE at $ and BUSYGROUP)
EntriesAreKept ==
  \A e \in 1 .. stream :
    \/ e > lastDelivered
    \/ e \in finished \cup lost
    \/ \E w \in Workers : job[w] = e

\* Stop returns, unless a program does not end.
StopReturns ==
  at = "stopping" ~> at = "stopped" \/ \E w \in Workers : worker[w] = "hung"
=============================================================================
