------------------------- MODULE PoolShutdownProofs -------------------------
(***************************************************************************)
(* An orderly stop loses nothing, for every number of workers and entries   *)
(* and whatever fails.                                                      *)
(***************************************************************************)
EXTENDS PoolShutdown, TLAPS

\* Workers that Start has not made yet do not run.
Launched ==
  /\ at \in {"down", "stopped", "closing"} => next = 1
  /\ at \in {"down", "starting"} =>
       \A w \in Workers : (at = "down" \/ w >= next) => worker[w] = "none"

\* Workers that Stop has asked are gone.
Stopped ==
  /\ at = "stopping" => \A w \in Workers : w < next => worker[w] = "gone"
  /\ at \in {"stopped", "closing"} => \A w \in Workers : worker[w] = "gone"

\* Who has got its last entry does not read again.
LateOnce ==
  \A w \in Workers :
    \/ late[w] = 0
    \/ /\ late[w] = 1
       /\ at \in {"stopping", "stopped", "closing"}
       /\ worker[w] = "gone" \/ (Asked(w) /\ worker[w] # "read")

\* The group is made before anything is published.
GroupFirst == lastDelivered = NoGroup => at = "down" /\ stream = 0

IInv ==
  /\ TypeOK
  /\ Launched
  /\ Stopped
  /\ LateOnce
  /\ GroupFirst
  /\ EntriesAreKept

LEMMA InitIInv == Init => IInv
BY NumbersAssumption
   DEF Init, IInv, TypeOK, Launched, Stopped, LateOnce, GroupFirst,
       EntriesAreKept, NoGroup, Entries, Workers

Places == {"none", "select", "read", "judge", "hung", "gone"}

(* A worker that neither gets nor gives up an entry stays well typed.         *)
LEMMA MoveType ==
  ASSUME TypeOK, NEW w \in Workers, worker[w] \notin {"judge", "hung"},
         NEW x \in Places \ {"judge", "hung"},
         worker' = [worker EXCEPT ![w] = x], UNCHANGED job
  PROVE  /\ worker' \in [Workers -> Places]
         /\ \A v \in Workers : job'[v] # 0 <=> worker'[v] \in {"judge", "hung"}
<1>1. worker \in [Workers -> Places]
  BY DEF TypeOK, Places
<1>2. worker' \in [Workers -> Places]
  BY <1>1 DEF Places
<1>3. worker'[w] = x /\ \A v \in Workers \ {w} : worker'[v] = worker[v]
  BY <1>1
<1> QED BY <1>2, <1>3 DEF TypeOK, Places

-----------------------------------------------------------------------------
(* The server *)

LEMMA StartGroupStep == IInv /\ StartGroup => IInv'
<1> SUFFICES ASSUME IInv, StartGroup PROVE IInv'
  OBVIOUS
<1> USE NumbersAssumption DEF IInv, StartGroup, workerVars
<1>1. TypeOK'
  BY DEF TypeOK, NoGroup
<1>2. Launched' /\ Stopped'
  BY DEF TypeOK, Launched, Stopped, Workers
<1>3. LateOnce'
  BY DEF LateOnce, Asked
<1>4. GroupFirst' /\ EntriesAreKept'
  BY DEF TypeOK, GroupFirst, EntriesAreKept, NoGroup
<1> QED BY <1>1, <1>2, <1>3, <1>4

LEMMA StartWorkerStep == IInv /\ StartWorker => IInv'
<1> SUFFICES ASSUME IInv, StartWorker PROVE IInv'
  OBVIOUS
<1> USE NumbersAssumption DEF IInv, StartWorker, queueVars
<1>1. next \in Workers /\ worker[next] = "none"
  BY DEF TypeOK, Launched, Workers
<1>2. TypeOK'
  <2>1. next + 1 \in 1 .. NumWorkers + 1
    BY DEF TypeOK
  <2> QED BY <1>1, <2>1, MoveType DEF TypeOK, Places
<1>3. Launched' /\ Stopped'
  <2>1. \A w \in Workers : w >= next + 1 => w # next /\ w >= next
    BY DEF TypeOK, Workers
  <2>2. \A v \in Workers \ {next} : worker'[v] = worker[v]
    BY DEF TypeOK
  <2>3. Launched'
    BY <1>1, <2>1, <2>2 DEF Launched
  <2> QED BY <2>3 DEF Stopped
<1>4. LateOnce'
  BY DEF TypeOK, LateOnce, Asked
<1>5. GroupFirst' /\ EntriesAreKept'
  BY DEF GroupFirst, EntriesAreKept
<1> QED BY <1>2, <1>3, <1>4, <1>5

\* Serve, Stop, StopReturn and CloseRedis move the server only.
LEMMA ServerStep == IInv /\ (Serve \/ Stop \/ StopReturn \/ CloseRedis) => IInv'
<1> SUFFICES ASSUME IInv, Serve \/ Stop \/ StopReturn \/ CloseRedis PROVE IInv'
  OBVIOUS
<1> USE NumbersAssumption
    DEF IInv, Serve, Stop, StopReturn, CloseRedis, workerVars, queueVars
<1>1. TypeOK'
  BY DEF TypeOK
<1>2. Launched' /\ Stopped'
  BY DEF TypeOK, Launched, Stopped, Workers
<1>3. LateOnce'
  BY DEF TypeOK, LateOnce, Asked, Workers
<1>4. GroupFirst' /\ EntriesAreKept'
  BY DEF GroupFirst, EntriesAreKept
<1> QED BY <1>1, <1>2, <1>3, <1>4

LEMMA PublishStep == IInv /\ Publish => IInv'
<1> SUFFICES ASSUME IInv, Publish PROVE IInv'
  OBVIOUS
<1> USE NumbersAssumption DEF IInv, Publish, serverVars, workerVars
<1>1. TypeOK'
  BY DEF TypeOK, NoGroup
<1>2. Launched' /\ Stopped' /\ LateOnce'
  BY DEF Launched, Stopped, LateOnce, Asked
<1>3. GroupFirst' /\ EntriesAreKept'
  BY DEF TypeOK, GroupFirst, EntriesAreKept, NoGroup
<1> QED BY <1>1, <1>2, <1>3

\* Nobody holds an entry that the end of the process could lose.
LEMMA CloseDBStep == IInv /\ CloseDB => IInv'
<1> SUFFICES ASSUME IInv, CloseDB PROVE IInv'
  OBVIOUS
<1> USE NumbersAssumption DEF IInv, CloseDB, queueVars
<1>1. \A w \in Workers : job[w] = 0
  BY DEF Stopped, TypeOK
<1>2. TypeOK'
  BY DEF TypeOK
<1>3. Launched' /\ Stopped' /\ LateOnce'
  BY DEF TypeOK, Launched, Stopped, LateOnce, Workers
<1>4. GroupFirst' /\ EntriesAreKept'
  BY <1>1 DEF TypeOK, GroupFirst, EntriesAreKept
<1> QED BY <1>2, <1>3, <1>4

-----------------------------------------------------------------------------
(* A worker *)

LEMMA SelectStep == \A w \in Workers : IInv /\ Select(w) => IInv'
<1> SUFFICES ASSUME NEW w \in Workers, IInv, Select(w) PROVE IInv'
  OBVIOUS
<1> USE NumbersAssumption DEF IInv, Select, queueVars
<1>1. TypeOK'
  <2>1. next' \in 1 .. NumWorkers + 1
    BY DEF TypeOK, Asked, Workers
  <2>2. /\ worker' \in [Workers -> Places]
        /\ \A v \in Workers : job'[v] # 0 <=> worker'[v] \in {"judge", "hung"}
    BY MoveType DEF Places
  <2> QED BY <2>1, <2>2 DEF TypeOK, Places
<1>2. Launched' /\ Stopped'
  <2>1. CASE Asked(w)
    <3>1. \A v \in Workers : v < next + 1 => v = w \/ v < next
      BY <2>1 DEF TypeOK, Asked, Workers
    <3> QED BY <2>1, <3>1 DEF TypeOK, Launched, Stopped, Asked
  <2>2. CASE ~Asked(w)
    BY <2>2 DEF TypeOK, Launched, Stopped
  <2> QED BY <2>1, <2>2
<1>3. LateOnce'
  <2>1. CASE Asked(w)
    <3>1. \A v \in Workers \ {w} : ~Asked(v) /\ worker'[v] = worker[v]
      BY <2>1 DEF TypeOK, Asked
    <3>2. worker'[w] = "gone"
      BY <2>1 DEF TypeOK
    <3> QED BY <2>1, <3>1, <3>2 DEF LateOnce, Asked
  <2>2. CASE ~Asked(w)
    <3>1. late[w] = 0
      BY <2>2 DEF LateOnce
    <3>2. \A v \in Workers \ {w} : worker'[v] = worker[v]
      BY <2>2 DEF TypeOK
    <3> QED BY <2>2, <3>1, <3>2 DEF LateOnce, Asked
  <2> QED BY <2>1, <2>2
<1>4. GroupFirst' /\ EntriesAreKept'
  BY DEF GroupFirst, EntriesAreKept
<1> QED BY <1>1, <1>2, <1>3, <1>4

LEMMA DeliverStep == \A w \in Workers : IInv /\ Deliver(w) => IInv'
<1> SUFFICES ASSUME NEW w \in Workers, IInv, Deliver(w) PROVE IInv'
  OBVIOUS
<1> USE NumbersAssumption DEF IInv, Deliver, serverVars
<1>1. lastDelivered + 1 \in 1 .. MaxEntries /\ job[w] = 0 /\ lastDelivered \in Nat
  BY DEF TypeOK, Deliverable, NoGroup
<1>2. late[w] = 0
  BY DEF LateOnce
<1>3. TypeOK'
  BY <1>1, <1>2 DEF TypeOK, Deliverable, NoGroup
<1>4. Launched' /\ Stopped'
  BY DEF TypeOK, Launched, Stopped
<1>5. LateOnce'
  BY <1>2 DEF TypeOK, LateOnce, Asked
<1>6. GroupFirst' /\ EntriesAreKept'
  <2>1. job'[w] = lastDelivered + 1
    BY DEF TypeOK
  <2>2. \A v \in Workers \ {w} : job'[v] = job[v]
    BY DEF TypeOK
  <2> QED BY <1>1, <2>1, <2>2 DEF TypeOK, GroupFirst, EntriesAreKept, NoGroup
<1> QED BY <1>3, <1>4, <1>5, <1>6

LEMMA ReadNothingStep == \A w \in Workers : IInv /\ ReadNothing(w) => IInv'
<1> SUFFICES ASSUME NEW w \in Workers, IInv, ReadNothing(w) PROVE IInv'
  OBVIOUS
<1> USE NumbersAssumption DEF IInv, ReadNothing, serverVars
<1>1. TypeOK'
  <2>1. /\ worker' \in [Workers -> Places]
        /\ \A v \in Workers : job'[v] # 0 <=> worker'[v] \in {"judge", "hung"}
    BY MoveType DEF Places
  <2>2. lastDelivered' \in NoGroup .. stream /\ lost' \subseteq Entries
    <3>1. lastDelivered \in NoGroup .. stream /\ stream \in 0 .. MaxEntries
      BY DEF TypeOK
    <3>2. Deliverable => lastDelivered + 1 \in 1 .. stream
      BY <3>1 DEF Deliverable, NoGroup
    <3>3. CASE UNCHANGED <<lastDelivered, lost>>
      BY <3>3 DEF TypeOK
    <3>4. CASE /\ Deliverable
               /\ lastDelivered' = lastDelivered + 1
               /\ lost' = lost \cup {lastDelivered + 1}
      BY <3>1, <3>2, <3>4 DEF TypeOK, NoGroup, Entries
    <3> QED BY <3>3, <3>4
  <2> QED BY <2>1, <2>2 DEF TypeOK, Places
<1>2. Launched' /\ Stopped'
  BY DEF TypeOK, Launched, Stopped
<1>3. LateOnce'
  <2>1. worker'[w] # "read"
    BY DEF TypeOK
  <2>2. \A v \in Workers \ {w} : worker'[v] = worker[v]
    BY DEF TypeOK
  <2> QED BY <2>1, <2>2 DEF LateOnce, Asked
<1>4. GroupFirst' /\ EntriesAreKept'
  BY DEF TypeOK, Deliverable, GroupFirst, EntriesAreKept, NoGroup
<1> QED BY <1>1, <1>2, <1>3, <1>4

LEMMA ProcessCodeJobStep == \A w \in Workers : IInv /\ ProcessCodeJob(w) => IInv'
<1> SUFFICES ASSUME NEW w \in Workers, IInv, ProcessCodeJob(w) PROVE IInv'
  OBVIOUS
<1> USE NumbersAssumption DEF IInv, ProcessCodeJob, serverVars
<1>1. TypeOK'
  <2>1. job[w] \in Entries
    BY DEF TypeOK, Entries
  <2>2. CASE worker' = [worker EXCEPT ![w] = "select"]
             /\ finished' = finished \cup {job[w]} /\ job' = [job EXCEPT ![w] = 0]
    BY <2>1, <2>2 DEF TypeOK
  <2>3. CASE worker' = [worker EXCEPT ![w] = "hung"] /\ UNCHANGED <<job, finished>>
    BY <2>3 DEF TypeOK
  <2> QED BY <2>2, <2>3
<1>2. Launched' /\ Stopped'
  BY DEF TypeOK, Launched, Stopped
<1>3. LateOnce'
  <2>1. worker'[w] # "read"
    BY DEF TypeOK
  <2>2. \A v \in Workers \ {w} : worker'[v] = worker[v]
    BY DEF TypeOK
  <2> QED BY <2>1, <2>2 DEF LateOnce, Asked
<1>4. GroupFirst' /\ EntriesAreKept'
  BY DEF TypeOK, GroupFirst, EntriesAreKept
<1> QED BY <1>1, <1>2, <1>3, <1>4

-----------------------------------------------------------------------------

LEMMA IInvStep == IInv /\ [Next]_vars => IInv'
<1> SUFFICES ASSUME IInv, [Next]_vars PROVE IInv'
  OBVIOUS
<1>1. CASE Server
  BY <1>1, StartGroupStep, StartWorkerStep, ServerStep, CloseDBStep DEF Server
<1>2. CASE Publish
  BY <1>2, PublishStep
<1>3. CASE Stop
  BY <1>3, ServerStep
<1>4. ASSUME NEW w \in Workers, Run(w) PROVE IInv'
  BY <1>4, SelectStep, DeliverStep, ReadNothingStep, ProcessCodeJobStep DEF Run
<1>5. CASE UNCHANGED vars
  BY <1>5 DEF vars, IInv, TypeOK, Launched, Stopped, LateOnce, GroupFirst,
              EntriesAreKept, Asked
<1> QED BY <1>1, <1>2, <1>3, <1>4, <1>5 DEF Next

LEMMA IInvAlways == Spec => []IInv
BY InitIInv, IInvStep, PTL DEF Spec

(* The ranges hold, and only a worker that judges holds an entry.              *)
THEOREM PoolTypeCorrect == Spec => []TypeOK
<1>1. IInv => TypeOK
  BY DEF IInv
<1> QED BY <1>1, IInvAlways, PTL

(* When Stop has returned no worker runs and no entry is held: Redis and MySQL  *)
(* are closed under nobody.                                                     *)
THEOREM StopDrainsAlways == Spec => []StopDrains
<1>1. IInv => StopDrains
  BY DEF IInv, TypeOK, Stopped, StopDrains
<1> QED BY <1>1, IInvAlways, PTL

(* A worker that is asked to stop gets at most one more entry.                  *)
THEOREM OneMoreAlways == Spec => []OneMoreAtMost
<1>1. IInv => OneMoreAtMost
  BY DEF IInv, LateOnce, OneMoreAtMost
<1> QED BY <1>1, IInvAlways, PTL

(* No number of stops and starts loses an entry or judges past one.             *)
THEOREM EntriesKeptAlways == Spec => []EntriesAreKept
<1>1. IInv => EntriesAreKept
  BY DEF IInv
<1> QED BY <1>1, IInvAlways, PTL
=============================================================================
