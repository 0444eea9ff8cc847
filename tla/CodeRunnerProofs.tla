-------------------------- MODULE CodeRunnerProofs --------------------------
(***************************************************************************)
(* Theorems about CodeRunner for all workers, submissions, containers and   *)
(* numbers of test cases and of calls.                                      *)
(***************************************************************************)
EXTENDS CodeRunner, TLAPS

\* The results of Execute are told apart by their status, or by what they
\* say about the failed test case.
LEMMA ResultFacts ==
  /\ Accepted # Absent /\ Accepted # WrongAnswer /\ Accepted # RuntimeError
  /\ Accepted # BuildFailure /\ Accepted # ExecutionError
  /\ {Absent, Accepted, WrongAnswer, RuntimeError, BuildFailure, ExecutionError}
       \subseteq Results
BY DEF Accepted, Absent, WrongAnswer, RuntimeError, BuildFailure,
       ExecutionError, Failure, Column, Results, ExecutionResults

LEMMA VerdictFacts ==
  /\ Absent \notin ExecutionResults
  /\ ExecutionError \notin ExecutionResults
  /\ Absent # ExecutionError
  /\ WrongAnswer \notin {Accepted, BuildFailure, RuntimeError, ExecutionError, Absent}
  /\ BuildFailure \notin {Accepted, WrongAnswer, RuntimeError, ExecutionError, Absent}
BY DEF Accepted, Absent, WrongAnswer, RuntimeError, BuildFailure,
       ExecutionError, Failure, Column, Nil, ExecutionResults

\* A program has a list of at most MaxTests test cases.
LEMMA ProgramFacts ==
  ASSUME NEW p \in Programs
  PROVE  /\ Len(p.tests) \in 0 .. MaxTests
         /\ DOMAIN p.tests = 1 .. Len(p.tests)
         /\ p.builds \in BOOLEAN
         /\ ~NeedsCompilation(p) => p.builds /\ p.language = "python"
         /\ NeedsCompilation(p) => p.blank = {}
<1>1. PICK n \in 0 .. MaxTests : p.tests \in [1 .. n -> Endings]
  BY DEF Programs
<1>2. n \in Nat
  BY <1>1, MaxTestsAssumption
<1>3. p.tests \in Seq(Endings) /\ Len(p.tests) = n
  BY <1>1, <1>2
<1>4. /\ p.builds \in BOOLEAN
      /\ ~NeedsCompilation(p) => p.builds /\ p.language = "python"
      /\ NeedsCompilation(p) => p.blank = {}
  BY DEF Programs, NeedsCompilation
<1>. QED
  BY <1>1, <1>2, <1>3, <1>4

LEMMA OutcomeFacts ==
  ASSUME NEW v \in Results, NEW t \in 0 .. MaxTests
  PROVE  Outcome(v, t) \in Outcomes /\ Outcome(v, t).verdict = v
BY DEF Outcome, Outcomes

LEMMA RetriesType == Retries \in Nat
BY MaxRetriesAssumption DEF Retries

\* A container as docker run makes it.
Made(s, lost) ==
  [of |-> s, mount |-> Source(s), solution |-> "none", lost |-> lost]

\* What is mounted is not gone, nor when something has been built in it.
LEMMA GoneFacts ==
  /\ \A m \in Mounted : m # Gone
  /\ \A s, lost : Made(s, lost) # Gone /\ Made(s, lost).of = s
                   /\ Made(s, lost).lost = lost
                   /\ Made(s, lost).mount = Source(s)
  /\ \A m \in Mounted : \A x \in Contents :
       LET n == [m EXCEPT !.solution = x] IN
       n \in Mounted /\ n # Gone /\ n.of = m.of /\ n.mount = m.mount
         /\ n.lost = m.lost /\ n.solution = x
<1>1. Gone.solution = "gone"
  BY DEF Gone
<1>2. \A m \in Mounted : m.solution # "gone"
  BY DEF Mounted, Contents
<1>3. \A s, lost : Made(s, lost).solution = "none" /\ Made(s, lost).of = s
                    /\ Made(s, lost).lost = lost
                    /\ Made(s, lost).mount = Source(s)
  BY DEF Made
<1>4. ASSUME NEW m \in Mounted, NEW x \in Contents
      PROVE  LET n == [m EXCEPT !.solution = x] IN
             n \in Mounted /\ n # Gone /\ n.of = m.of /\ n.mount = m.mount
               /\ n.lost = m.lost /\ n.solution = x
  <2> DEFINE n == [m EXCEPT !.solution = x]
  <2>1. n \in Mounted /\ n.of = m.of /\ n.mount = m.mount
          /\ n.lost = m.lost /\ n.solution = x
    BY DEF Mounted
  <2> HIDE DEF n
  <2>2. n # Gone
    BY <1>1, <1>2, <2>1
  <2> QED BY <2>1, <2>2 DEF n
<1>. QED
  BY <1>1, <1>2, <1>3, <1>4

\* What a file may hold after it was opened.
LEMMA OpenedFacts ==
  ASSUME TypeOK, NEW s \in Submissions
  PROVE  /\ Opened(s) \in Seq(Contents)
         /\ Len(Opened(s)) \in Nat /\ Len(Opened(s)) >= 1
         /\ Len(Opened(s)) >= Len(file[s])
         /\ Opened(s)[Len(Opened(s))] = "nothing"
         /\ Opened(s) # <<>>
<1>1. file[s] \in Seq(Contents) /\ "nothing" \in Contents
      /\ (dir[s] = "file" => file[s] # <<>>)
  BY DEF TypeOK, Ranges, FilesExist, Contents
<1>2. CASE dir[s] = "file"
  <2>1. Len(file[s]) \in Nat /\ Len(file[s]) >= 1
    BY <1>1, <1>2
  <2>2. Opened(s) = [file[s] EXCEPT ![Len(file[s])] = "nothing"]
    BY <1>2 DEF Opened
  <2>3. Opened(s) \in Seq(Contents) /\ Len(Opened(s)) = Len(file[s])
        /\ Opened(s)[Len(file[s])] = "nothing"
    BY <1>1, <2>1, <2>2
  <2> QED BY <2>1, <2>3
<1>3. CASE dir[s] # "file"
  <2>1. Opened(s) = Append(file[s], "nothing")
    BY <1>3 DEF Opened
  <2> QED BY <1>1, <2>1
<1> QED BY <1>2, <1>3

\* A file that was written to is the only one that changes.
LEMMA WrittenFacts ==
  ASSUME NEW f \in Seq(Contents), NEW i \in 1 .. Len(f), NEW x \in Contents
  PROVE  LET g == [f EXCEPT ![i] = x] IN
         g \in Seq(Contents) /\ Len(g) = Len(f) /\ g[i] = x
           /\ \A j \in 1 .. Len(f) : j # i => g[j] = f[j]
OBVIOUS

LEMMA TypeInit == Init => TypeOK
<1>1. NoOutcome \in Outcomes
  BY ResultFacts, OutcomeFacts, MaxTestsAssumption DEF NoOutcome
<1>2. Init => Ranges
  BY <1>1, MaxTestsAssumption, RetriesType DEF Init, Ranges, PCs
<1>3. Init => FilesExist /\ OwnContainer /\ InsideTests
  BY DEF Init, FilesExist, OwnContainer, InsideTests, WithContainer
<1>. QED
  BY <1>2, <1>3 DEF TypeOK

\* What GoTo and Return leave in its range.
LEMMA ControlRanges ==
  ASSUME Ranges, NEW w \in Workers, NEW label \in PCs,
         \/ GoTo(w, label)
         \/ \E v \in Results, t \in 0 .. MaxTests : Return(w, v, t, label)
  PROVE  /\ pc' = [pc EXCEPT ![w] = label]
         /\ pc' \in [Workers -> PCs]
         /\ outcome' \in [Workers -> Outcomes]
         /\ \A v \in Workers \ {w} : outcome'[v] = outcome[v]
         /\ UNCHANGED <<task, cid>>
<1>1. CASE GoTo(w, label)
  BY <1>1 DEF GoTo, Ranges
<1>2. ASSUME NEW v \in Results, NEW t \in 0 .. MaxTests, Return(w, v, t, label)
      PROVE  /\ pc' = [pc EXCEPT ![w] = label]
             /\ pc' \in [Workers -> PCs]
             /\ outcome' \in [Workers -> Outcomes]
             /\ \A u \in Workers \ {w} : outcome'[u] = outcome[u]
             /\ UNCHANGED <<task, cid>>
  BY <1>2, OutcomeFacts DEF Return, Ranges
<1>. QED
  BY <1>1, <1>2

-----------------------------------------------------------------------------
(* One step of Execute: which worker, submission and container it is about.  *)

\* The worker goes on in its own call.
Moves(w, label) ==
  /\ label \in PCs \ {"idle"}
  /\ pc[w] # "idle"
  /\ pc' = [pc EXCEPT ![w] = label]
  /\ pc' \in [Workers -> PCs]
  /\ outcome' \in [Workers -> Outcomes]
  /\ UNCHANGED <<task, callerVars>>
  /\ \A v \in Workers \ {w} : outcome'[v] = outcome[v] /\ cid'[v] = cid[v]
  /\ label \in WithContainer => pc[w] \in (WithContainer \ {"stop"}) \cup {"start"}

\* How the steps of Execute change files: all that was made stays made.
Files(w) ==
  /\ dir' \in [Submissions -> {"none", "empty", "file", "mountpoint"}]
  /\ file' \in [Submissions -> Seq(Contents)]
  /\ fd' \in [Workers -> Nat]
  /\ \A v \in Workers \ {w} : fd'[v] = fd[v]
  /\ \A s \in Submissions \ {task[w]} : dir'[s] = dir[s] /\ file'[s] = file[s]
  /\ \A s \in Submissions : Len(file'[s]) >= Len(file[s])
  /\ \A s \in Submissions : dir'[s] = "file" => file'[s] # <<>>
  /\ pc'[w] = "write" => fd'[w] \in 1 .. Len(file'[task[w]])

\* How they change containers: a worker starts one for its submission, builds
\* in its own, or stops it.
Hosts(w) ==
  /\ container' \in [Containers -> Mounted \cup {Gone}]
  /\ \A c \in Containers :
       \/ container'[c] = container[c]
       \/ /\ container[c] = Gone
          /\ container'[c].of = task[w]
          /\ container'[c].mount \in 0 .. Len(file[task[w]])
       \/ c = cid[w] /\ pc[w] = "stop" /\ container'[c] = Gone
       \/ /\ c = cid[w] /\ pc[w] = "build"
          /\ container'[c] # Gone
          /\ container'[c].of = container[c].of
          /\ container'[c].mount = container[c].mount
          /\ container'[c].lost = container[c].lost
  /\ cid' \in [Workers -> Containers \cup {NoContainer}]
  /\ IF pc[w] = "start" /\ pc'[w] \in WithContainer
       THEN /\ cid'[w] \in Containers
            /\ container[cid'[w]] = Gone
            /\ container'[cid'[w]] = Made(task[w], FALSE)
       ELSE cid'[w] = cid[w]

Loops(w) ==
  /\ test' \in [Workers -> 0 .. MaxTests + 1]
  /\ \A v \in Workers \ {w} : test'[v] = test[v]
  /\ test'[w] \in {test[w], test[w] + 1}
  /\ pc'[w] \in {"run", "hung"} => test'[w] \in DOMAIN Program(w).tests

LEMMA GoToMoves ==
  ASSUME TypeOK, NEW w \in Workers, NEW label \in PCs \ {"idle"}, pc[w] # "idle",
         \/ GoTo(w, label)
         \/ \E v \in Results, t \in 0 .. MaxTests : Return(w, v, t, label),
         UNCHANGED callerVars,
         label \in WithContainer => pc[w] \in (WithContainer \ {"stop"}) \cup {"start"}
  PROVE  Moves(w, label) /\ pc'[w] = label /\ cid' = cid
<1>1. /\ pc' = [pc EXCEPT ![w] = label]
      /\ pc' \in [Workers -> PCs]
      /\ outcome' \in [Workers -> Outcomes]
      /\ \A v \in Workers \ {w} : outcome'[v] = outcome[v]
      /\ UNCHANGED <<task, cid>>
  BY ControlRanges DEF TypeOK
<1> QED BY <1>1 DEF Moves, TypeOK, Ranges

LEMMA FilesSame ==
  ASSUME TypeOK, NEW w \in Workers, UNCHANGED <<dir, file, fd>>, pc'[w] # "write"
  PROVE  Files(w)
<1>1. \A s \in Submissions : Len(file[s]) \in Int
  BY DEF TypeOK, Ranges
<1> QED BY <1>1 DEF Files, TypeOK, Ranges, FilesExist

LEMMA DirMoves ==
  ASSUME TypeOK, NEW w \in Workers, task[w] \in Submissions,
         UNCHANGED <<file, fd>>, pc'[w] # "write",
         NEW d \in {"none", "empty", "file", "mountpoint"},
         dir' = [dir EXCEPT ![task[w]] = d],
         d = "file" => dir[task[w]] = "file"
  PROVE  Files(w)
<1>1. \A s \in Submissions : Len(file[s]) \in Int
  BY DEF TypeOK, Ranges
<1>2. dir'[task[w]] = d /\ \A s \in Submissions \ {task[w]} : dir'[s] = dir[s]
  BY DEF TypeOK, Ranges
<1>3. dir' \in [Submissions -> {"none", "empty", "file", "mountpoint"}]
  BY DEF TypeOK, Ranges
<1> QED BY <1>1, <1>2, <1>3 DEF Files, TypeOK, Ranges, FilesExist

LEMMA HostsSame ==
  ASSUME TypeOK, NEW w \in Workers, UNCHANGED <<container, cid>>,
         ~(pc[w] = "start" /\ pc'[w] \in WithContainer)
  PROVE  Hosts(w)
BY DEF Hosts, TypeOK, Ranges

LEMMA LoopsSame ==
  ASSUME TypeOK, NEW w \in Workers, UNCHANGED test, pc'[w] \notin {"run", "hung"}
  PROVE  Loops(w)
BY DEF Loops, TypeOK, Ranges

\* Containers start for the submission of the worker, from its file.
LEMMA StartFacts ==
  ASSUME TypeOK, NEW w \in Workers, task[w] \in Submissions,
         NEW c \in Containers, NEW lost \in BOOLEAN, Start(w, c, lost)
  PROVE  /\ container[c] = Gone
         /\ container' = [container EXCEPT ![c] = Made(task[w], lost)]
         /\ container'[c] = Made(task[w], lost)
         /\ Made(task[w], lost) \in Mounted
         /\ Source(task[w]) \in 0 .. Len(file[task[w]])
         /\ MakeSource(task[w])
<1>1. Len(file[task[w]]) \in Nat
  BY DEF TypeOK, Ranges
<1>2. Source(task[w]) \in 0 .. Len(file[task[w]])
  BY <1>1 DEF Source
<1>3. Made(task[w], lost) \in Mounted
  BY <1>1, <1>2 DEF Made, Mounted
<1> QED BY <1>2, <1>3 DEF Start, Made, TypeOK, Ranges

LEMMA MakeSourceFiles ==
  ASSUME TypeOK, NEW w \in Workers, task[w] \in Submissions,
         UNCHANGED <<file, fd>>, pc'[w] # "write",
         MakeSource(task[w])
  PROVE  Files(w)
<1> DEFINE d == IF dir[task[w]] = "file" THEN "file" ELSE "mountpoint"
<1>1. dir' = [dir EXCEPT ![task[w]] = d]
  BY DEF MakeSource
<1>2. d \in {"none", "empty", "file", "mountpoint"} /\ (d = "file" => dir[task[w]] = "file")
  OBVIOUS
<1> HIDE DEF d
<1> QED BY <1>1, <1>2, DirMoves

LEMMA StartHosts ==
  ASSUME TypeOK, NEW w \in Workers, task[w] \in Submissions,
         NEW c \in Containers, NEW lost \in BOOLEAN, Start(w, c, lost),
         \/ pc'[w] \notin WithContainer /\ cid' = cid
         \/ pc[w] = "start" /\ pc'[w] \in WithContainer /\ ~lost
             /\ cid' = [cid EXCEPT ![w] = c]
  PROVE  Hosts(w)
<1>1. /\ container[c] = Gone
      /\ container' = [container EXCEPT ![c] = Made(task[w], lost)]
      /\ container'[c] = Made(task[w], lost)
      /\ Made(task[w], lost) \in Mounted
      /\ Source(task[w]) \in 0 .. Len(file[task[w]])
  BY StartFacts
<1>2. container' \in [Containers -> Mounted \cup {Gone}]
      /\ \A e \in Containers \ {c} : container'[e] = container[e]
  BY <1>1 DEF TypeOK, Ranges
<1>3. container'[c].of = task[w] /\ container'[c].mount \in 0 .. Len(file[task[w]])
  BY <1>1, GoneFacts
<1>4. CASE pc'[w] \notin WithContainer /\ cid' = cid
  BY <1>1, <1>2, <1>3, <1>4 DEF Hosts, TypeOK, Ranges
<1>5. CASE pc[w] = "start" /\ pc'[w] \in WithContainer /\ ~lost
             /\ cid' = [cid EXCEPT ![w] = c]
  <2>1. cid'[w] = c /\ cid' \in [Workers -> Containers \cup {NoContainer}]
    BY <1>5 DEF TypeOK, Ranges
  <2>2. lost = FALSE
    BY <1>5
  <2> QED BY <1>1, <1>2, <1>3, <1>5, <2>1, <2>2 DEF Hosts
<1> QED BY <1>4, <1>5

\* The steps between the call of Execute and its result, one by one.
LEMMA Shape ==
  ASSUME TypeOK, NEW w \in Workers, Proceed(w)
  PROVE  \E label : /\ Moves(w, label) /\ Files(w) /\ Hosts(w) /\ Loops(w)
                    /\ label \notin {"idle", "mkdir"}
<1>0. /\ task[w] \in Submissions /\ test[w] \in 1 .. MaxTests + 1
      /\ Len(Program(w).tests) \in 0 .. MaxTests
      /\ DOMAIN Program(w).tests = 1 .. Len(Program(w).tests)
      /\ pc[w] = "run" => test[w] \in DOMAIN Program(w).tests
      /\ pc[w] # "idle"
  <2>1. pc[w] # "idle"
    BY DEF Proceed, MkdirAll, OpenFile, WriteFile, DockerRun, Build, Tests,
           RunTest, DockerStop, RemoveAll, RemoveDir
  <2>2. task[w] \in Submissions /\ test[w] >= 1 /\ test[w] \in 0 .. MaxTests + 1
    BY <2>1 DEF TypeOK, Ranges, InsideTests
  <2>3. Program(w) \in Programs
    BY <2>2 DEF Program, TypeOK, Ranges
  <2> QED BY <2>1, <2>2, <2>3, ProgramFacts, MaxTestsAssumption
            DEF TypeOK, InsideTests
<1>1. 0 \in 0 .. MaxTests /\ test[w] \in 0 .. MaxTests + 1
      /\ (pc[w] = "run" => test[w] \in 0 .. MaxTests)
  BY <1>0, MaxTestsAssumption
<1>2. ASSUME NEW label \in PCs \ {"idle", "mkdir"},
             \/ GoTo(w, label)
             \/ \E v \in Results, t \in 0 .. MaxTests : Return(w, v, t, label),
             UNCHANGED callerVars,
             label \in WithContainer =>
               pc[w] \in (WithContainer \ {"stop"}) \cup {"start"}
      PROVE  Moves(w, label) /\ pc'[w] = label /\ cid' = cid
  BY <1>0, <1>2, GoToMoves
<1>3. CASE MkdirAll(w)
  <2>1. CASE GoTo(w, "open") /\
             dir' = [dir EXCEPT ![task[w]] = IF @ = "none" THEN "empty" ELSE @]
    <3> DEFINE d == IF dir[task[w]] = "none" THEN "empty" ELSE dir[task[w]]
    <3>1. Moves(w, "open") /\ pc'[w] = "open" /\ cid' = cid
      BY <1>2, <1>3, <2>1 DEF MkdirAll, PCs, WithContainer
    <3>2. dir' = [dir EXCEPT ![task[w]] = d]
      BY <2>1
    <3>3. d \in {"none", "empty", "file", "mountpoint"}
          /\ (d = "file" => dir[task[w]] = "file")
      BY <1>0 DEF TypeOK, Ranges
    <3> HIDE DEF d
    <3>4. Files(w)
      BY <1>0, <1>3, <3>1, <3>2, <3>3, DirMoves DEF MkdirAll, localVars
    <3>5. Hosts(w) /\ Loops(w)
      BY <1>3, <3>1, HostsSame, LoopsSame DEF MkdirAll, localVars, WithContainer
    <3> QED BY <3>1, <3>4, <3>5
  <2>2. CASE Return(w, ExecutionError, 0, "return") /\ UNCHANGED dir
    <3>1. Moves(w, "return") /\ pc'[w] = "return" /\ cid' = cid
      BY <1>1, <1>2, <1>3, <2>2, ResultFacts DEF MkdirAll, PCs, WithContainer
    <3>2. Files(w) /\ Hosts(w) /\ Loops(w)
      BY <1>3, <2>2, <3>1, FilesSame, HostsSame, LoopsSame
         DEF MkdirAll, localVars, WithContainer
    <3> QED BY <3>1, <3>2
  <2> QED BY <1>3, <2>1, <2>2 DEF MkdirAll
<1>4. CASE OpenFile(w)
  <2>1. CASE /\ dir' = [dir EXCEPT ![task[w]] = "file"]
             /\ file' = [file EXCEPT ![task[w]] = Opened(task[w])]
             /\ fd' = [fd EXCEPT ![w] = Len(Opened(task[w]))]
             /\ GoTo(w, "write")
    <3>1. Moves(w, "write") /\ pc'[w] = "write" /\ cid' = cid
      BY <1>2, <1>4, <2>1 DEF OpenFile, PCs, WithContainer
    <3>2. /\ dir' \in [Submissions -> {"none", "empty", "file", "mountpoint"}]
          /\ file' \in [Submissions -> Seq(Contents)]
          /\ fd' \in [Workers -> Nat]
          /\ fd'[w] = Len(Opened(task[w])) /\ file'[task[w]] = Opened(task[w])
          /\ \A v \in Workers \ {w} : fd'[v] = fd[v]
          /\ \A s \in Submissions \ {task[w]} :
               dir'[s] = dir[s] /\ file'[s] = file[s]
      BY <1>0, <2>1, OpenedFacts DEF TypeOK, Ranges
    <3>3. \A s \in Submissions : Len(file[s]) \in Int
      BY DEF TypeOK, Ranges
    <3>4. \A s \in Submissions : /\ Len(file'[s]) >= Len(file[s])
                                 /\ dir'[s] = "file" => file'[s] # <<>>
      <4> SUFFICES ASSUME NEW s \in Submissions
                   PROVE  /\ Len(file'[s]) >= Len(file[s])
                          /\ dir'[s] = "file" => file'[s] # <<>>
        OBVIOUS
      <4>1. CASE s = task[w]
        BY <3>2, <4>1, OpenedFacts
      <4>2. CASE s # task[w]
        BY <3>2, <3>3, <4>2 DEF TypeOK, FilesExist
      <4> QED BY <4>1, <4>2
    <3>5. fd'[w] \in 1 .. Len(file'[task[w]])
      BY <1>0, <3>2, OpenedFacts
    <3>6. Files(w)
      BY <3>2, <3>4, <3>5 DEF Files
    <3>7. Hosts(w) /\ Loops(w)
      BY <1>4, <3>1, HostsSame, LoopsSame DEF OpenFile, WithContainer
    <3> QED BY <3>1, <3>6, <3>7
  <2>2. CASE Return(w, ExecutionError, 0, "remove") /\ UNCHANGED <<dir, file, fd>>
    <3>1. Moves(w, "remove") /\ pc'[w] = "remove" /\ cid' = cid
      BY <1>1, <1>2, <1>4, <2>2, ResultFacts DEF OpenFile, PCs, WithContainer
    <3>2. Files(w) /\ Hosts(w) /\ Loops(w)
      BY <1>4, <2>2, <3>1, FilesSame, HostsSame, LoopsSame
         DEF OpenFile, WithContainer
    <3> QED BY <3>1, <3>2
  <2> QED BY <1>4, <2>1, <2>2 DEF OpenFile
<1>5. CASE WriteFile(w)
  <2> DEFINE s == task[w]
             i == fd[w]
  <2>1. PICK x \in Contents : file' = [file EXCEPT ![s] = [file[s] EXCEPT ![i] = x]]
    <3>1. CASE file' = [file EXCEPT ![s][i] = "source"]
      BY <3>1 DEF Contents
    <3>2. CASE file' = [file EXCEPT ![s][i] = IF @ = "source" THEN "source" ELSE "part"]
      BY <3>2 DEF Contents
    <3> QED BY <1>5, <3>1, <3>2 DEF WriteFile
  <2>2. PICK label \in {"start", "remove"} :
               Moves(w, label) /\ pc'[w] = label /\ cid' = cid
    BY <1>1, <1>2, <1>5, ResultFacts DEF WriteFile, PCs, WithContainer
  <2>3. file[s] \in Seq(Contents) /\ i \in 1 .. Len(file[s])
    BY <1>0, <1>5 DEF WriteFile, TypeOK, Ranges, FilesExist
  <2>4. /\ [file[s] EXCEPT ![i] = x] \in Seq(Contents)
        /\ Len([file[s] EXCEPT ![i] = x]) = Len(file[s])
        /\ [file[s] EXCEPT ![i] = x] # <<>>
    BY <2>3, WrittenFacts
  <2>5. /\ file' \in [Submissions -> Seq(Contents)]
        /\ file'[s] = [file[s] EXCEPT ![i] = x]
        /\ \A r \in Submissions \ {s} : file'[r] = file[r]
        /\ fd' \in [Workers -> Nat]
        /\ \A v \in Workers \ {w} : fd'[v] = fd[v]
    BY <1>0, <1>5, <2>1, <2>4 DEF WriteFile, TypeOK, Ranges
  <2>6. \A r \in Submissions : Len(file[r]) \in Int
    BY DEF TypeOK, Ranges
  <2>7. Files(w)
    <3>1. \A r \in Submissions : /\ Len(file'[r]) >= Len(file[r])
                                 /\ dir'[r] = "file" => file'[r] # <<>>
      <4> SUFFICES ASSUME NEW r \in Submissions
                   PROVE  /\ Len(file'[r]) >= Len(file[r])
                          /\ dir'[r] = "file" => file'[r] # <<>>
        OBVIOUS
      <4>1. CASE r = s
        BY <2>4, <2>5, <2>6, <4>1
      <4>2. CASE r # s
        BY <1>5, <2>5, <2>6, <4>2 DEF WriteFile, TypeOK, FilesExist
      <4> QED BY <4>1, <4>2
    <3>2. dir' = dir /\ dir \in [Submissions -> {"none", "empty", "file", "mountpoint"}]
      BY <1>5 DEF WriteFile, TypeOK, Ranges
    <3> QED BY <2>2, <2>5, <3>1, <3>2 DEF Files
  <2>8. Hosts(w) /\ Loops(w)
    BY <1>5, <2>2, HostsSame, LoopsSame DEF WriteFile, WithContainer
  <2> QED BY <2>2, <2>7, <2>8
<1>6. CASE DockerRun(w)
  <2>1. pc[w] = "start" /\ UNCHANGED <<file, fd, test, callerVars>>
    BY <1>6 DEF DockerRun, localVars
  <2>2. ASSUME NEW c \in Containers, Start(w, c, FALSE),
               cid' = [cid EXCEPT ![w] = c],
               NEW label \in {"build", "tests"},
               pc' = [pc EXCEPT ![w] = label],
               UNCHANGED <<task, outcome>>
        PROVE  Moves(w, label) /\ Files(w) /\ Hosts(w) /\ Loops(w)
    <3>1. pc'[w] = label /\ Moves(w, label)
      BY <1>0, <2>1, <2>2 DEF Moves, TypeOK, Ranges, PCs, WithContainer
    <3>2. Files(w)
      BY <1>0, <2>1, <2>2, <3>1, MakeSourceFiles DEF Start
    <3>3. Hosts(w)
      BY <1>0, <2>1, <2>2, <3>1, StartHosts DEF WithContainer
    <3>4. Loops(w)
      BY <2>1, <3>1, LoopsSame
    <3> QED BY <3>1, <3>2, <3>3, <3>4
  <2>3. ASSUME Return(w, ExecutionError, 0, "remove"),
               \/ UNCHANGED <<dir, container>>
               \/ MakeSource(task[w]) /\ UNCHANGED container
               \/ \E c \in Containers : Start(w, c, TRUE)
        PROVE  Moves(w, "remove") /\ Files(w) /\ Hosts(w) /\ Loops(w)
    <3>1. Moves(w, "remove") /\ pc'[w] = "remove" /\ cid' = cid
      BY <1>1, <1>2, <2>1, <2>3, ResultFacts DEF PCs, WithContainer
    <3>2. Files(w)
      BY <1>0, <2>1, <2>3, <3>1, FilesSame, MakeSourceFiles DEF Start
    <3>3. Hosts(w)
      BY <1>0, <2>3, <3>1, HostsSame, StartHosts DEF WithContainer
    <3>4. Loops(w)
      BY <2>1, <3>1, LoopsSame
    <3> QED BY <3>1, <3>2, <3>3, <3>4
  <2>4. CASE \E c \in Containers :
               /\ Start(w, c, FALSE)
               /\ cid' = [cid EXCEPT ![w] = c]
               /\ pc' = [pc EXCEPT ![w] =
                    IF NeedsCompilation(Program(w)) THEN "build" ELSE "tests"]
               /\ UNCHANGED <<task, outcome>>
    <3> DEFINE label == IF NeedsCompilation(Program(w)) THEN "build" ELSE "tests"
    <3>1. label \in {"build", "tests"}
      OBVIOUS
    <3>2. pc' = [pc EXCEPT ![w] = label]
      BY <2>4
    <3> HIDE DEF label
    <3>3. Moves(w, label) /\ Files(w) /\ Hosts(w) /\ Loops(w)
      BY <2>2, <2>4, <3>1, <3>2
    <3> QED BY <3>1, <3>3
  <2>5. CASE /\ Return(w, ExecutionError, 0, "remove")
             /\ \/ UNCHANGED <<dir, container>>
                \/ MakeSource(task[w]) /\ UNCHANGED container
                \/ \E c \in Containers : Start(w, c, TRUE)
    <3>1. Moves(w, "remove") /\ Files(w) /\ Hosts(w) /\ Loops(w)
      BY <2>3, <2>5
    <3> QED BY <3>1
  <2> QED BY <1>6, <2>4, <2>5 DEF DockerRun
<1>7. CASE Build(w)
  <2>0. pc[w] = "build" /\ UNCHANGED <<dir, file, fd, test, callerVars>>
    BY <1>7 DEF Build, localVars
  <2>1. CASE /\ container' = [container EXCEPT ![cid[w]].solution = Text(cid[w])]
             /\ Text(cid[w]) \in {"source", "part"}
             /\ GoTo(w, "tests")
    <3>1. Moves(w, "tests") /\ pc'[w] = "tests" /\ cid' = cid
      BY <1>2, <2>0, <2>1 DEF PCs, WithContainer
    <3>2. Files(w) /\ Loops(w)
      BY <2>0, <3>1, FilesSame, LoopsSame
    <3>3. cid[w] \in Containers /\ container[cid[w]] # Gone
      BY <2>0 DEF TypeOK, OwnContainer, WithContainer
    <3> DEFINE x == Text(cid[w])
               n == [container[cid[w]] EXCEPT !.solution = x]
    <3>4. container[cid[w]] \in Mounted /\ x \in Contents
      BY <2>1, <3>3 DEF TypeOK, Ranges, Contents
    <3>5. /\ n \in Mounted /\ n # Gone /\ n.of = container[cid[w]].of
          /\ n.mount = container[cid[w]].mount /\ n.lost = container[cid[w]].lost
      BY <3>4, GoneFacts
    <3>6. container' = [container EXCEPT ![cid[w]] = n]
      BY <2>1
    <3> HIDE DEF x, n
    <3>7. Hosts(w)
      BY <2>0, <3>1, <3>3, <3>5, <3>6 DEF Hosts, TypeOK, Ranges
    <3> QED BY <3>1, <3>2, <3>7
  <2>2. CASE Return(w, BuildFailure, 0, "stop") /\ UNCHANGED container
    <3>1. Moves(w, "stop") /\ pc'[w] = "stop" /\ cid' = cid
      BY <1>1, <1>2, <2>0, <2>2, ResultFacts DEF PCs, WithContainer
    <3>2. Files(w) /\ Hosts(w) /\ Loops(w)
      BY <2>0, <2>2, <3>1, FilesSame, HostsSame, LoopsSame
    <3> QED BY <3>1, <3>2
  <2> QED BY <1>7, <2>1, <2>2 DEF Build
<1>8. CASE Tests(w)
  <2>0. pc[w] = "tests" /\ UNCHANGED <<hostVars, fd, test, callerVars>>
    BY <1>8 DEF Tests, localVars
  <2>1. CASE Return(w, Accepted, 0, "stop")
    <3>1. Moves(w, "stop") /\ pc'[w] = "stop" /\ cid' = cid
      BY <1>1, <1>2, <2>0, <2>1, ResultFacts DEF PCs, WithContainer
    <3> QED BY <2>0, <3>1, FilesSame, HostsSame, LoopsSame DEF hostVars
  <2>2. CASE test[w] <= Len(Program(w).tests) /\ GoTo(w, "run")
    <3>1. Moves(w, "run") /\ pc'[w] = "run" /\ cid' = cid
      BY <1>2, <2>0, <2>2 DEF PCs, WithContainer
    <3>2. test[w] \in DOMAIN Program(w).tests
      BY <1>0, <2>2, MaxTestsAssumption
    <3>3. Loops(w)
      BY <2>0, <3>1, <3>2 DEF Loops, TypeOK, Ranges
    <3> QED BY <2>0, <3>1, <3>3, FilesSame, HostsSame DEF hostVars
  <2> QED BY <1>8, <2>1, <2>2 DEF Tests
<1>9. CASE RunTest(w)
  <2>0. pc[w] = "run" /\ UNCHANGED <<hostVars, fd, callerVars>>
    BY <1>9 DEF RunTest
  <2>1. CASE test' = [test EXCEPT ![w] = @ + 1] /\ GoTo(w, "tests")
    <3>1. Moves(w, "tests") /\ pc'[w] = "tests" /\ cid' = cid
      BY <1>2, <2>0, <2>1 DEF PCs, WithContainer
    <3>2. test[w] + 1 \in 0 .. MaxTests + 1
      BY <1>0, <2>0, MaxTestsAssumption
    <3>3. Loops(w)
      BY <2>1, <3>1, <3>2 DEF Loops, TypeOK, Ranges
    <3> QED BY <2>0, <3>1, <3>3, FilesSame, HostsSame DEF hostVars
  <2>2. CASE GoTo(w, "hung") /\ UNCHANGED test
    <3>1. Moves(w, "hung") /\ pc'[w] = "hung" /\ cid' = cid
      BY <1>2, <2>0, <2>2 DEF PCs, WithContainer
    <3>2. Loops(w)
      BY <1>0, <2>0, <2>2, <3>1 DEF Loops, TypeOK, Ranges
    <3> QED BY <2>0, <3>1, <3>2, FilesSame, HostsSame DEF hostVars
  <2>3. ASSUME NEW v \in Results, Return(w, v, test[w], "stop"), UNCHANGED test
        PROVE  Moves(w, "stop") /\ Files(w) /\ Hosts(w) /\ Loops(w)
    <3>1. Moves(w, "stop") /\ pc'[w] = "stop" /\ cid' = cid
      BY <1>1, <1>2, <2>0, <2>3 DEF PCs, WithContainer
    <3> QED BY <2>0, <2>3, <3>1, FilesSame, HostsSame, LoopsSame DEF hostVars
  <2> QED BY <1>9, <2>1, <2>2, <2>3, ResultFacts DEF RunTest
<1>10. CASE DockerStop(w)
  <2>0. pc[w] = "stop" /\ UNCHANGED <<dir, file, fd, test, callerVars>>
    BY <1>10 DEF DockerStop, localVars
  <2>1. Moves(w, "remove") /\ pc'[w] = "remove" /\ cid' = cid
    BY <1>2, <1>10, <2>0 DEF DockerStop, PCs, WithContainer
  <2>2. Hosts(w)
    BY <1>10, <2>0, <2>1 DEF DockerStop, Hosts, TypeOK, Ranges, WithContainer
  <2> QED BY <2>0, <2>1, <2>2, FilesSame, LoopsSame
<1>11. CASE RemoveAll(w) \/ RemoveDir(w)
  <2>0. UNCHANGED <<file, fd, container, test, callerVars>>
    BY <1>11 DEF RemoveAll, RemoveDir, localVars
  <2>1. PICK label \in {"rmdir", "return"} :
               Moves(w, label) /\ pc'[w] = label /\ cid' = cid
    BY <1>2, <1>11, <2>0 DEF RemoveAll, RemoveDir, PCs, WithContainer
  <2>2. \/ UNCHANGED dir
        \/ \E d \in {"none", "empty", "file", "mountpoint"} :
             /\ dir' = [dir EXCEPT ![task[w]] = d]
             /\ d = "file" => dir[task[w]] = "file"
    <3>1. dir[task[w]] \in {"none", "empty", "file", "mountpoint"}
      BY <1>0 DEF TypeOK, Ranges
    <3>2. CASE dir' = [dir EXCEPT ![task[w]] = IF @ = "none" THEN "none" ELSE "empty"]
      BY <3>1, <3>2
    <3>3. CASE dir' = [dir EXCEPT ![task[w]] = IF @ = "empty" THEN "none" ELSE @]
      BY <3>1, <3>3
    <3> QED BY <1>11, <3>2, <3>3 DEF RemoveAll, RemoveDir
  <2>3. Files(w)
    BY <1>0, <2>0, <2>1, <2>2, FilesSame, DirMoves
  <2> QED BY <2>0, <2>1, <2>3, HostsSame, LoopsSame DEF WithContainer
<1> QED BY <1>3, <1>4, <1>5, <1>6, <1>7, <1>8, <1>9, <1>10, <1>11 DEF Proceed

\* What a step of Execute leaves to the other workers.
LEMMA OthersKeep ==
  ASSUME TypeOK, NEW w \in Workers, NEW label, Moves(w, label), Hosts(w),
         NEW v \in Workers \ {w}
  PROVE  /\ pc'[v] = pc[v] /\ task'[v] = task[v] /\ Program(v)' = Program(v)
         /\ cid'[v] = cid[v] /\ outcome'[v] = outcome[v]
         /\ pc[v] \in WithContainer => container'[cid[v]] = container[cid[v]]
<1>1. /\ pc'[v] = pc[v] /\ task'[v] = task[v] /\ Program(v)' = Program(v)
      /\ cid'[v] = cid[v] /\ outcome'[v] = outcome[v]
  BY DEF Moves, TypeOK, Ranges, Program, callerVars
<1>2. ASSUME pc[v] \in WithContainer PROVE container'[cid[v]] = container[cid[v]]
  <2>1. /\ cid[v] \in Containers /\ container[cid[v]] # Gone
        /\ pc[w] \in WithContainer => cid[w] # cid[v]
    BY <1>2 DEF TypeOK, OwnContainer
  <2> QED BY <2>1 DEF Hosts, WithContainer
<1> QED BY <1>1, <1>2

LEMMA ProceedType ==
  ASSUME TypeOK, NEW w \in Workers, Proceed(w)
  PROVE  TypeOK'
<1>1. PICK label : Moves(w, label) /\ Files(w) /\ Hosts(w) /\ Loops(w)
  BY Shape
<1>2. Ranges'
  BY <1>1 DEF Moves, Files, Hosts, Loops, TypeOK, Ranges, callerVars
<1>3. pc'[w] = label /\ task'[w] = task[w] /\ Program(w)' = Program(w)
      /\ task[w] \in Submissions /\ test[w] >= 1 /\ test[w] \in Int
  BY <1>1, MaxTestsAssumption
     DEF Moves, TypeOK, Ranges, InsideTests, Program, callerVars
<1>4. FilesExist'
  <2>1. \A s \in Submissions : dir'[s] = "file" => file'[s] # <<>>
    BY <1>1 DEF Files
  <2>2. ASSUME NEW v \in Workers, pc'[v] = "write"
        PROVE  fd'[v] \in 1 .. Len(file'[task'[v]])
    <3>1. CASE v = w
      BY <1>1, <1>3, <2>2, <3>1 DEF Files
    <3>2. CASE v # w
      <4>1. /\ pc[v] = "write" /\ task'[v] = task[v] /\ fd'[v] = fd[v]
        BY <1>1, <2>2, <3>2, OthersKeep DEF Files
      <4>2. task[v] \in Submissions /\ fd[v] \in 1 .. Len(file[task[v]])
        BY <4>1 DEF TypeOK, InsideTests, FilesExist
      <4>3. /\ Len(file[task[v]]) \in Int /\ Len(file'[task[v]]) \in Int
            /\ Len(file'[task[v]]) >= Len(file[task[v]])
        BY <1>1, <4>2 DEF Files, TypeOK, Ranges
      <4> QED BY <4>1, <4>2, <4>3
    <3> QED BY <3>1, <3>2
  <2>3. ASSUME NEW c \in Containers, container'[c] # Gone
        PROVE  container'[c].mount \in 0 .. Len(file'[container'[c].of])
    <3> DEFINE m == container'[c].mount
               s == container'[c].of
    <3>1. m \in 0 .. Len(file[s])
      <4>1. \/ container'[c] = container[c]
            \/ s = task[w] /\ m \in 0 .. Len(file[task[w]])
            \/ /\ c = cid[w] /\ pc[w] = "build"
               /\ s = container[c].of /\ m = container[c].mount
        BY <1>1, <2>3 DEF Hosts
      <4>2. c = cid[w] /\ pc[w] = "build" => container[c] # Gone
        BY DEF TypeOK, OwnContainer, WithContainer
      <4> QED BY <2>3, <4>1, <4>2 DEF TypeOK, FilesExist
    <3>2. s \in Submissions
      BY <1>2, <2>3 DEF Ranges, Mounted
    <3>3. /\ Len(file[s]) \in Int /\ Len(file'[s]) \in Int
          /\ Len(file'[s]) >= Len(file[s])
      BY <1>1, <3>2 DEF Files, TypeOK, Ranges
    <3> HIDE DEF m, s
    <3>4. m \in 0 .. Len(file'[s])
      BY <3>1, <3>3
    <3> QED BY <3>4 DEF m, s
  <2> QED BY <2>1, <2>2, <2>3 DEF FilesExist
<1>5. OwnContainer'
  <2>1. ASSUME NEW u \in Workers, pc'[u] \in WithContainer
        PROVE  /\ cid'[u] \in Containers
               /\ container'[cid'[u]] # Gone
               /\ container'[cid'[u]].of = task'[u]
    <3>1. CASE u # w
      <4>1. /\ pc[u] \in WithContainer /\ cid'[u] = cid[u] /\ task'[u] = task[u]
            /\ container'[cid[u]] = container[cid[u]]
        BY <1>1, <2>1, <3>1, OthersKeep
      <4> QED BY <4>1 DEF TypeOK, OwnContainer
    <3>2. CASE u = w /\ pc[w] = "start"
      <4>1. /\ cid'[w] \in Containers
            /\ container'[cid'[w]] = Made(task[w], FALSE)
        BY <1>1, <2>1, <3>2 DEF Hosts
      <4>2. Made(task[w], FALSE) # Gone /\ Made(task[w], FALSE).of = task[w]
        BY GoneFacts
      <4> QED BY <1>3, <3>2, <4>1, <4>2
    <3>3. CASE u = w /\ pc[w] # "start"
      <4>1. /\ pc[w] \in WithContainer \ {"stop"} /\ cid'[w] = cid[w]
            /\ cid[w] \in Containers /\ container[cid[w]] # Gone
            /\ container[cid[w]].of = task[w]
        BY <1>1, <1>3, <2>1, <3>3 DEF Moves, Hosts, TypeOK, OwnContainer
      <4> QED BY <1>1, <1>3, <3>3, <4>1 DEF Hosts
    <3> QED BY <3>1, <3>2, <3>3
  <2>2. ASSUME NEW u \in Workers, NEW v \in Workers \ {u},
               pc'[u] \in WithContainer, pc'[v] \in WithContainer, u # w
        PROVE  cid'[u] # cid'[v]
    <3>1. /\ pc[u] \in WithContainer /\ cid'[u] = cid[u]
          /\ cid[u] \in Containers /\ container[cid[u]] # Gone
      BY <1>1, <2>2, OthersKeep DEF TypeOK, OwnContainer
    <3>2. CASE v # w
      <4>1. pc[v] \in WithContainer /\ cid'[v] = cid[v]
        BY <1>1, <2>2, <3>2, OthersKeep
      <4> QED BY <3>1, <4>1 DEF TypeOK, OwnContainer
    <3>3. CASE v = w /\ pc[w] = "start"
      BY <1>1, <2>2, <3>1, <3>3 DEF Hosts
    <3>4. CASE v = w /\ pc[w] # "start"
      <4>1. pc[w] \in WithContainer /\ cid'[w] = cid[w]
        BY <1>1, <1>3, <2>2, <3>4 DEF Moves, Hosts
      <4> QED BY <2>2, <3>1, <3>4, <4>1 DEF TypeOK, OwnContainer
    <3> QED BY <3>2, <3>3, <3>4
  <2>3. ASSUME NEW u \in Workers, NEW v \in Workers \ {u},
               pc'[u] \in WithContainer, pc'[v] \in WithContainer
        PROVE  cid'[v] # cid'[u]
    <3>1. CASE u # w
      BY <2>2, <2>3, <3>1
    <3>2. CASE u = w
      <4>1. v \in Workers /\ u \in Workers \ {v} /\ v # w
        BY <3>2
      <4> QED BY <2>2, <2>3, <4>1
    <3> QED BY <3>1, <3>2
  <2> QED BY <2>1, <2>3 DEF OwnContainer
<1>6. InsideTests'
  <2> SUFFICES ASSUME NEW u \in Workers
               PROVE  /\ pc'[u] # "idle" => task'[u] \in Submissions /\ test'[u] >= 1
                      /\ pc'[u] \in {"run", "hung"} =>
                           test'[u] \in DOMAIN Program(u)'.tests
    BY DEF InsideTests
  <2>1. CASE u # w
    <3>1. /\ pc'[u] = pc[u] /\ task'[u] = task[u] /\ test'[u] = test[u]
          /\ Program(u)' = Program(u)
      BY <1>1, <2>1, OthersKeep DEF Loops
    <3> QED BY <3>1 DEF TypeOK, InsideTests
  <2>2. CASE u = w
    BY <1>1, <1>3, <2>2 DEF Loops
  <2> QED BY <2>1, <2>2
<1> QED BY <1>2, <1>4, <1>5, <1>6 DEF TypeOK

\* Every step keeps the variables in their ranges and containers apart.
LEMMA TypeStep == TypeOK /\ [Next]_vars => TypeOK'
<1> SUFFICES ASSUME TypeOK, [Next]_vars
             PROVE  TypeOK'
  OBVIOUS
<1>0. NoOutcome \in Outcomes
  BY ResultFacts, OutcomeFacts, MaxTestsAssumption DEF NoOutcome
<1>1. ASSUME NEW w \in Workers, NEW s \in Submissions, Call(w, s)
      PROVE  TypeOK'
  <2>1. Ranges'
    BY <1>1, MaxTestsAssumption, RetriesType
       DEF Call, Begin, TypeOK, Ranges, PCs, hostVars
  <2>2. FilesExist' /\ OwnContainer'
    BY <1>1 DEF Call, Begin, TypeOK, Ranges, FilesExist, OwnContainer,
                WithContainer, hostVars
  <2>3. InsideTests'
    BY <1>1, MaxTestsAssumption DEF Call, Begin, TypeOK, Ranges, InsideTests, Program
  <2> QED BY <2>1, <2>2, <2>3 DEF TypeOK
<1>2. ASSUME NEW w \in Workers, Report(w)
      PROVE  TypeOK'
  <2>1. Ranges'
    BY <1>0, <1>2, MaxTestsAssumption
       DEF Report, TypeOK, Ranges, PCs, hostVars, InsideTests
  <2>2. FilesExist' /\ OwnContainer'
    BY <1>2 DEF Report, TypeOK, Ranges, FilesExist, OwnContainer,
                WithContainer, hostVars
  <2>3. InsideTests'
    BY <1>2 DEF Report, TypeOK, Ranges, InsideTests, Program
  <2> QED BY <2>1, <2>2, <2>3 DEF TypeOK
<1>3. CASE Crash
  <2>1. Ranges'
    BY <1>0, <1>3, MaxTestsAssumption
       DEF Crash, TypeOK, Ranges, PCs, hostVars, callerVars
  <2>2. FilesExist' /\ OwnContainer' /\ InsideTests'
    BY <1>3 DEF Crash, TypeOK, FilesExist, OwnContainer, InsideTests,
                WithContainer, hostVars
  <2> QED BY <2>1, <2>2 DEF TypeOK
<1>4. ASSUME NEW w \in Workers, Proceed(w)
      PROVE  TypeOK'
  BY <1>4, ProceedType
<1>5. CASE UNCHANGED vars
  BY <1>5 DEF vars, TypeOK, Ranges, FilesExist, OwnContainer, InsideTests, Program
<1> QED BY <1>1, <1>2, <1>3, <1>4, <1>5 DEF Next

\* The ranges of the variables, whatever fails: no two calls ever use one
\* container, files are open and mounted only after they were made, and the loop
\* stays inside the test cases (TypeOK of CodeRunner).
THEOREM RunnerTypeCorrect == Spec => []TypeOK
BY TypeInit, TypeStep, PTL DEF Spec
-----------------------------------------------------------------------------
(* Who executes what: a submission that was called once has one worker at most *)
(* and no result before that call returns.                                     *)

Sole(w) ==
  pc[w] # "idle" =>
    /\ calls[task[w]] >= 1
    /\ calls[task[w]] = 1 =>
         /\ reported[task[w]] = NoOutcome
         /\ \A v \in Workers \ {w} : pc[v] # "idle" => task[v] # task[w]

Once ==
  /\ \A w \in Workers : Sole(w)
  /\ \A s \in Submissions : calls[s] = 0 => reported[s] = NoOutcome

LEMMA OnceMoves ==
  ASSUME TypeOK, Once, NEW w \in Workers, NEW label, Moves(w, label)
  PROVE  Once'
<1>1. \A v \in Workers : pc'[v] # "idle" => pc[v] # "idle"
  BY DEF Moves, TypeOK, Ranges
<1> QED BY <1>1 DEF Once, Sole, Moves, callerVars

LEMMA OnceInit == Init => Once
BY DEF Init, Once, Sole

\* What a call changes.
LEMMA BeginFacts ==
  ASSUME TypeOK, NEW w \in Workers, NEW s \in Submissions, Begin(w, s)
  PROVE  /\ pc[w] = "idle" /\ pc'[w] = "mkdir" /\ task'[w] = s /\ test'[w] = 1
         /\ calls[s] \in Nat /\ calls'[s] = calls[s] + 1
         /\ \A v \in Workers \ {w} :
              pc'[v] = pc[v] /\ task'[v] = task[v] /\ test'[v] = test[v]
         /\ \A t \in Submissions \ {s} : calls'[t] = calls[t]
         /\ \A t \in Submissions : calls[t] \in Nat /\ calls'[t] \in Nat
                                   /\ calls'[t] >= calls[t]
         /\ UNCHANGED <<program, reported, dir, file, container, fd, cid, outcome>>
BY RetriesType DEF Begin, TypeOK, Ranges, hostVars

\* What the end of a call changes.
LEMMA ReportFacts ==
  ASSUME TypeOK, NEW w \in Workers, Report(w)
  PROVE  /\ pc[w] = "return" /\ task[w] \in Submissions
         /\ pc'[w] = "idle" /\ outcome'[w] = NoOutcome
         /\ \A v \in Workers \ {w} :
              /\ pc'[v] = pc[v] /\ task'[v] = task[v] /\ test'[v] = test[v]
              /\ cid'[v] = cid[v] /\ outcome'[v] = outcome[v]
         /\ reported'[task[w]] = outcome[w]
         /\ \A s \in Submissions \ {task[w]} : reported'[s] = reported[s]
         /\ UNCHANGED <<program, calls, dir, file, container, fd>>
BY DEF Report, TypeOK, Ranges, InsideTests, hostVars

\* What the end of the process changes.
LEMMA CrashFacts ==
  ASSUME Crash
  PROVE  /\ \A w \in Workers : pc'[w] = "idle" /\ outcome'[w] = NoOutcome
         /\ UNCHANGED <<program, calls, reported, dir, file, container>>
BY DEF Crash, callerVars, hostVars

LEMMA OnceBegin ==
  ASSUME TypeOK, Once, NEW w \in Workers, NEW s \in Submissions, Begin(w, s)
  PROVE  Once'
<1>1. \A v \in Workers \ {w} : pc[v] # "idle" => task[v] \in Submissions
  BY DEF TypeOK, InsideTests
<1>2. calls'[s] = 1 => calls[s] = 0
  BY BeginFacts
<1>3. Sole(w)'
  <2>1. calls'[s] >= 1
    BY BeginFacts
  <2>2. ASSUME calls'[s] = 1, NEW v \in Workers \ {w}, pc[v] # "idle" PROVE task[v] # s
    BY <1>1, <1>2, <2>2 DEF Once, Sole
  <2> QED BY <1>2, <2>1, <2>2, BeginFacts DEF Once, Sole
<1>4. ASSUME NEW v \in Workers \ {w} PROVE Sole(v)'
  <2>1. CASE pc[v] # "idle" /\ task[v] # s
    BY <1>1, <2>1, BeginFacts DEF Once, Sole
  <2>2. CASE pc[v] # "idle" /\ task[v] = s
    <3>1. calls[s] >= 1
      BY <2>2 DEF Once, Sole
    <3>2. calls'[s] >= 2
      BY <3>1, BeginFacts
    <3>3. calls'[s] >= 1 /\ calls'[s] # 1
      BY <3>2, BeginFacts
    <3> QED BY <2>2, <3>3, BeginFacts DEF Sole
  <2>3. CASE pc[v] = "idle"
    BY <2>3, BeginFacts DEF Sole
  <2> QED BY <2>1, <2>2, <2>3
<1>5. \A t \in Submissions : calls'[t] = 0 => calls[t] = 0
  BY BeginFacts
<1> QED BY <1>3, <1>4, <1>5, BeginFacts DEF Once

LEMMA OnceReport ==
  ASSUME TypeOK, Once, NEW w \in Workers, Report(w)
  PROVE  Once'
<1>1. ASSUME NEW v \in Workers \ {w} PROVE Sole(v)'
  <2>1. pc[v] # "idle" => task[v] \in Submissions
    BY DEF TypeOK, InsideTests
  <2>2. CASE pc[v] # "idle" /\ task[v] = task[w]
    <3>1. calls[task[v]] # 1 /\ calls[task[v]] >= 1
      BY <2>2, ReportFacts DEF Once, Sole
    <3> QED BY <2>2, <3>1, ReportFacts DEF Sole
  <2>3. CASE pc[v] # "idle" /\ task[v] # task[w]
    <3>1. Sole(v)
      BY DEF Once
    <3>2. reported'[task[v]] = reported[task[v]] /\ calls' = calls
      BY <2>1, <2>3, ReportFacts
    <3>3. \A u \in Workers \ {v} : pc'[u] # "idle" =>
            pc[u] # "idle" /\ task'[u] = task[u]
      BY ReportFacts
    <3>4. task'[v] = task[v]
      BY ReportFacts
    <3> QED BY <2>3, <3>1, <3>2, <3>3, <3>4 DEF Sole
  <2>4. CASE pc[v] = "idle"
    BY <2>4, ReportFacts DEF Sole
  <2> QED BY <2>2, <2>3, <2>4
<1>2. Sole(w)'
  BY ReportFacts DEF Sole
<1>3. calls[task[w]] >= 1
  BY ReportFacts DEF Once, Sole
<1>4. \A s \in Submissions : calls'[s] = 0 => reported'[s] = NoOutcome
  BY <1>3, ReportFacts DEF Once
<1> QED BY <1>1, <1>2, <1>4 DEF Once

LEMMA OnceStep ==
  ASSUME TypeOK, Once, [Next]_vars
  PROVE  Once'
<1>1. CASE Crash
  BY <1>1, CrashFacts DEF Once, Sole
<1>2. ASSUME NEW w \in Workers, Proceed(w)
      PROVE  Once'
  BY <1>2, Shape, OnceMoves
<1>3. CASE UNCHANGED vars
  BY <1>3 DEF vars, Once, Sole
<1> QED BY <1>1, <1>2, <1>3, OnceBegin, OnceReport DEF Next, Call

LEMMA ControlFacts ==
  ASSUME TypeOK, NEW w \in Workers
  PROVE  /\ \A k : GoTo(w, k) =>
              pc'[w] = k /\ cid' = cid /\ task' = task /\ outcome' = outcome
         /\ \A v, t, k : Return(w, v, t, k) =>
              /\ pc'[w] = k /\ cid' = cid /\ task' = task
              /\ outcome'[w] = Outcome(v, t) /\ outcome'[w].verdict = v
BY DEF GoTo, Return, Outcome, TypeOK, Ranges

-----------------------------------------------------------------------------
(* A call that is the only one for its submission finds what it has written:  *)
(* nobody removes, empties or mounts anything but the worker itself.           *)

Sourced(w) ==
  pc[w] # "idle" /\ calls[task[w]] = 1 =>
    /\ pc[w] = "mkdir" => dir[task[w]] = "none"
    /\ pc[w] = "open" => dir[task[w]] = "empty"
    /\ pc[w] = "write" =>
         dir[task[w]] = "file" /\ fd[w] = Len(file[task[w]])
    /\ pc[w] = "start" =>
         /\ dir[task[w]] = "file"
         /\ file[task[w]][Len(file[task[w]])] = "source"
    /\ pc[w] \in WithContainer => Text(cid[w]) = "source"
    /\ pc[w] \in {"tests", "run"} /\ NeedsCompilation(Program(w)) =>
         container[cid[w]].solution = "source"

Unwritten ==
  \A s \in Submissions : calls[s] = 0 =>
    /\ dir[s] = "none"
    /\ \A c \in Containers : container[c] # Gone => container[c].of # s

SInv == TypeOK /\ Once /\ Unwritten /\ \A w \in Workers : Sourced(w)

LEMMA SourcedInit == Init => SInv
<1>1. Init => Unwritten /\ \A w \in Workers : Sourced(w)
  BY DEF Init, Unwritten, Sourced
<1> QED BY <1>1, TypeInit, OnceInit DEF SInv

\* Two workers have nothing in common if one of them is alone with its submission.
LEMMA SourcedOthers ==
  ASSUME SInv, NEW w \in Workers, NEW label,
         Moves(w, label), Files(w), Hosts(w),
         NEW v \in Workers \ {w}
  PROVE  Sourced(v)'
<1>1. /\ pc'[v] = pc[v] /\ task'[v] = task[v] /\ Program(v)' = Program(v)
      /\ cid'[v] = cid[v] /\ calls' = calls
      /\ pc[v] \in WithContainer => container'[cid[v]] = container[cid[v]]
  BY OthersKeep DEF SInv, Moves, callerVars
<1> SUFFICES ASSUME pc[v] # "idle", calls[task[v]] = 1
             PROVE  Sourced(v)'
  BY <1>1 DEF Sourced
<1>2. task[v] \in Submissions /\ task[v] # task[w] /\ pc[w] # "idle"
  BY DEF SInv, Once, Sole, Moves, TypeOK, InsideTests
<1>3. /\ dir'[task[v]] = dir[task[v]] /\ file'[task[v]] = file[task[v]]
      /\ fd'[v] = fd[v]
  BY <1>2 DEF Files
<1>4. pc[v] \in WithContainer => Text(cid[v])' = Text(cid[v])
  <2>1. pc[v] \in WithContainer => container[cid[v]].of = task[v]
    BY DEF SInv, TypeOK, OwnContainer
  <2> QED BY <1>1, <1>3, <2>1 DEF Text
<1>5. {"tests", "run"} \subseteq WithContainer
  BY DEF WithContainer
<1>6. Sourced(v)
  BY DEF SInv
<1> QED BY <1>1, <1>3, <1>4, <1>5, <1>6 DEF Sourced

LEMMA SourcedOwn ==
  ASSUME SInv, NEW w \in Workers, Proceed(w)
  PROVE  Sourced(w)'
<1>1. PICK label : Moves(w, label) /\ Files(w) /\ Hosts(w) /\ Loops(w)
  BY Shape DEF SInv
<1>2. /\ pc[w] # "idle" /\ pc'[w] # "idle" /\ task'[w] = task[w]
      /\ task[w] \in Submissions /\ Program(w)' = Program(w) /\ calls' = calls
  BY <1>1 DEF Moves, SInv, TypeOK, Ranges, InsideTests, Program, callerVars
<1>3. /\ dir \in [Submissions -> {"none", "empty", "file", "mountpoint"}]
      /\ file \in [Submissions -> Seq(Contents)]
      /\ container \in [Containers -> Mounted \cup {Gone}]
      /\ cid \in [Workers -> Containers \cup {NoContainer}]
      /\ fd \in [Workers -> Nat]
  BY DEF SInv, TypeOK, Ranges
<1> SUFFICES ASSUME calls[task[w]] = 1 PROVE Sourced(w)'
  BY <1>2 DEF Sourced
<1>4. /\ \A k : GoTo(w, k) => pc'[w] = k /\ cid' = cid
      /\ \A v, t, k : Return(w, v, t, k) => pc'[w] = k /\ cid' = cid
  BY ControlFacts DEF SInv
<1>5. Sourced(w)
  BY DEF SInv
<1>6. CASE pc'[w] \in {"stop", "remove", "rmdir", "return", "hung"}
           /\ (pc'[w] \in WithContainer =>
                 pc[w] \in WithContainer /\ UNCHANGED <<file, container>> /\ cid' = cid)
  <2>1. pc'[w] \in WithContainer => Text(cid[w])' = "source"
    BY <1>2, <1>5, <1>6 DEF Sourced, Text
  <2> QED BY <1>6, <2>1 DEF Sourced
<1>7. CASE MkdirAll(w) /\ pc'[w] # "return"
  <2>1. pc'[w] = "open" /\ dir' = [dir EXCEPT ![task[w]] = IF @ = "none" THEN "empty" ELSE @]
    BY <1>4, <1>7 DEF MkdirAll
  <2>2. dir[task[w]] = "none"
    BY <1>2, <1>5, <1>7 DEF MkdirAll, Sourced
  <2>3. dir'[task[w]] = "empty"
    BY <1>2, <1>3, <2>1, <2>2
  <2> QED BY <1>2, <2>1, <2>3 DEF Sourced, WithContainer
<1>8. CASE OpenFile(w) /\ pc'[w] # "remove"
  <2>1. /\ pc'[w] = "write"
        /\ dir' = [dir EXCEPT ![task[w]] = "file"]
        /\ file' = [file EXCEPT ![task[w]] = Opened(task[w])]
        /\ fd' = [fd EXCEPT ![w] = Len(Opened(task[w]))]
    BY <1>4, <1>8 DEF OpenFile
  <2>2. dir'[task[w]] = "file" /\ fd'[w] = Len(file'[task[w]])
    BY <1>2, <1>3, <2>1
  <2> QED BY <1>2, <2>1, <2>2 DEF Sourced, WithContainer
<1>9. CASE WriteFile(w) /\ pc'[w] # "remove"
  <2>1. /\ pc'[w] = "start" /\ dir' = dir
        /\ file' = [file EXCEPT ![task[w]][fd[w]] = "source"]
    BY <1>4, <1>9 DEF WriteFile
  <2>2. dir[task[w]] = "file" /\ fd[w] = Len(file[task[w]])
    BY <1>2, <1>5, <1>9 DEF WriteFile, Sourced
  <2> DEFINE g == [file[task[w]] EXCEPT ![fd[w]] = "source"]
  <2>3. file[task[w]] \in Seq(Contents) /\ fd[w] \in 1 .. Len(file[task[w]])
        /\ "source" \in Contents
    BY <1>2, <1>3, <1>9 DEF WriteFile, SInv, TypeOK, FilesExist, Contents
  <2>4. g[fd[w]] = "source" /\ Len(g) = Len(file[task[w]])
    BY <2>3, WrittenFacts
  <2>5. file'[task[w]] = g
    BY <1>2, <1>3, <2>1
  <2> QED BY <1>2, <2>1, <2>2, <2>4, <2>5 DEF Sourced, WithContainer
<1>10. CASE DockerRun(w) /\ pc'[w] # "remove"
  <2>1. PICK c \in Containers :
           /\ Start(w, c, FALSE)
           /\ cid' = [cid EXCEPT ![w] = c]
           /\ pc' = [pc EXCEPT ![w] =
                IF NeedsCompilation(Program(w)) THEN "build" ELSE "tests"]
    BY <1>4, <1>10 DEF DockerRun
  <2>2. /\ dir[task[w]] = "file"
        /\ file[task[w]][Len(file[task[w]])] = "source"
    BY <1>2, <1>5, <1>10 DEF DockerRun, Sourced
  <2>3. /\ container'[c] = Made(task[w], FALSE)
        /\ Source(task[w]) = Len(file[task[w]])
        /\ cid'[w] = c /\ file' = file
    BY <1>2, <1>3, <1>10, <2>1, <2>2, StartFacts DEF SInv, Source, DockerRun
  <2>4. Len(file[task[w]]) # 0
    BY <1>2, <1>3, <2>2 DEF SInv, TypeOK, FilesExist
  <2>5. /\ container'[c].mount = Len(file[task[w]]) /\ container'[c].of = task[w]
    BY <2>3 DEF Made
  <2>6. Text(cid[w])' = "source"
    BY <2>2, <2>3, <2>4, <2>5 DEF Text
  <2>7. pc'[w] = IF NeedsCompilation(Program(w)) THEN "build" ELSE "tests"
    BY <2>1 DEF SInv, TypeOK, Ranges
  <2> QED BY <1>2, <2>6, <2>7 DEF Sourced, WithContainer
<1>11. CASE Build(w) /\ pc'[w] # "stop"
  <2>1. /\ pc'[w] = "tests" /\ cid' = cid /\ pc[w] = "build" /\ file' = file
        /\ container' = [container EXCEPT ![cid[w]].solution = Text(cid[w])]
    BY <1>4, <1>11 DEF Build
  <2>2. Text(cid[w]) = "source"
    BY <1>2, <1>5, <2>1 DEF Sourced, WithContainer
  <2>3. cid[w] \in Containers /\ container[cid[w]] \in Mounted
    BY <1>3, <2>1 DEF SInv, TypeOK, OwnContainer, WithContainer
  <2> DEFINE n == [container[cid[w]] EXCEPT !.solution = "source"]
  <2>4. n.solution = "source" /\ n.of = container[cid[w]].of
        /\ n.mount = container[cid[w]].mount
    BY <2>3, GoneFacts DEF Contents
  <2>5. container'[cid[w]] = n
    BY <1>3, <2>1, <2>2, <2>3
  <2> HIDE DEF n
  <2>6. Text(cid[w])' = "source"
    BY <2>1, <2>2, <2>4, <2>5 DEF Text
  <2> QED BY <1>2, <2>1, <2>4, <2>5, <2>6 DEF Sourced
<1>12. CASE /\ pc[w] \in {"tests", "run"} /\ pc'[w] \in {"tests", "run"}
            /\ UNCHANGED hostVars /\ cid' = cid
  <2>1. Text(cid[w])' = Text(cid[w]) /\ container'[cid'[w]] = container[cid[w]]
    BY <1>12 DEF Text, hostVars
  <2>2. {"tests", "run"} \subseteq WithContainer
    BY DEF WithContainer
  <2> QED BY <1>2, <1>5, <1>12, <2>1, <2>2 DEF Sourced
<1>13. CASE MkdirAll(w)
  BY <1>6, <1>7, <1>13 DEF WithContainer
<1>14. CASE OpenFile(w)
  BY <1>6, <1>8, <1>14 DEF WithContainer
<1>15. CASE WriteFile(w)
  BY <1>6, <1>9, <1>15 DEF WithContainer
<1>16. CASE DockerRun(w)
  BY <1>6, <1>10, <1>16 DEF WithContainer
<1>17. CASE Build(w)
  <2>1. CASE pc'[w] = "stop"
    <3>1. UNCHANGED <<file, container>> /\ cid' = cid /\ pc[w] = "build"
      BY <1>4, <1>17, <2>1 DEF Build
    <3> QED BY <1>6, <2>1, <3>1 DEF WithContainer
  <2> QED BY <1>11, <1>17, <2>1
<1>18. CASE Tests(w)
  <2>1. pc'[w] \in {"stop", "run"} /\ cid' = cid /\ pc[w] = "tests" /\ UNCHANGED hostVars
    BY <1>4, <1>18 DEF Tests
  <2> QED BY <1>6, <1>12, <2>1 DEF WithContainer, hostVars
<1>19. CASE RunTest(w)
  <2>1. /\ pc'[w] \in {"stop", "hung", "tests"} /\ cid' = cid
        /\ pc[w] = "run" /\ UNCHANGED hostVars
    BY <1>4, <1>19 DEF RunTest
  <2> QED BY <1>6, <1>12, <2>1 DEF WithContainer, hostVars
<1>20. CASE DockerStop(w) \/ RemoveAll(w) \/ RemoveDir(w)
  BY <1>4, <1>6, <1>20 DEF DockerStop, RemoveAll, RemoveDir, WithContainer
<1> QED BY <1>13, <1>14, <1>15, <1>16, <1>17, <1>18, <1>19, <1>20 DEF Proceed

\* A submission that nobody executes has nothing on the host.
LEMMA UnwrittenMoves ==
  ASSUME SInv, NEW w \in Workers, NEW label,
         Moves(w, label), Files(w), Hosts(w)
  PROVE  Unwritten'
<1>1. /\ calls' = calls /\ task[w] \in Submissions /\ calls[task[w]] # 0
      /\ pc[w] \in WithContainer => container[cid[w]] # Gone
  <2>1. calls[task[w]] \in Nat /\ calls[task[w]] >= 1 /\ task[w] \in Submissions
    BY RetriesType DEF Moves, SInv, Once, Sole, TypeOK, Ranges, InsideTests
  <2> QED BY <2>1 DEF Moves, SInv, TypeOK, OwnContainer, callerVars
<1>2. \A c \in Containers : container'[c] # Gone =>
        \/ container[c] # Gone /\ container'[c].of = container[c].of
        \/ container'[c].of = task[w]
  BY <1>1 DEF Hosts, WithContainer
<1>3. ASSUME NEW s \in Submissions, calls'[s] = 0
      PROVE  /\ dir'[s] = "none"
             /\ \A c \in Containers : container'[c] # Gone => container'[c].of # s
  <2>1. calls[s] = 0 /\ s # task[w]
    BY <1>1, <1>3
  <2>2. dir'[s] = dir[s]
    BY <2>1 DEF Files
  <2>3. dir[s] = "none" /\ \A c \in Containers : container[c] # Gone => container[c].of # s
    BY <2>1 DEF SInv, Unwritten
  <2> QED BY <1>2, <2>1, <2>2, <2>3
<1> QED BY <1>3 DEF Unwritten

LEMMA SourcedBegin ==
  ASSUME SInv, NEW w \in Workers, NEW s \in Submissions, Begin(w, s)
  PROVE  Unwritten' /\ \A v \in Workers : Sourced(v)'
<1> USE DEF SInv
<1>1. calls'[s] = 1 => calls[s] = 0
  BY BeginFacts
<1>2. Sourced(w)'
  BY <1>1, BeginFacts DEF Sourced, Unwritten, WithContainer
<1>3. ASSUME NEW v \in Workers \ {w} PROVE Sourced(v)'
  <2>1. /\ pc'[v] = pc[v] /\ task'[v] = task[v] /\ Program(v)' = Program(v)
        /\ Text(cid[v])' = Text(cid[v])
        /\ UNCHANGED <<dir, file, fd, container, cid>>
    BY BeginFacts DEF Program, Text
  <2>2. ASSUME pc[v] # "idle", calls'[task[v]] = 1 PROVE calls[task[v]] = 1
    <3>1. task[v] \in Submissions /\ calls[task[v]] >= 1
      BY <2>2 DEF Once, Sole, TypeOK, InsideTests
    <3> QED BY <2>2, <3>1, BeginFacts
  <2>3. Sourced(v)
    OBVIOUS
  <2> QED BY <2>1, <2>2, <2>3 DEF Sourced
<1>4. \A t \in Submissions : calls'[t] = 0 => calls[t] = 0
  BY BeginFacts
<1> QED BY <1>2, <1>3, <1>4, BeginFacts DEF Unwritten

LEMMA SourcedStep ==
  ASSUME SInv, [Next]_vars
  PROVE  SInv'
<1>0. TypeOK /\ TypeOK' /\ Once'
  BY TypeStep, OnceStep DEF SInv
<1>1. ASSUME NEW w \in Workers, NEW s \in Submissions, Call(w, s)
      PROVE  SInv'
  BY <1>0, <1>1, SourcedBegin DEF Call, SInv
<1>2. ASSUME NEW w \in Workers, Report(w)
      PROVE  SInv'
  <2>1. ASSUME NEW v \in Workers PROVE Sourced(v)'
    <3>1. CASE v = w
      BY <1>0, <1>2, <3>1, ReportFacts DEF Sourced
    <3>2. CASE v # w
      <4>1. /\ pc'[v] = pc[v] /\ task'[v] = task[v] /\ cid'[v] = cid[v]
            /\ UNCHANGED <<calls, program, dir, file, fd, container>>
        BY <1>0, <1>2, <3>2, ReportFacts
      <4>2. Program(v)' = Program(v) /\ Text(cid[v])' = Text(cid[v])
        BY <4>1 DEF Program, Text
      <4>3. Sourced(v)
        BY DEF SInv
      <4> QED BY <4>1, <4>2, <4>3 DEF Sourced
    <3> QED BY <3>1, <3>2
  <2>2. Unwritten'
    BY <1>0, <1>2, ReportFacts DEF SInv, Unwritten
  <2> QED BY <1>0, <2>1, <2>2 DEF SInv
<1>3. CASE Crash
  BY <1>0, <1>3, CrashFacts DEF SInv, Sourced, Unwritten
<1>4. ASSUME NEW w \in Workers, Proceed(w)
      PROVE  SInv'
  <2>1. PICK label : Moves(w, label) /\ Files(w) /\ Hosts(w)
    BY <1>0, <1>4, Shape
  <2>2. \A v \in Workers : Sourced(v)'
    BY <1>4, <2>1, SourcedOwn, SourcedOthers
  <2> QED BY <1>0, <2>1, <2>2, UnwrittenMoves DEF SInv
<1>5. CASE UNCHANGED vars
  <2>1. \A v \in Workers : Program(v)' = Program(v) /\ Text(cid[v])' = Text(cid[v])
    BY <1>5 DEF vars, Program, Text
  <2> QED BY <1>0, <1>5, <2>1 DEF vars, SInv, Sourced, Unwritten
<1> QED BY <1>1, <1>2, <1>3, <1>4, <1>5 DEF Next

-----------------------------------------------------------------------------
(* Without a full disk no file holds a part of a program.                     *)

Whole == {"nothing", "source"}

NoParts ==
  "disk" \notin Faults =>
    /\ file \in [Submissions -> Seq(Whole)]
    /\ \A c \in Containers : container[c].solution # "part"

LEMMA WholeFacts ==
  ASSUME NEW f \in Seq(Whole), NEW i, NEW x \in Whole
  PROVE  [f EXCEPT ![i] = x] \in Seq(Whole)
<1> DEFINE g == [f EXCEPT ![i] = x]
<1>1. Len(f) \in Nat /\ f \in [1 .. Len(f) -> Whole]
  OBVIOUS
<1>2. g \in [1 .. Len(f) -> Whole]
  BY <1>1
<1> HIDE DEF g
<1>3. g \in Seq(Whole)
  BY <1>1, <1>2
<1> QED BY <1>3 DEF g

LEMMA NoPartsInit == Init => NoParts
BY DEF Init, NoParts, Gone

LEMMA NoPartsText ==
  ASSUME TypeOK, NoParts, "disk" \notin Faults, NEW w \in Workers,
         pc[w] \in WithContainer
  PROVE  Text(cid[w]) # "part"
<1>1. /\ cid[w] \in Containers /\ container[cid[w]] \in Mounted
      /\ container[cid[w]].mount \in 0 .. Len(file[container[cid[w]].of])
      /\ container[cid[w]].of \in Submissions
  BY DEF TypeOK, Ranges, OwnContainer, FilesExist, Mounted
<1>2. file[container[cid[w]].of] \in Seq(Whole)
  BY <1>1 DEF NoParts
<1>3. CASE container[cid[w]].mount = 0
  BY <1>3 DEF Text
<1>4. CASE container[cid[w]].mount # 0
  <2>1. file[container[cid[w]].of][container[cid[w]].mount] \in Whole
    BY <1>1, <1>2, <1>4
  <2> QED BY <1>4, <2>1 DEF Text, Whole
<1> QED BY <1>3, <1>4

LEMMA NoPartsProceed ==
  ASSUME TypeOK, NoParts, NEW w \in Workers, Proceed(w)
  PROVE  NoParts'
<1> SUFFICES ASSUME "disk" \notin Faults
             PROVE  /\ file' \in [Submissions -> Seq(Whole)]
                    /\ \A c \in Containers : container'[c].solution # "part"
  BY DEF NoParts
<1>1. /\ file \in [Submissions -> Seq(Whole)]
      /\ \A c \in Containers : container[c].solution # "part"
      /\ container \in [Containers -> Mounted \cup {Gone}]
      /\ cid \in [Workers -> Containers \cup {NoContainer}]
      /\ task[w] \in Submissions
  <2>1. pc[w] # "idle"
    BY DEF Proceed, MkdirAll, OpenFile, WriteFile, DockerRun, Build, Tests,
           RunTest, DockerStop, RemoveAll, RemoveDir
  <2> QED BY <2>1 DEF NoParts, TypeOK, Ranges, InsideTests
<1>2. CASE OpenFile(w)
  <2>1. container' = container
        /\ (file' = file \/ file' = [file EXCEPT ![task[w]] = Opened(task[w])])
    BY <1>2 DEF OpenFile
  <2>2. Opened(task[w]) \in Seq(Whole)
    <3>1. file[task[w]] \in Seq(Whole) /\ "nothing" \in Whole
      BY <1>1 DEF Whole
    <3>2. [file[task[w]] EXCEPT ![Len(file[task[w]])] = "nothing"] \in Seq(Whole)
      BY <3>1, WholeFacts
    <3>3. Append(file[task[w]], "nothing") \in Seq(Whole)
      BY <3>1
    <3> QED BY <3>2, <3>3 DEF Opened
  <2> QED BY <1>1, <2>1, <2>2
<1>3. CASE WriteFile(w)
  <2> DEFINE g == [file[task[w]] EXCEPT ![fd[w]] = "source"]
  <2>1. container' = container /\ file' = [file EXCEPT ![task[w]] = g]
    BY <1>3 DEF WriteFile
  <2>2. g \in Seq(Whole)
    <3>1. file[task[w]] \in Seq(Whole) /\ "source" \in Whole
      BY <1>1 DEF Whole
    <3> QED BY <3>1, WholeFacts
  <2> QED BY <1>1, <2>1, <2>2
<1>4. CASE DockerRun(w)
  <2>1. file' = file
    BY <1>4 DEF DockerRun
  <2>2. CASE container' = container
    BY <1>1, <2>1, <2>2
  <2>3. CASE container' # container
    <3>1. PICK c \in Containers, lost \in BOOLEAN : Start(w, c, lost)
      BY <1>4, <2>3 DEF DockerRun
    <3>2. container' = [container EXCEPT ![c] = Made(task[w], lost)]
      BY <1>1, <3>1, StartFacts
    <3>3. Made(task[w], lost).solution = "none"
      BY DEF Made
    <3> QED BY <1>1, <2>1, <3>2, <3>3
  <2> QED BY <2>2, <2>3
<1>5. CASE Build(w)
  <2>1. /\ file' = file /\ pc[w] = "build"
        /\ \/ container' = container
           \/ container' = [container EXCEPT ![cid[w]].solution = Text(cid[w])]
              /\ Text(cid[w]) \in {"source", "part"}
    BY <1>5 DEF Build
  <2>2. Text(cid[w]) # "part" /\ cid[w] \in Containers /\ container[cid[w]] \in Mounted
    BY <1>1, <2>1, NoPartsText DEF WithContainer, TypeOK, OwnContainer
  <2>3. CASE container' = [container EXCEPT ![cid[w]].solution = Text(cid[w])]
             /\ Text(cid[w]) = "source"
    <3> DEFINE n == [container[cid[w]] EXCEPT !.solution = "source"]
    <3>1. n.solution = "source"
      BY <2>2, GoneFacts DEF Contents
    <3>2. container' = [container EXCEPT ![cid[w]] = n]
      BY <2>3
    <3> HIDE DEF n
    <3> QED BY <1>1, <2>1, <3>1, <3>2
  <2> QED BY <1>1, <2>1, <2>2, <2>3
<1>6. CASE DockerStop(w)
  <2>1. file' = file
        /\ (container' = container \/ container' = [container EXCEPT ![cid[w]] = Gone])
    BY <1>6 DEF DockerStop
  <2>2. Gone.solution # "part"
    BY DEF Gone
  <2> QED BY <1>1, <2>1, <2>2
<1>7. CASE MkdirAll(w) \/ Tests(w) \/ RunTest(w) \/ RemoveAll(w) \/ RemoveDir(w)
  BY <1>1, <1>7 DEF MkdirAll, Tests, RunTest, RemoveAll, RemoveDir, hostVars
<1> QED BY <1>2, <1>3, <1>4, <1>5, <1>6, <1>7 DEF Proceed

LEMMA NoPartsStep ==
  ASSUME TypeOK, NoParts, [Next]_vars
  PROVE  NoParts'
<1>1. CASE UNCHANGED <<file, container>>
  BY <1>1 DEF NoParts
<1>2. ASSUME NEW w \in Workers, Proceed(w) PROVE NoParts'
  BY <1>2, NoPartsProceed
<1>3. CASE UNCHANGED vars
  BY <1>1, <1>3 DEF vars
<1> QED BY <1>1, <1>2, <1>3, BeginFacts, ReportFacts, CrashFacts DEF Next, Call
-----------------------------------------------------------------------------
(* The inductive invariant behind AcceptedIsEarned: while a call runs tests,  *)
(* what it runs was built and has passed what is behind the loop, by itself or *)
(* because another call had emptied it.                                       *)

Early == {"mkdir", "open", "write", "start", "build", "tests", "run"}

PassedTest(p, n, i) ==
  p.tests[i] = "pass" \/ (n > 1 /\ (i \in p.blank \/ "disk" \in Faults))

Earned(w) ==
  /\ pc[w] \in Early =>
       \A i \in DOMAIN Program(w).tests :
         i < test[w] => PassedTest(Program(w), calls[task[w]], i)
  /\ pc[w] \in {"tests", "run"} /\ NeedsCompilation(Program(w)) =>
       \/ container[cid[w]].solution = "part"
       \/ container[cid[w]].solution = "source" /\ Program(w).builds
  /\ outcome[w].verdict = Accepted =>
       pc[w] # "idle" /\ Acceptable(Program(w), calls[task[w]])

EInv ==
  /\ SInv /\ NoParts
  /\ \A w \in Workers : Earned(w)
  /\ AcceptedIsEarned

\* What is accepted after a number of calls is accepted after more.
LEMMA MoreCalls ==
  ASSUME NEW p, NEW m \in Nat, NEW n \in Nat, m <= n
  PROVE  /\ Acceptable(p, m) => Acceptable(p, n)
         /\ \A i : PassedTest(p, m, i) => PassedTest(p, n, i)
BY DEF Acceptable, PassedTest

\* The only call for a submission runs what was submitted.
LEMMA RunsSource ==
  ASSUME SInv, NEW w \in Workers, pc[w] = "run", calls[task[w]] = 1
  PROVE  Runs(w) = "source"
<1>1. Sourced(w)
  BY DEF SInv
<1> QED BY <1>1 DEF Sourced, Runs, WithContainer

LEMMA EarnedInit == Init => EInv
<1>1. Init => AcceptedIsEarned /\ \A w \in Workers : Earned(w)
  BY ResultFacts
     DEF Init, Earned, AcceptedIsEarned, NoOutcome, Outcome, Early
<1> QED BY <1>1, SourcedInit, NoPartsInit DEF EInv

LEMMA EarnedOthers ==
  ASSUME SInv, NEW w \in Workers, NEW label,
         Moves(w, label), Files(w), Hosts(w), Loops(w),
         NEW v \in Workers \ {w}, Earned(v)
  PROVE  Earned(v)'
<1>1. /\ pc'[v] = pc[v] /\ task'[v] = task[v] /\ Program(v)' = Program(v)
      /\ cid'[v] = cid[v] /\ calls' = calls
      /\ outcome'[v] = outcome[v] /\ test'[v] = test[v]
      /\ pc[v] \in WithContainer => container'[cid[v]] = container[cid[v]]
  BY OthersKeep DEF SInv, Moves, Loops, callerVars
<1>2. {"tests", "run"} \subseteq WithContainer
  BY DEF WithContainer
<1> QED BY <1>1, <1>2 DEF Earned

\* The end of the loop.
LEMMA EarnedAccept ==
  ASSUME EInv, NEW w \in Workers, pc[w] = "tests",
         test[w] > Len(Program(w).tests)
  PROVE  Acceptable(Program(w), calls[task[w]])
<1>1. /\ task[w] \in Submissions /\ Program(w) \in Programs
      /\ test[w] \in Nat /\ calls[task[w]] \in Nat /\ calls[task[w]] >= 1
  BY RetriesType, MaxTestsAssumption
     DEF EInv, SInv, TypeOK, Ranges, InsideTests, Program, Once, Sole
<1>2. /\ DOMAIN Program(w).tests = 1 .. Len(Program(w).tests)
      /\ Len(Program(w).tests) \in Nat
      /\ ~NeedsCompilation(Program(w)) =>
           Program(w).builds /\ Program(w).language = "python"
      /\ NeedsCompilation(Program(w)) => Program(w).blank = {}
  BY <1>1, ProgramFacts, MaxTestsAssumption
<1>3. Earned(w) /\ Sourced(w) /\ NoParts
  BY DEF EInv, SInv
<1>4. \A i \in DOMAIN Program(w).tests : PassedTest(Program(w), calls[task[w]], i)
  <2>1. \A i \in DOMAIN Program(w).tests : i < test[w]
    BY <1>1, <1>2
  <2> QED BY <1>3, <2>1 DEF Earned, Early
<1>5. CASE calls[task[w]] = 1
  <2>1. \A i \in DOMAIN Program(w).tests : Program(w).tests[i] = "pass"
    BY <1>4, <1>5 DEF PassedTest
  <2>2. Program(w).builds
    BY <1>2, <1>3, <1>5 DEF Earned, Sourced
  <2> QED BY <2>1, <2>2 DEF Acceptable, Passes
<1>6. CASE calls[task[w]] > 1 /\ "disk" \in Faults
  BY <1>6 DEF Acceptable
<1>7. CASE calls[task[w]] > 1 /\ "disk" \notin Faults
  <2>1. \A i \in DOMAIN Program(w).tests :
          Program(w).tests[i] = "pass" \/ i \in Program(w).blank
    BY <1>4, <1>7 DEF PassedTest
  <2>2. CASE NeedsCompilation(Program(w))
    <3>1. cid[w] \in Containers
      BY DEF EInv, SInv, TypeOK, OwnContainer, WithContainer
    <3>2. Program(w).builds
      BY <1>3, <1>7, <2>2, <3>1 DEF Earned, NoParts
    <3> QED BY <1>2, <2>1, <2>2, <3>2 DEF Acceptable, Passes
  <2>3. CASE ~NeedsCompilation(Program(w))
    BY <1>2, <1>7, <2>1, <2>3 DEF Acceptable, PassesBlank
  <2> QED BY <2>2, <2>3
<1> QED BY <1>1, <1>5, <1>6, <1>7

\* A test case that the loop goes on from.
LEMMA EarnedPass ==
  ASSUME EInv, NEW w \in Workers, pc[w] = "run", "pass" \in Ends(w)
  PROVE  PassedTest(Program(w), calls[task[w]], test[w])
<1>1. calls[task[w]] \in Nat /\ calls[task[w]] >= 1
  BY RetriesType DEF EInv, SInv, TypeOK, Ranges, InsideTests, Once, Sole
<1>2. CASE Runs(w) = "source"
  BY <1>2 DEF Ends, PassedTest
<1>3. CASE Runs(w) # "source"
  <2>1. calls[task[w]] > 1
    BY <1>1, <1>3, RunsSource DEF EInv
  <2>2. CASE Runs(w) = "nothing"
    BY <2>1, <2>2 DEF Ends, PassedTest
  <2>3. CASE Runs(w) = "part"
    <3>1. CASE "disk" \in Faults
      BY <2>1, <3>1 DEF PassedTest
    <3>2. CASE "disk" \notin Faults
      <4>1. Text(cid[w]) # "part" /\ cid[w] \in Containers
        BY <3>2, NoPartsText
           DEF EInv, SInv, TypeOK, OwnContainer, WithContainer
      <4>2. container[cid[w]].solution # "part"
        BY <3>2, <4>1 DEF EInv, NoParts
      <4> QED BY <2>3, <4>1, <4>2 DEF Runs
    <3> QED BY <3>1, <3>2
  <2>4. CASE Runs(w) \notin {"source", "nothing", "part"}
    BY <2>4 DEF Ends
  <2> QED BY <1>3, <2>2, <2>3, <2>4
<1> QED BY <1>2, <1>3

LEMMA EarnedOwn ==
  ASSUME EInv, NEW w \in Workers, Proceed(w)
  PROVE  Earned(w)'
<1>1. PICK label : Moves(w, label) /\ Files(w) /\ Hosts(w) /\ Loops(w)
  BY Shape DEF EInv, SInv
<1>2. /\ pc[w] # "idle" /\ pc'[w] # "idle" /\ task'[w] = task[w]
      /\ task[w] \in Submissions /\ Program(w)' = Program(w) /\ calls' = calls
      /\ Program(w) \in Programs
  BY <1>1 DEF Moves, EInv, SInv, TypeOK, Ranges, InsideTests, Program, callerVars
<1>3. /\ \A k : GoTo(w, k) => pc'[w] = k /\ cid' = cid /\ outcome' = outcome
      /\ \A v, t, k : Return(w, v, t, k) => pc'[w] = k /\ outcome'[w].verdict = v
  BY ControlFacts DEF EInv, SInv
<1>4. Earned(w) /\ TypeOK
  BY DEF EInv, SInv
<1>5. /\ test[w] \in Nat
      /\ DOMAIN Program(w).tests \subseteq Int
  BY <1>2, <1>4, ProgramFacts, MaxTestsAssumption DEF TypeOK, Ranges
\* A result is fixed, or the call is behind its tests.
<1>6. CASE /\ pc'[w] \notin Early
           /\ outcome'[w].verdict = Accepted =>
                \/ outcome' = outcome
                \/ Acceptable(Program(w), calls[task[w]])
  BY <1>2, <1>4, <1>6 DEF Earned, Early
\* The call goes on, on the same test case.
<1>7. CASE /\ pc'[w] \in Early /\ pc[w] \in Early /\ outcome' = outcome /\ test' = test
           /\ pc'[w] \in {"tests", "run"} /\ NeedsCompilation(Program(w)) =>
                \/ container'[cid'[w]].solution = "part"
                \/ container'[cid'[w]].solution = "source" /\ Program(w).builds
  BY <1>2, <1>4, <1>7 DEF Earned
<1>8. CASE MkdirAll(w) \/ OpenFile(w) \/ WriteFile(w)
  <2>1. pc'[w] \in {"open", "write", "start"} =>
          outcome' = outcome /\ test' = test /\ pc[w] \in Early
    BY <1>3, <1>8, ResultFacts DEF MkdirAll, OpenFile, WriteFile, localVars, Early
  <2>2. \/ pc'[w] \in {"open", "write", "start"}
        \/ pc'[w] \in {"remove", "return"} /\ outcome'[w].verdict = ExecutionError
    BY <1>3, <1>8 DEF MkdirAll, OpenFile, WriteFile
  <2> QED BY <1>6, <1>7, <2>1, <2>2, ResultFacts DEF Early
<1>9. CASE DockerRun(w)
  <2>1. pc[w] = "start" /\ test' = test
    BY <1>9 DEF DockerRun, localVars
  <2>2. CASE Return(w, ExecutionError, 0, "remove")
    BY <1>3, <1>6, <2>2, ResultFacts DEF Early
  <2>3. CASE /\ pc' = [pc EXCEPT ![w] =
                  IF NeedsCompilation(Program(w)) THEN "build" ELSE "tests"]
             /\ UNCHANGED <<task, outcome>>
    <3>1. pc'[w] = IF NeedsCompilation(Program(w)) THEN "build" ELSE "tests"
      BY <1>4, <2>3 DEF TypeOK, Ranges
    <3> QED BY <1>7, <2>1, <2>3, <3>1 DEF Early
  <2> QED BY <1>9, <2>2, <2>3 DEF DockerRun
<1>10. CASE Build(w)
  <2>1. pc[w] = "build" /\ test' = test
    BY <1>10 DEF Build, localVars
  <2>2. CASE Return(w, BuildFailure, 0, "stop")
    BY <1>3, <1>6, <2>2, ResultFacts DEF Early
  <2>3. CASE /\ (Text(cid[w]) = "source" /\ Program(w).builds) \/ Text(cid[w]) = "part"
             /\ container' = [container EXCEPT ![cid[w]].solution = Text(cid[w])]
             /\ GoTo(w, "tests")
    <3>1. cid[w] \in Containers /\ container[cid[w]] \in Mounted
      BY <1>4, <2>1 DEF TypeOK, Ranges, OwnContainer, WithContainer
    <3> DEFINE n == [container[cid[w]] EXCEPT !.solution = Text(cid[w])]
    <3>2. container'[cid[w]] = n
      BY <1>4, <2>3, <3>1 DEF TypeOK, Ranges
    <3>3. n.solution = Text(cid[w])
      BY <2>3, <3>1, GoneFacts DEF Contents
    <3> HIDE DEF n
    <3>4. pc'[w] = "tests" /\ cid' = cid /\ outcome' = outcome
      BY <1>3, <2>3
    <3> QED BY <1>7, <2>1, <2>3, <3>2, <3>3, <3>4 DEF Early
  <2> QED BY <1>10, <2>2, <2>3 DEF Build
<1>11. CASE Tests(w)
  <2>1. pc[w] = "tests" /\ UNCHANGED <<test, container>>
    BY <1>11 DEF Tests, localVars, hostVars
  <2>2. CASE GoTo(w, "run")
    <3>1. pc'[w] = "run" /\ cid' = cid /\ outcome' = outcome
      BY <1>3, <2>2
    <3> QED BY <1>4, <1>7, <2>1, <3>1 DEF Early, Earned
  <2>3. CASE test[w] > Len(Program(w).tests) /\ Return(w, Accepted, 0, "stop")
    BY <1>3, <1>6, <2>1, <2>3, EarnedAccept DEF Early
  <2> QED BY <1>11, <2>2, <2>3 DEF Tests
<1>12. CASE RunTest(w)
  <2>1. pc[w] = "run" /\ UNCHANGED hostVars
    BY <1>12 DEF RunTest
  <2>2. CASE "pass" \in Ends(w) /\ test' = [test EXCEPT ![w] = @ + 1] /\ GoTo(w, "tests")
    <3>1. /\ pc'[w] = "tests" /\ cid' = cid /\ outcome' = outcome
          /\ test'[w] = test[w] + 1
      BY <1>3, <1>4, <2>2 DEF TypeOK, Ranges
    <3>2. PassedTest(Program(w), calls[task[w]], test[w])
      BY <2>1, <2>2, EarnedPass
    <3>3. \A i \in DOMAIN Program(w).tests :
            i < test[w] + 1 => i < test[w] \/ i = test[w]
      BY <1>5
    <3>4. \A i \in DOMAIN Program(w).tests :
            i < test[w] => PassedTest(Program(w), calls[task[w]], i)
      BY <1>4, <2>1 DEF Earned, Early
    <3>5. \A i \in DOMAIN Program(w).tests :
            i < test'[w] => PassedTest(Program(w), calls[task[w]], i)
      BY <3>1, <3>2, <3>3, <3>4
    <3> QED BY <1>2, <1>4, <2>1, <3>1, <3>5 DEF Earned, hostVars
  <2>3. CASE GoTo(w, "hung")
    BY <1>3, <1>6, <2>3 DEF Early
  <2>4. ASSUME NEW v \in {WrongAnswer, RuntimeError}, Return(w, v, test[w], "stop")
        PROVE  Earned(w)'
    BY <1>3, <1>6, <2>4, ResultFacts DEF Early
  <2> QED BY <1>12, <2>2, <2>3, <2>4 DEF RunTest
<1>13. CASE DockerStop(w) \/ RemoveAll(w) \/ RemoveDir(w)
  BY <1>3, <1>6, <1>13 DEF DockerStop, RemoveAll, RemoveDir, Early
<1> QED BY <1>8, <1>9, <1>10, <1>11, <1>12, <1>13 DEF Proceed

LEMMA EarnedBegin ==
  ASSUME EInv, NEW w \in Workers, NEW s \in Submissions, Begin(w, s)
  PROVE  AcceptedIsEarned' /\ \A v \in Workers : Earned(v)'
<1> USE DEF EInv, SInv
<1>1. AcceptedIsEarned'
  <2> SUFFICES ASSUME NEW t \in Submissions, reported'[t].verdict = Accepted
               PROVE  Acceptable(program'[t], calls'[t])
    BY DEF AcceptedIsEarned
  <2>1. Acceptable(program[t], calls[t])
    BY BeginFacts DEF AcceptedIsEarned
  <2>2. calls[t] \in Nat /\ calls'[t] \in Nat /\ calls[t] <= calls'[t] /\ program' = program
    BY BeginFacts
  <2> QED BY <2>1, <2>2, MoreCalls
<1>2. ASSUME NEW v \in Workers \ {w} PROVE Earned(v)'
  <2>1. /\ pc'[v] = pc[v] /\ task'[v] = task[v] /\ Program(v)' = Program(v)
        /\ test'[v] = test[v] /\ UNCHANGED <<container, cid, outcome>>
    BY BeginFacts DEF Program
  <2>2. pc[v] # "idle" => task[v] \in Submissions
    BY DEF TypeOK, InsideTests
  <2>3. pc[v] # "idle" =>
          /\ calls[task[v]] \in Nat /\ calls'[task[v]] \in Nat
          /\ calls[task[v]] <= calls'[task[v]]
    BY <2>2, BeginFacts
  <2>4. Earned(v)
    OBVIOUS
  <2>5. pc[v] # "idle" =>
          /\ Acceptable(Program(v), calls[task[v]]) =>
               Acceptable(Program(v), calls'[task[v]])
          /\ \A i : PassedTest(Program(v), calls[task[v]], i) =>
               PassedTest(Program(v), calls'[task[v]], i)
    BY <2>3, MoreCalls
  <2> QED BY <2>1, <2>4, <2>5 DEF Earned, Early
<1>3. Earned(w)'
  <2>1. /\ pc[w] = "idle" /\ pc'[w] = "mkdir" /\ test'[w] = 1 /\ task'[w] = s
        /\ outcome' = outcome /\ program' = program
    BY BeginFacts
  <2>2. outcome[w].verdict # Accepted
    BY <2>1 DEF Earned
  <2>3. \A i \in DOMAIN Program(w)'.tests : ~(i < 1)
    <3>1. Program(w)' \in Programs
      BY <2>1 DEF Program, TypeOK, Ranges
    <3>2. \A p \in Programs : DOMAIN p.tests = 1 .. Len(p.tests) /\ Len(p.tests) \in Int
      BY ProgramFacts, MaxTestsAssumption
    <3> QED BY <3>1, <3>2
  <2> QED BY <2>1, <2>2, <2>3 DEF Earned
<1> QED BY <1>1, <1>2, <1>3

LEMMA EarnedReport ==
  ASSUME EInv, NEW w \in Workers, Report(w)
  PROVE  AcceptedIsEarned' /\ \A v \in Workers : Earned(v)'
<1> USE DEF EInv, SInv
<1>1. ASSUME NEW v \in Workers \ {w} PROVE Earned(v)'
  <2>1. /\ pc'[v] = pc[v] /\ task'[v] = task[v] /\ Program(v)' = Program(v)
        /\ test'[v] = test[v] /\ cid'[v] = cid[v] /\ outcome'[v] = outcome[v]
        /\ UNCHANGED <<container, calls>>
    BY ReportFacts DEF Program
  <2>2. Earned(v)
    OBVIOUS
  <2> QED BY <2>1, <2>2 DEF Earned
<1>2. Earned(w)'
  <2>1. pc'[w] = "idle" /\ outcome'[w].verdict = Absent
    BY ReportFacts DEF NoOutcome, Outcome
  <2> QED BY <2>1, ResultFacts DEF Earned, Early
<1>3. AcceptedIsEarned'
  <2>1. outcome[w].verdict = Accepted => Acceptable(program[task[w]], calls[task[w]])
    BY DEF Earned, Program
  <2>2. /\ UNCHANGED <<program, calls>>
        /\ \A s \in Submissions :
             reported'[s] = reported[s] \/ (s = task[w] /\ reported'[s] = outcome[w])
    BY ReportFacts
  <2> QED BY <2>1, <2>2 DEF AcceptedIsEarned
<1> QED BY <1>1, <1>2, <1>3

LEMMA EarnedStep == EInv /\ [Next]_vars => EInv'
<1> SUFFICES ASSUME EInv, [Next]_vars
             PROVE  EInv'
  OBVIOUS
<1>0. SInv' /\ NoParts'
  BY SourcedStep, NoPartsStep DEF EInv, SInv
<1>1. CASE Crash
  <2>1. \A w \in Workers : pc'[w] = "idle" /\ outcome'[w].verdict = Absent
    BY <1>1, CrashFacts DEF NoOutcome, Outcome
  <2>2. UNCHANGED <<program, calls, reported>>
    BY <1>1, CrashFacts
  <2>3. \A w \in Workers : Earned(w)'
    BY <2>1, ResultFacts DEF Earned, Early
  <2> QED BY <1>0, <2>2, <2>3 DEF EInv, AcceptedIsEarned
<1>2. ASSUME NEW w \in Workers, Proceed(w)
      PROVE  EInv'
  <2>1. PICK label : Moves(w, label) /\ Files(w) /\ Hosts(w) /\ Loops(w)
    BY <1>2, Shape DEF EInv, SInv
  <2>2. \A v \in Workers : Earned(v)'
    BY <1>2, <2>1, EarnedOwn, EarnedOthers DEF EInv
  <2> QED BY <1>0, <2>1, <2>2 DEF EInv, AcceptedIsEarned, Moves, callerVars
<1>3. CASE UNCHANGED vars
  <2>1. \A v \in Workers : Program(v)' = Program(v)
    BY <1>3 DEF vars, Program
  <2> QED BY <1>0, <1>3, <2>1 DEF vars, EInv, Earned, AcceptedIsEarned
<1> QED BY <1>0, <1>1, <1>2, <1>3, EarnedBegin, EarnedReport DEF EInv, Next, Call

\* Nothing that fails makes Execute accept a program that does not build and pass
\* every test case, if it was called once for the submission.  If it was called
\* more often, only a file that another call has emptied passes, on test cases that
\* expect no output, unless the disk is full (AcceptedIsEarned of CodeRunner).
THEOREM AcceptedOnlyIfEarned == Spec => []AcceptedIsEarned
<1>1. EInv => AcceptedIsEarned
  BY DEF EInv
<1> QED BY <1>1, EarnedInit, EarnedStep, PTL DEF Spec

-----------------------------------------------------------------------------
(* What a call returns, and where from.                                        *)

Deferred == {"stop", "remove", "rmdir", "return"}

\* A step of Execute keeps the result or fixes it, and then returns.
LEMMA ExecuteReturns ==
  ASSUME TypeOK, NEW w \in Workers, Proceed(w)
  PROVE  \/ /\ outcome'[w] = outcome[w]
            /\ pc'[w] \in Deferred => pc[w] \in Deferred
         \/ /\ outcome'[w] = Outcome(Accepted, 0)
            /\ pc[w] = "tests" /\ test[w] > Len(Program(w).tests)
         \/ /\ outcome'[w] = Outcome(BuildFailure, 0)
            /\ pc[w] = "build"
            /\ Text(cid[w]) # "source" \/ ~Program(w).builds \/ "exec" \in Faults
         \/ /\ outcome'[w] = Outcome(WrongAnswer, test[w])
            /\ pc[w] = "run" /\ "wrong" \in Ends(w)
         \/ /\ outcome'[w] = Outcome(RuntimeError, test[w])
            /\ pc[w] = "run" /\ "fail" \in Ends(w)
         \/ /\ outcome'[w] = Outcome(ExecutionError, 0)
            /\ \/ Faults \cap {"disk", "docker"} # {}
               \/ pc[w] = "open" /\ dir[task[w]] \in {"none", "mountpoint"}
<1>1. \A k : GoTo(w, k) => outcome' = outcome /\ pc'[w] = k
  BY ControlFacts
<1>2. \A v, t, k : Return(w, v, t, k) => outcome'[w] = Outcome(v, t)
  BY ControlFacts
<1>3. CASE MkdirAll(w)
  BY <1>1, <1>2, <1>3 DEF MkdirAll, Deferred
<1>4. CASE OpenFile(w)
  BY <1>1, <1>2, <1>4 DEF OpenFile, Deferred
<1>5. CASE WriteFile(w)
  BY <1>1, <1>2, <1>5 DEF WriteFile, Deferred
<1>6. CASE DockerRun(w)
  <2>1. CASE "docker" \in Faults /\ Return(w, ExecutionError, 0, "remove")
    BY <1>2, <2>1
  <2>2. CASE /\ pc' = [pc EXCEPT ![w] =
                  IF NeedsCompilation(Program(w)) THEN "build" ELSE "tests"]
             /\ UNCHANGED outcome
    BY <2>2 DEF Deferred, TypeOK, Ranges
  <2> QED BY <1>6, <2>1, <2>2 DEF DockerRun
<1>7. CASE Build(w)
  BY <1>1, <1>2, <1>7 DEF Build, Deferred
<1>8. CASE Tests(w)
  BY <1>1, <1>2, <1>8 DEF Tests, Deferred
<1>9. CASE RunTest(w)
  BY <1>1, <1>2, <1>9 DEF RunTest, Deferred
<1>10. CASE DockerStop(w) \/ RemoveAll(w) \/ RemoveDir(w)
  BY <1>1, <1>10 DEF DockerStop, RemoveAll, RemoveDir, Deferred
<1> QED BY <1>3, <1>4, <1>5, <1>6, <1>7, <1>8, <1>9, <1>10 DEF Proceed

-----------------------------------------------------------------------------
(* What a program deserves, by how far it has come.                            *)

LEMMA JudgeFailed ==
  ASSUME NEW p \in Programs, p.builds, NEW i \in DOMAIN p.tests,
         p.tests[i] # "pass",
         \A j \in DOMAIN p.tests : j < i => p.tests[j] = "pass"
  PROVE  Judge(p) = Outcome(IF p.tests[i] = "wrong" THEN WrongAnswer
                                                    ELSE RuntimeError, i)
<1>1. DOMAIN p.tests = 1 .. Len(p.tests) /\ Len(p.tests) \in Nat
  BY ProgramFacts, MaxTestsAssumption
<1>2. \A j \in 1 .. i - 1 : p.tests[j] = "pass"
  BY <1>1
<1>3. ASSUME NEW k \in DOMAIN p.tests, p.tests[k] # "pass",
             \A j \in 1 .. k - 1 : p.tests[j] = "pass"
      PROVE  k = i
  <2>1. k \in Int /\ i \in Int /\ k >= 1 /\ i >= 1
    BY <1>1
  <2>2. ~(k < i) /\ ~(i < k)
    BY <1>1, <1>2, <1>3, <2>1
  <2> QED BY <2>1, <2>2
<1>4. FirstFailure(p) = i
  BY <1>2, <1>3 DEF FirstFailure
<1> QED BY <1>4 DEF Judge, Passes

-----------------------------------------------------------------------------
(* The inductive invariant behind VerdictIsEarned: what the only call for a    *)
(* submission is about to return, or has returned, is what the program         *)
(* deserves.  Sure are the results that no failure of docker exec looks like.  *)

Sure ==
  IF "exec" \in Faults THEN {Accepted, WrongAnswer} ELSE ExecutionResults

Deserved(w) ==
  outcome[w].verdict \in Sure =>
    /\ pc[w] # "idle"
    /\ calls[task[w]] = 1 => outcome[w] = Judge(Program(w))

ReportedDeserved ==
  \A s \in Submissions :
    calls[s] <= 1 /\ reported[s].verdict \in Sure =>
      reported[s] = Judge(program[s])

VInv == EInv /\ ReportedDeserved /\ \A w \in Workers : Deserved(w)

LEMMA SureFacts ==
  /\ Sure \subseteq ExecutionResults
  /\ Accepted \in Sure /\ WrongAnswer \in Sure
  /\ BuildFailure \in Sure \/ RuntimeError \in Sure => "exec" \notin Faults
  /\ ExecutionError \notin Sure
  /\ NoOutcome.verdict \notin Sure
<1>1. RuntimeError \notin {Accepted, WrongAnswer}
  BY DEF RuntimeError, Accepted, WrongAnswer, Column
<1> QED BY <1>1, VerdictFacts, ResultFacts
        DEF Sure, ExecutionResults, NoOutcome, Outcome

LEMMA DeservedInit == Init => VInv
BY EarnedInit, SureFacts DEF Init, VInv, ReportedDeserved, Deserved

\* The program that the only call runs on a test case has been built and has passed
\* the ones before.
LEMMA DeservedFailure ==
  ASSUME EInv, NEW w \in Workers, pc[w] = "run", calls[task[w]] = 1,
         Program(w).tests[test[w]] # "pass"
  PROVE  Judge(Program(w)) =
           Outcome(IF Program(w).tests[test[w]] = "wrong" THEN WrongAnswer
                                                          ELSE RuntimeError,
                   test[w])
<1>1. /\ Program(w) \in Programs /\ test[w] \in DOMAIN Program(w).tests
      /\ Earned(w) /\ Sourced(w)
  BY DEF EInv, SInv, TypeOK, Ranges, InsideTests, Program
<1>2. \A j \in DOMAIN Program(w).tests :
        j < test[w] => Program(w).tests[j] = "pass"
  BY <1>1 DEF Earned, Early, PassedTest
<1>3. Program(w).builds
  BY <1>1, ProgramFacts DEF Earned, Sourced
<1> QED BY <1>1, <1>2, <1>3, JudgeFailed

LEMMA DeservedProceed ==
  ASSUME VInv, NEW w \in Workers, Proceed(w)
  PROVE  Deserved(w)'
<1>1. PICK label : Moves(w, label)
  BY Shape DEF VInv, EInv, SInv
<1>2. /\ pc'[w] # "idle" /\ task'[w] = task[w] /\ Program(w)' = Program(w)
      /\ calls' = calls /\ Program(w) \in Programs /\ pc[w] # "idle"
  BY <1>1 DEF Moves, VInv, EInv, SInv, TypeOK, Ranges, InsideTests, Program,
              callerVars
<1>3. \A v, t : Outcome(v, t).verdict = v
  BY DEF Outcome
<1> SUFFICES ASSUME calls[task[w]] = 1, outcome'[w].verdict \in Sure
             PROVE  outcome'[w] = Judge(Program(w))
  BY <1>2 DEF Deserved
<1>4. CASE outcome'[w] = outcome[w]
  BY <1>4 DEF VInv, Deserved
<1>5. CASE /\ outcome'[w] = Outcome(Accepted, 0)
           /\ pc[w] = "tests" /\ test[w] > Len(Program(w).tests)
  <2>1. Acceptable(Program(w), 1)
    BY <1>5, EarnedAccept DEF VInv
  <2>2. Passes(Program(w))
    BY <2>1 DEF Acceptable
  <2> QED BY <1>5, <2>2 DEF Judge, Passes
<1>6. CASE /\ outcome'[w] = Outcome(BuildFailure, 0)
           /\ pc[w] = "build"
           /\ Text(cid[w]) # "source" \/ ~Program(w).builds \/ "exec" \in Faults
  <2>1. "exec" \notin Faults
    BY <1>3, <1>6, SureFacts
  <2>2. Text(cid[w]) = "source"
    BY <1>6 DEF VInv, EInv, SInv, Sourced, WithContainer
  <2> QED BY <1>6, <2>1, <2>2 DEF Judge
<1>7. CASE /\ outcome'[w] = Outcome(WrongAnswer, test[w])
           /\ pc[w] = "run" /\ "wrong" \in Ends(w)
  <2>1. Runs(w) = "source"
    BY <1>7, RunsSource DEF VInv, EInv
  <2>2. Program(w).tests[test[w]] = "wrong"
    BY <1>7, <2>1 DEF Ends
  <2> QED BY <1>7, <2>2, DeservedFailure DEF VInv
<1>8. CASE /\ outcome'[w] = Outcome(RuntimeError, test[w])
           /\ pc[w] = "run" /\ "fail" \in Ends(w)
  <2>1. Runs(w) = "source" /\ "exec" \notin Faults
    BY <1>3, <1>8, RunsSource, SureFacts DEF VInv, EInv
  <2>2. Program(w).tests[test[w]] = "fail"
    BY <1>8, <2>1 DEF Ends
  <2> QED BY <1>8, <2>2, DeservedFailure DEF VInv
<1>9. outcome'[w] # Outcome(ExecutionError, 0)
  BY <1>3, SureFacts
<1> QED BY <1>4, <1>5, <1>6, <1>7, <1>8, <1>9, ExecuteReturns DEF VInv, EInv, SInv

LEMMA DeservedBegin ==
  ASSUME VInv, NEW w \in Workers, NEW s \in Submissions, Begin(w, s)
  PROVE  ReportedDeserved' /\ \A v \in Workers : Deserved(v)'
<1> USE DEF VInv, EInv, SInv
<1>1. ASSUME NEW v \in Workers \ {w} PROVE Deserved(v)'
  <2>1. /\ pc'[v] = pc[v] /\ task'[v] = task[v] /\ Program(v)' = Program(v)
        /\ UNCHANGED outcome
    BY BeginFacts DEF Program
  <2>2. ASSUME pc[v] # "idle", calls'[task[v]] = 1 PROVE calls[task[v]] = 1
    <3>1. task[v] \in Submissions /\ calls[task[v]] >= 1
      BY <2>2 DEF Once, Sole, TypeOK, InsideTests
    <3> QED BY <2>2, <3>1, BeginFacts
  <2>3. Deserved(v)
    OBVIOUS
  <2> QED BY <2>1, <2>2, <2>3 DEF Deserved
<1>2. Deserved(w)'
  <2>1. pc[w] = "idle" /\ outcome' = outcome
    BY BeginFacts
  <2> QED BY <2>1 DEF Deserved
<1>3. ReportedDeserved'
  <2> SUFFICES ASSUME NEW t \in Submissions, calls'[t] <= 1,
                      reported'[t].verdict \in Sure
               PROVE  reported'[t] = Judge(program'[t])
    BY DEF ReportedDeserved
  <2>1. calls[t] <= 1 /\ UNCHANGED <<reported, program>>
    BY BeginFacts
  <2> QED BY <2>1 DEF ReportedDeserved
<1> QED BY <1>1, <1>2, <1>3

LEMMA DeservedReport ==
  ASSUME VInv, NEW w \in Workers, Report(w)
  PROVE  ReportedDeserved' /\ \A v \in Workers : Deserved(v)'
<1> USE DEF VInv, EInv, SInv
<1>1. ASSUME NEW v \in Workers \ {w} PROVE Deserved(v)'
  <2>1. /\ pc'[v] = pc[v] /\ task'[v] = task[v] /\ Program(v)' = Program(v)
        /\ outcome'[v] = outcome[v] /\ UNCHANGED calls
    BY ReportFacts DEF Program
  <2>2. Deserved(v)
    OBVIOUS
  <2> QED BY <2>1, <2>2 DEF Deserved
<1>2. Deserved(w)'
  BY ReportFacts, SureFacts DEF Deserved
<1>3. ReportedDeserved'
  <2>1. calls[task[w]] \in Nat /\ calls[task[w]] >= 1
    BY ReportFacts, RetriesType DEF Once, Sole, TypeOK, Ranges
  <2>2. calls[task[w]] <= 1 /\ outcome[w].verdict \in Sure =>
          outcome[w] = Judge(program[task[w]])
    BY <2>1 DEF Deserved, Program
  <2>3. /\ UNCHANGED <<program, calls>>
        /\ \A s \in Submissions :
             reported'[s] = reported[s] \/ (s = task[w] /\ reported'[s] = outcome[w])
    BY ReportFacts
  <2> QED BY <2>2, <2>3 DEF ReportedDeserved
<1> QED BY <1>1, <1>2, <1>3

LEMMA DeservedStep == VInv /\ [Next]_vars => VInv'
<1> SUFFICES ASSUME VInv, [Next]_vars
             PROVE  VInv'
  OBVIOUS
<1>0. EInv'
  BY EarnedStep DEF VInv
<1>1. CASE Crash
  BY <1>0, <1>1, CrashFacts, SureFacts DEF VInv, ReportedDeserved, Deserved
<1>2. ASSUME NEW w \in Workers, Proceed(w)
      PROVE  VInv'
  <2>1. PICK label : Moves(w, label)
    BY <1>2, Shape DEF VInv, EInv, SInv
  <2>2. ASSUME NEW v \in Workers \ {w} PROVE Deserved(v)'
    <3>1. /\ pc'[v] = pc[v] /\ task'[v] = task[v] /\ Program(v)' = Program(v)
          /\ outcome'[v] = outcome[v] /\ UNCHANGED calls
      BY <2>1 DEF Moves, Program, callerVars, VInv, EInv, SInv, TypeOK, Ranges
    <3>2. Deserved(v)
      BY DEF VInv
    <3> QED BY <3>1, <3>2 DEF Deserved
  <2>3. Deserved(w)'
    BY <1>2, DeservedProceed
  <2>4. ReportedDeserved'
    BY <2>1 DEF Moves, callerVars, VInv, ReportedDeserved
  <2> QED BY <1>0, <2>2, <2>3, <2>4 DEF VInv
<1>3. CASE UNCHANGED vars
  <2>1. \A v \in Workers : Program(v)' = Program(v)
    BY <1>3 DEF vars, Program
  <2> QED BY <1>0, <1>3, <2>1 DEF vars, VInv, Deserved, ReportedDeserved
<1> QED BY <1>0, <1>1, <1>2, <1>3, DeservedBegin, DeservedReport DEF VInv, Next, Call

\* A result that is not an error is what the program deserves, the failed test
\* case included, unless docker exec fails for a reason of its own, and until a
\* second call is made for the submission: for any number of calls side by side
\* and of test cases, on a full disk, with containers that Docker does not name,
\* with directories and containers of dead processes about (VerdictIsEarned of
\* CodeRunner).
THEOREM VerdictOnlyIfEarned ==
  ASSUME "exec" \notin Faults
  PROVE  Spec => []VerdictIsEarned
<1>1. VInv => VerdictIsEarned
  BY DEF VInv, ReportedDeserved, VerdictIsEarned, Sure
<1> QED BY <1>1, DeservedInit, DeservedStep, PTL DEF Spec

-----------------------------------------------------------------------------
(* The inductive invariant behind NothingLeftBehind: what there is of a        *)
(* submission belongs to its call, at every place of Execute.                  *)

Tidy(w) ==
  pc[w] # "idle" =>
    /\ \A c \in Containers :
         container[c] # Gone /\ ~container[c].lost /\ container[c].of = task[w] =>
           pc[w] \in WithContainer /\ cid[w] = c
    /\ pc[w] = "rmdir" => dir[task[w]] \in {"none", "empty"}
    /\ pc[w] = "return" => dir[task[w]] = "none"

LInv == SInv /\ NothingLeftBehind /\ \A w \in Workers : Tidy(w)

\* If XADD is not repeated, a call is the only one.
LEMMA OnlyCall ==
  ASSUME "twice" \notin Faults, SInv, NEW w \in Workers, pc[w] # "idle"
  PROVE  /\ task[w] \in Submissions /\ calls[task[w]] = 1
         /\ reported[task[w]] = NoOutcome
         /\ \A v \in Workers \ {w} : pc[v] # "idle" => task[v] # task[w]
<1>1. task[w] \in Submissions /\ calls[task[w]] >= 1 /\ calls[task[w]] \in 0 .. 1
  BY DEF SInv, TypeOK, Ranges, InsideTests, Once, Sole, Retries
<1> QED BY <1>1 DEF SInv, Once, Sole

LEMMA TidyInit == Init => LInv
<1>1. Init => NothingLeftBehind /\ \A w \in Workers : Tidy(w)
  BY DEF Init, NothingLeftBehind, Tidy
<1> QED BY <1>1, SourcedInit DEF LInv

LEMMA TidyOthers ==
  ASSUME "twice" \notin Faults, LInv, NEW w \in Workers, NEW label,
         Moves(w, label), Files(w), Hosts(w),
         NEW v \in Workers \ {w}
  PROVE  Tidy(v)'
<1>1. /\ pc'[v] = pc[v] /\ task'[v] = task[v] /\ cid'[v] = cid[v] /\ pc[w] # "idle"
  BY OthersKeep DEF LInv, SInv, Moves
<1> SUFFICES ASSUME pc[v] # "idle" PROVE Tidy(v)'
  BY <1>1 DEF Tidy
<1>2. task[v] \in Submissions /\ task[v] # task[w]
  BY <1>1, OnlyCall DEF LInv
<1>3. dir'[task[v]] = dir[task[v]]
  BY <1>2 DEF Files
<1>4. pc[w] = "build" => container[cid[w]].of = task[w]
  BY DEF LInv, SInv, TypeOK, OwnContainer, WithContainer
<1>5. \A c \in Containers : container'[c] # Gone /\ container'[c].of = task[v] =>
        container'[c] = container[c]
  BY <1>2, <1>4 DEF Hosts
<1>6. Tidy(v)
  BY DEF LInv
<1> QED BY <1>1, <1>3, <1>5, <1>6 DEF Tidy

LEMMA TidyOwn ==
  ASSUME "cleanup" \notin Faults, "twice" \notin Faults, LInv,
         NEW w \in Workers, Proceed(w)
  PROVE  Tidy(w)'
<1>1. PICK label : Moves(w, label) /\ Files(w) /\ Hosts(w)
  BY Shape DEF LInv, SInv
<1>2. /\ pc[w] # "idle" /\ task'[w] = task[w] /\ task[w] \in Submissions
      /\ calls[task[w]] = 1
      /\ dir \in [Submissions -> {"none", "empty", "file", "mountpoint"}]
  BY <1>1, OnlyCall DEF Moves, LInv, SInv, TypeOK, Ranges
<1>3. /\ \A k : GoTo(w, k) => pc'[w] = k /\ cid' = cid
      /\ \A v, t, k : Return(w, v, t, k) => pc'[w] = k /\ cid' = cid
  BY ControlFacts DEF LInv, SInv
<1>4. Tidy(w) /\ Sourced(w)
  BY DEF LInv, SInv
\* The steps that leave the containers as they are, or build in the worker's own.
<1>5. CASE /\ \A c \in Containers :
                /\ container'[c].of = container[c].of
                /\ container'[c].lost = container[c].lost
                /\ container'[c] = Gone <=> container[c] = Gone
           /\ pc[w] \in WithContainer => pc'[w] \in WithContainer /\ cid' = cid
           /\ pc'[w] = "rmdir" => dir'[task[w]] \in {"none", "empty"}
           /\ pc'[w] = "return" => dir'[task[w]] = "none"
  BY <1>2, <1>4, <1>5 DEF Tidy
<1>6. CASE MkdirAll(w)
  <2>1. /\ pc[w] = "mkdir" /\ container' = container
        /\ pc'[w] = "open" \/ (pc'[w] = "return" /\ dir' = dir)
    BY <1>3, <1>6 DEF MkdirAll
  <2>2. dir[task[w]] = "none"
    BY <1>2, <1>4, <2>1 DEF Sourced
  <2> QED BY <1>5, <2>1, <2>2 DEF WithContainer
<1>7. CASE OpenFile(w) \/ WriteFile(w)
  <2>1. /\ pc[w] \in {"open", "write"} /\ container' = container
        /\ pc'[w] \in {"write", "start", "remove"}
    BY <1>3, <1>7 DEF OpenFile, WriteFile
  <2> QED BY <1>5, <2>1 DEF WithContainer
<1>8. CASE DockerRun(w)
  <2>1. /\ pc[w] = "start"
        /\ \A c \in Containers : container[c] # Gone /\ container[c].of = task[w] =>
             container[c].lost
    BY <1>4, <1>8 DEF DockerRun, Tidy, WithContainer
  <2>2. CASE container' = container /\ pc'[w] = "remove"
    BY <1>5, <2>1, <2>2 DEF WithContainer
  <2>3. ASSUME NEW c \in Containers, NEW lost \in BOOLEAN, Start(w, c, lost),
               \/ pc'[w] = "remove" /\ lost
               \/ pc'[w] \in {"build", "tests"} /\ cid' = [cid EXCEPT ![w] = c]
        PROVE  Tidy(w)'
    <3>1. /\ container' = [container EXCEPT ![c] = Made(task[w], lost)]
          /\ container'[c].lost = lost
      BY <1>2, <2>3, StartFacts, GoneFacts DEF LInv, SInv
    <3>2. \A e \in Containers \ {c} : container'[e] = container[e]
      BY <3>1 DEF LInv, SInv, TypeOK, Ranges
    <3>3. CASE pc'[w] = "remove" /\ lost
      BY <1>2, <2>1, <3>1, <3>2, <3>3 DEF Tidy
    <3>4. CASE pc'[w] \in {"build", "tests"} /\ cid' = [cid EXCEPT ![w] = c]
      <4>1. cid'[w] = c
        BY <3>4 DEF LInv, SInv, TypeOK, Ranges
      <4> QED BY <1>2, <2>1, <3>2, <3>4, <4>1 DEF Tidy, WithContainer
    <3> QED BY <2>3, <3>3, <3>4
  <2>4. CASE Return(w, ExecutionError, 0, "remove")
             /\ (container' = container \/ \E c \in Containers : Start(w, c, TRUE))
    BY <1>3, <2>2, <2>3, <2>4
  <2>5. ASSUME NEW c \in Containers, Start(w, c, FALSE),
               cid' = [cid EXCEPT ![w] = c],
               pc' = [pc EXCEPT ![w] =
                 IF NeedsCompilation(Program(w)) THEN "build" ELSE "tests"]
        PROVE  Tidy(w)'
    <3>1. pc'[w] \in {"build", "tests"}
      BY <2>5 DEF LInv, SInv, TypeOK, Ranges
    <3> QED BY <2>3, <2>5, <3>1
  <2> QED BY <1>8, <2>4, <2>5 DEF DockerRun
<1>9. CASE Build(w)
  <2>1. pc[w] = "build" /\ pc'[w] \in {"tests", "stop"} /\ cid' = cid
    BY <1>3, <1>9 DEF Build
  <2>2. \A c \in Containers :
          \/ container'[c] = container[c]
          \/ /\ c = cid[w] /\ container'[c] # Gone
             /\ container'[c].of = container[c].of
             /\ container'[c].lost = container[c].lost
    <3>1. \A c \in Containers \ {cid[w]} : container'[c] = container[c]
      BY <1>9 DEF Build, LInv, SInv, TypeOK, Ranges
    <3>2. container[cid[w]] # Gone
      BY <2>1 DEF LInv, SInv, TypeOK, OwnContainer, WithContainer
    <3> QED BY <1>1, <2>1, <3>1, <3>2 DEF Hosts
  <2>3. container[cid[w]] # Gone
    BY <2>1 DEF LInv, SInv, TypeOK, OwnContainer, WithContainer
  <2> QED BY <1>5, <2>1, <2>2, <2>3 DEF WithContainer
<1>10. CASE Tests(w) \/ RunTest(w)
  <2>1. /\ pc'[w] \in {"run", "stop", "tests", "hung"} /\ cid' = cid
        /\ container' = container
    BY <1>3, <1>10 DEF Tests, RunTest, hostVars
  <2> QED BY <1>5, <2>1 DEF WithContainer
<1>11. CASE DockerStop(w)
  <2>1. /\ pc[w] = "stop" /\ pc'[w] = "remove"
        /\ container' = [container EXCEPT ![cid[w]] = Gone]
    BY <1>3, <1>11 DEF DockerStop
  <2>2. /\ container'[cid[w]] = Gone
        /\ \A c \in Containers \ {cid[w]} : container'[c] = container[c]
    BY <2>1 DEF LInv, SInv, TypeOK, Ranges, OwnContainer, WithContainer
  <2> QED BY <1>2, <1>4, <2>1, <2>2 DEF Tidy
<1>12. CASE RemoveAll(w)
  <2>1. /\ pc[w] = "remove" /\ pc'[w] = "rmdir" /\ container' = container
        /\ dir' = [dir EXCEPT ![task[w]] = IF @ = "none" THEN "none" ELSE "empty"]
    BY <1>3, <1>12 DEF RemoveAll
  <2>2. dir'[task[w]] \in {"none", "empty"}
    BY <1>2, <2>1
  <2> QED BY <1>5, <2>1, <2>2 DEF WithContainer
<1>13. CASE RemoveDir(w)
  <2>1. /\ pc[w] = "rmdir" /\ pc'[w] = "return" /\ container' = container
        /\ dir' = [dir EXCEPT ![task[w]] = IF @ = "empty" THEN "none" ELSE @]
    BY <1>3, <1>13 DEF RemoveDir
  <2>2. dir'[task[w]] = "none"
    BY <1>2, <1>4, <2>1 DEF Tidy
  <2> QED BY <1>5, <2>1, <2>2 DEF WithContainer
<1> QED BY <1>6, <1>7, <1>8, <1>9, <1>10, <1>11, <1>12, <1>13 DEF Proceed

LEMMA TidyReport ==
  ASSUME "twice" \notin Faults, LInv, NEW w \in Workers, Report(w)
  PROVE  NothingLeftBehind' /\ \A v \in Workers : Tidy(v)'
<1> USE DEF LInv, SInv
<1>1. \A v \in Workers : Tidy(v)'
  BY ReportFacts DEF Tidy
<1>2. /\ dir[task[w]] = "none"
      /\ \A c \in Containers : container[c] # Gone /\ ~container[c].lost =>
           container[c].of # task[w]
  BY ReportFacts DEF Tidy, WithContainer
<1>3. \A c \in Containers : container[c] # Gone => container[c].of \in Submissions
  BY DEF TypeOK, Ranges, Mounted
<1>4. NothingLeftBehind'
  BY <1>2, <1>3, ReportFacts DEF NothingLeftBehind
<1> QED BY <1>1, <1>4

LEMMA TidyStep ==
  ASSUME "cleanup" \notin Faults, "twice" \notin Faults, LInv, [Next]_vars
  PROVE  LInv'
<1>0. SInv /\ SInv'
  BY SourcedStep DEF LInv
<1>1. ASSUME NEW w \in Workers, NEW s \in Submissions, Call(w, s)
      PROVE  LInv'
  <2>1. /\ calls[s] = 0 /\ pc'[w] = "mkdir" /\ task'[w] = s
        /\ \A v \in Workers \ {w} : pc'[v] = pc[v] /\ task'[v] = task[v]
        /\ UNCHANGED <<reported, dir, container, cid>>
    <3>1. Retries = 0
      BY DEF Retries
    <3>2. calls[s] \in Nat
      BY <1>0, RetriesType DEF SInv, TypeOK, Ranges
    <3>3. calls[s] = 0 /\ Begin(w, s)
      BY <1>1, <3>1, <3>2 DEF Call
    <3> QED BY <1>0, <3>3, BeginFacts DEF SInv
  <2>2. Tidy(w)'
    BY <1>0, <2>1 DEF Tidy, SInv, Unwritten
  <2>3. ASSUME NEW v \in Workers \ {w} PROVE Tidy(v)'
    BY <2>1, <2>3 DEF Tidy, LInv
  <2>4. NothingLeftBehind'
    BY <2>1 DEF LInv, NothingLeftBehind
  <2> QED BY <1>0, <2>2, <2>3, <2>4 DEF LInv
<1>2. ASSUME NEW w \in Workers, Report(w)
      PROVE  LInv'
  BY <1>0, <1>2, TidyReport DEF LInv
<1>3. CASE Crash
  BY <1>0, <1>3, CrashFacts DEF LInv, Tidy, NothingLeftBehind
<1>4. ASSUME NEW w \in Workers, Proceed(w)
      PROVE  LInv'
  <2>1. PICK label : Moves(w, label) /\ Files(w) /\ Hosts(w)
    BY <1>0, <1>4, Shape DEF SInv
  <2>2. \A v \in Workers : Tidy(v)'
    BY <1>4, <2>1, TidyOwn, TidyOthers
  <2>3. /\ reported' = reported /\ task[w] \in Submissions
        /\ reported[task[w]] = NoOutcome
    BY <1>0, <2>1, OnlyCall DEF Moves, callerVars
  <2>4. pc[w] = "build" => container[cid[w]] # Gone
    BY <1>0 DEF SInv, TypeOK, OwnContainer, WithContainer
  <2>5. \A c \in Containers : container'[c] # Gone =>
          \/ /\ container[c] # Gone /\ container'[c].of = container[c].of
             /\ container'[c].lost = container[c].lost
          \/ container'[c].of = task[w]
    BY <2>1, <2>4 DEF Hosts
  <2>6. NothingLeftBehind'
    <3>1. \A c \in Containers : container'[c] # Gone /\ ~container'[c].lost =>
            reported[container'[c].of] = NoOutcome
      BY <2>3, <2>5 DEF LInv, NothingLeftBehind
    <3>2. \A s \in Submissions : dir'[s] # "none" => reported[s] = NoOutcome
      BY <2>1, <2>3 DEF LInv, NothingLeftBehind, Files
    <3> QED BY <2>3, <3>1, <3>2 DEF NothingLeftBehind
  <2> QED BY <1>0, <2>2, <2>6 DEF LInv
<1>5. CASE UNCHANGED vars
  BY <1>0, <1>5 DEF vars, LInv, Tidy, NothingLeftBehind
<1> QED BY <1>1, <1>2, <1>3, <1>4, <1>5 DEF Next

\* On every path out of Execute its directory and its container go, unless
\* removing them fails, a submission is executed twice, or docker run has started
\* a container and not told its id: however calls interleave, whatever else
\* fails, and wherever a process ends (NothingLeftBehind of CodeRunner).
THEOREM ExecuteCleansUp ==
  ASSUME "cleanup" \notin Faults, "twice" \notin Faults
  PROVE  Spec => []NothingLeftBehind
<1>1. LInv /\ [Next]_vars => LInv'
  BY TidyStep
<1>2. LInv => NothingLeftBehind
  BY DEF LInv
<1> QED BY <1>1, <1>2, TidyInit, PTL DEF Spec

-----------------------------------------------------------------------------
(* A call that returns has a result, an error only if the disk or Docker fails *)
(* or another call of the same submission takes the directory away, and a      *)
(* failed build only of a language that is built.                              *)

Returned ==
  \A w \in Workers : pc[w] \in Deferred => outcome[w].verdict # Absent

ErrorHasCause ==
  \A w \in Workers : outcome[w].verdict = ExecutionError =>
    Faults \cap {"disk", "docker", "twice"} # {}

BuildFails ==
  \A w \in Workers :
    /\ outcome[w].verdict = BuildFailure =>
         pc[w] # "idle" /\ NeedsCompilation(Program(w))
    /\ pc[w] = "build" => NeedsCompilation(Program(w))

CauseInv == SInv /\ Returned /\ ErrorHasCause /\ BuildFails

\* The results, told apart once more.
LEMMA ReturnFacts ==
  /\ Absent \notin {Accepted, WrongAnswer, RuntimeError, BuildFailure, ExecutionError}
  /\ ExecutionError \notin {Accepted, WrongAnswer, RuntimeError, BuildFailure}
  /\ BuildFailure \notin {Accepted, WrongAnswer, RuntimeError}
  /\ NoOutcome.verdict = Absent
  /\ \A v, t : Outcome(v, t).verdict = v
BY VerdictFacts DEF ExecutionResults, Outcome, NoOutcome

LEMMA CauseInit == Init => CauseInv
<1>1. Init => Returned /\ ErrorHasCause /\ BuildFails
  BY ReturnFacts DEF Init, Returned, ErrorHasCause, BuildFails, Deferred
<1> QED BY <1>1, SourcedInit DEF CauseInv

LEMMA CauseProceed ==
  ASSUME CauseInv, NEW w \in Workers, Proceed(w)
  PROVE  Returned' /\ ErrorHasCause' /\ BuildFails'
<1>1. PICK label : Moves(w, label)
  BY Shape DEF CauseInv, SInv
<1>2. /\ pc'[w] # "idle" /\ task' = task /\ program' = program
      /\ \A v \in Workers \ {w} : pc'[v] = pc[v] /\ outcome'[v] = outcome[v]
      /\ pc[w] # "idle"
  BY <1>1 DEF Moves, CauseInv, SInv, TypeOK, Ranges, callerVars
<1>3. \A v \in Workers : Program(v)' = Program(v)
  BY <1>2 DEF Program
<1>4. TypeOK
  BY DEF CauseInv, SInv
<1>5. Returned'
  <2>1. pc'[w] \in Deferred => outcome'[w].verdict # Absent
    BY <1>4, ExecuteReturns, ReturnFacts DEF CauseInv, Returned
  <2> QED BY <1>2, <2>1 DEF CauseInv, Returned
<1>6. ErrorHasCause'
  <2>1. ASSUME pc[w] = "open", dir[task[w]] \in {"none", "mountpoint"}
        PROVE  "twice" \in Faults
    <3>1. calls[task[w]] # 1
      BY <2>1 DEF CauseInv, SInv, Sourced
    <3> QED BY <1>2, <3>1, OnlyCall DEF CauseInv
  <2>2. outcome'[w].verdict = ExecutionError =>
          Faults \cap {"disk", "docker", "twice"} # {}
    BY <1>4, <2>1, ExecuteReturns, ReturnFacts DEF CauseInv, ErrorHasCause
  <2> QED BY <1>2, <2>2 DEF CauseInv, ErrorHasCause
<1>7. BuildFails'
  <2>1. outcome'[w].verdict = BuildFailure => NeedsCompilation(Program(w))
    BY <1>4, ExecuteReturns, ReturnFacts DEF CauseInv, BuildFails
  <2>2. pc'[w] = "build" => NeedsCompilation(Program(w))
    <3>1. /\ \A k : GoTo(w, k) => pc'[w] = k
          /\ \A v, t, k : Return(w, v, t, k) => pc'[w] = k
      BY <1>4, ControlFacts
    <3>2. CASE DockerRun(w)
      BY <1>4, <3>1, <3>2 DEF DockerRun, TypeOK, Ranges
    <3>3. CASE ~DockerRun(w)
      BY <3>1, <3>3 DEF Proceed, MkdirAll, OpenFile, WriteFile, Build, Tests,
                        RunTest, DockerStop, RemoveAll, RemoveDir
    <3> QED BY <3>2, <3>3
  <2> QED BY <1>2, <1>3, <2>1, <2>2 DEF CauseInv, BuildFails
<1> QED BY <1>5, <1>6, <1>7

LEMMA CauseStep == CauseInv /\ [Next]_vars => CauseInv'
<1> SUFFICES ASSUME CauseInv, [Next]_vars
             PROVE  CauseInv'
  OBVIOUS
<1>0. TypeOK /\ SInv'
  BY SourcedStep DEF CauseInv, SInv
<1>1. ASSUME NEW w \in Workers, NEW s \in Submissions, Call(w, s)
      PROVE  CauseInv'
  <2>1. /\ pc[w] = "idle" /\ pc'[w] = "mkdir"
        /\ \A v \in Workers \ {w} : pc'[v] = pc[v] /\ task'[v] = task[v]
        /\ UNCHANGED <<outcome, program>>
    BY <1>0, <1>1, BeginFacts DEF Call
  <2>2. \A v \in Workers \ {w} : Program(v)' = Program(v)
    BY <2>1 DEF Program
  <2>3. Returned' /\ ErrorHasCause'
    BY <2>1 DEF CauseInv, Returned, ErrorHasCause, Deferred
  <2>4. BuildFails'
    BY <2>1, <2>2 DEF CauseInv, BuildFails
  <2> QED BY <1>0, <2>3, <2>4 DEF CauseInv
<1>2. ASSUME NEW w \in Workers, Report(w)
      PROVE  CauseInv'
  <2>1. /\ pc'[w] = "idle" /\ outcome'[w].verdict = Absent
        /\ \A v \in Workers \ {w} : /\ pc'[v] = pc[v] /\ task'[v] = task[v]
                                    /\ outcome'[v] = outcome[v]
        /\ UNCHANGED program
    BY <1>0, <1>2, ReportFacts, ReturnFacts
  <2>2. \A v \in Workers \ {w} : Program(v)' = Program(v)
    BY <2>1 DEF Program
  <2>3. Returned' /\ ErrorHasCause' /\ BuildFails'
    BY <2>1, <2>2, ReturnFacts
       DEF CauseInv, Returned, ErrorHasCause, BuildFails, Deferred
  <2> QED BY <1>0, <2>3 DEF CauseInv
<1>3. CASE Crash
  <2>1. Returned' /\ ErrorHasCause' /\ BuildFails'
    BY <1>3, CrashFacts, ReturnFacts
       DEF Returned, ErrorHasCause, BuildFails, Deferred
  <2> QED BY <1>0, <2>1 DEF CauseInv
<1>4. ASSUME NEW w \in Workers, Proceed(w)
      PROVE  CauseInv'
  BY <1>0, <1>4, CauseProceed DEF CauseInv
<1>5. CASE UNCHANGED vars
  <2>1. \A v \in Workers : Program(v)' = Program(v)
    BY <1>5 DEF vars, Program
  <2> QED BY <1>0, <1>5, <2>1
          DEF vars, CauseInv, Returned, ErrorHasCause, BuildFails
<1> QED BY <1>1, <1>2, <1>3, <1>4, <1>5 DEF Next

\* Execute never returns without a result and without an error, returns an error
\* only if the disk or Docker fails or a submission is queued twice, and says that
\* a program does not build only of one that is built.
THEOREM ErrorsHaveCause == Spec => [](Returned /\ ErrorHasCause /\ BuildFails)
<1>1. CauseInv => Returned /\ ErrorHasCause /\ BuildFails
  BY DEF CauseInv
<1> QED BY <1>1, CauseInit, CauseStep, PTL DEF Spec
=============================================================================
