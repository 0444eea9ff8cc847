----------------------------- MODULE CodeRunner -----------------------------
(***************************************************************************)
(* CodeRunnerService.Execute, called by the workers of the pool: a directory *)
(* named after the submission holds the source, a container has the source   *)
(* mounted, builds it and runs it on one test case after another.  What is   *)
(* mounted is the file, not its name: it stays when the name is removed, and *)
(* changes when another call writes to it.  The directories, files and       *)
(* containers outlive the process.                                           *)
(***************************************************************************)
EXTENDS Integers, Sequences, Verdicts

CONSTANTS Workers,      \* callers of Execute, one call each at a time
          Submissions,
          Containers,   \* ids of containers: bounds how many run at once
          MaxTests,     \* bound on the number of test cases
          MaxRetries,   \* how often the Redis client repeats a command
          Faults

(***************************************************************************)
(* The failures:                                                            *)
(*   disk     the directory or the file cannot be written                   *)
(*   docker   docker run fails, before or after it started the container    *)
(*   exec     docker exec fails for a reason that is not the program        *)
(*   cleanup  docker stop or RemoveAll fails; both errors are ignored       *)
(*   hang     a program may not end                                         *)
(*   crash    the process ends                                              *)
(*   twice    a submission is queued more than once (xaddRetry in           *)
(*            JudgePipeline)                                                *)
(***************************************************************************)
FaultKinds == {"disk", "docker", "exec", "cleanup", "hang", "crash", "twice"}

ASSUME FaultsAssumption == Faults \subseteq FaultKinds
ASSUME MaxTestsAssumption == MaxTests \in Nat
ASSUME MaxRetriesAssumption == MaxRetries \in Nat

VARIABLES
  program,    \* program[s]: what the submitted program does, fixed
  calls,      \* calls[s]: how often Execute was called for s
  reported,   \* reported[s]: what Execute last returned for s
  dir,        \* dir[s]: <workDir>/submission_<s>, and what its main.* is
  file,       \* file[s]: every file there ever was of s, main.* is the last
  container,  \* container[c]: what container c has mounted, and for whom
  pc,         \* pc[w]: the call of Execute worker w is at
  task,       \* task[w]: the submission worker w executes
  fd,         \* fd[w]: the file os.WriteFile has open, 0 if none
  cid,        \* cid[w]: containerID, NoContainer before docker run
  test,       \* test[w]: index of the test case, from 1
  outcome     \* outcome[w]: the result Execute is about to return

vars == <<program, calls, reported, dir, file, container, pc, task, fd, cid,
          test, outcome>>

hostVars == <<dir, file, container>>
callerVars == <<program, calls, reported>>
localVars == <<fd, test>>

NoContainer == "none"
NoTask == "noTask"

Outcome(v, t) == [verdict |-> v, failedTest |-> t]
NoOutcome == Outcome(Absent, 0)

Gone == [of |-> NoTask, mount |-> 0, solution |-> "gone", lost |-> FALSE]

\* How a run of the program on a test case ends.
Endings == {"pass", "wrong", "fail"}
             \cup (IF "hang" \in Faults THEN {"hang"} ELSE {})

\* Python has no build; what does not parse fails every test case.  The blank
\* test cases expect no output, which matters only to a file that is run empty:
\* python, and a second call that has taken its content.
Programs ==
  {p \in [language : {"python", "go"}, builds : BOOLEAN,
          tests : UNION {[1 .. n -> Endings] : n \in 0 .. MaxTests},
          blank : SUBSET (1 .. MaxTests)] :
     /\ p.blank \subseteq DOMAIN p.tests
     /\ p.language = "python" => p.builds
     /\ p.language = "go" \/ "twice" \notin Faults => p.blank = {}}

\* languageConfigs[language].NeedsCompilation
NeedsCompilation(p) == p.language = "go"

Program(w) == program[task[w]]

Init ==
  /\ program \in [Submissions -> Programs]
  /\ calls = [s \in Submissions |-> 0]
  /\ reported = [s \in Submissions |-> NoOutcome]
  /\ dir = [s \in Submissions |-> "none"]
  /\ file = [s \in Submissions |-> <<>>]
  /\ container = [c \in Containers |-> Gone]
  /\ pc = [w \in Workers |-> "idle"]
  /\ task = [w \in Workers |-> NoTask]
  /\ fd = [w \in Workers |-> 0]
  /\ cid = [w \in Workers |-> NoContainer]
  /\ test = [w \in Workers |-> 0]
  /\ outcome = [w \in Workers |-> NoOutcome]

-----------------------------------------------------------------------------
(* Control *)

GoTo(w, label) ==
  /\ pc' = [pc EXCEPT ![w] = label]
  /\ UNCHANGED <<task, cid, outcome>>

\* A return statement: the result is fixed, what was deferred comes next.
Return(w, v, t, deferred) ==
  /\ pc' = [pc EXCEPT ![w] = deferred]
  /\ outcome' = [outcome EXCEPT ![w] = Outcome(v, t)]
  /\ UNCHANGED <<task, cid>>

ExecutionError == Failure("executionError")

-----------------------------------------------------------------------------
(* Files, and what a container sees of them *)

\* Opening a file to write makes it, or takes its content.
Opened(s) ==
  IF dir[s] = "file" THEN [file[s] EXCEPT ![Len(file[s])] = "nothing"]
                     ELSE Append(file[s], "nothing")

\* docker run -v mounts the file, or a directory it makes when there is none.
Source(s) == IF dir[s] = "file" THEN Len(file[s]) ELSE 0

\* What main.* is in container c.
Text(c) ==
  IF container[c].mount = 0 THEN "directory"
                            ELSE file[container[c].of][container[c].mount]

\* What docker exec runs: what was built, or the file as it is now.
Runs(w) ==
  IF NeedsCompilation(Program(w)) THEN container[cid[w]].solution
                                  ELSE Text(cid[w])

-----------------------------------------------------------------------------
(* Variants of the actions below with one plausible mistake each; they are   *)
(* not part of Next.                                                         *)

\* The error of os.WriteFile is lost: neither a result nor an error is returned.
OpenFileLosesError(w) ==
  LET s == task[w] IN
  /\ pc[w] = "open"
  /\ \/ /\ dir[s] \in {"empty", "file"}
        /\ dir' = [dir EXCEPT ![s] = "file"]
        /\ file' = [file EXCEPT ![s] = Opened(s)]
        /\ fd' = [fd EXCEPT ![w] = Len(Opened(s))]
        /\ GoTo(w, "write")
     \/ /\ dir[s] \in {"none", "mountpoint"} \/ "disk" \in Faults
        /\ Return(w, Absent, 0, "remove")
        /\ UNCHANGED <<dir, file, fd>>
  /\ UNCHANGED <<callerVars, container, test>>

\* A failed build returns without stopping the container.
BuildLeavesContainer(w) ==
  /\ pc[w] = "build"
  /\ \/ /\ Program(w).builds
        /\ Text(cid[w]) = "source"
        /\ container' = [container EXCEPT ![cid[w]].solution = "source"]
        /\ GoTo(w, "tests")
     \/ /\ ~Program(w).builds \/ Text(cid[w]) # "source"
        /\ Return(w, BuildFailure, 0, "remove")
        /\ UNCHANGED container
  /\ UNCHANGED <<callerVars, dir, file, localVars>>

\* The loop ends one test case too early.
TestsButTheLast(w) ==
  /\ pc[w] = "tests"
  /\ \/ test[w] >= Len(Program(w).tests) /\ Return(w, Accepted, 0, "stop")
     \/ test[w] < Len(Program(w).tests) /\ GoTo(w, "run")
  /\ UNCHANGED <<callerVars, hostVars, localVars>>

\* The loop goes on behind the last test case.
TestsAndOneMore(w) ==
  /\ pc[w] = "tests"
  /\ \/ test[w] > Len(Program(w).tests) + 1 /\ Return(w, Accepted, 0, "stop")
     \/ test[w] <= Len(Program(w).tests) + 1 /\ GoTo(w, "run")
  /\ UNCHANGED <<callerVars, hostVars, localVars>>

\* The output is compared before the error of cmd.Run is looked at.
RunTestComparesFirst(w) ==
  /\ pc[w] = "run"
  /\ \/ /\ Program(w).tests[test[w]] = "pass"
        /\ test' = [test EXCEPT ![w] = @ + 1]
        /\ GoTo(w, "tests")
     \/ /\ Program(w).tests[test[w]] \in {"wrong", "fail"}
        /\ Return(w, WrongAnswer, test[w], "stop")
        /\ UNCHANGED test
  /\ UNCHANGED <<callerVars, hostVars, fd>>

-----------------------------------------------------------------------------
(* The caller *)

\* The call itself.
Begin(w, s) ==
  /\ pc[w] = "idle"
  /\ calls' = [calls EXCEPT ![s] = @ + 1]
  /\ pc' = [pc EXCEPT ![w] = "mkdir"]
  /\ task' = [task EXCEPT ![w] = s]
  /\ test' = [test EXCEPT ![w] = 1]
  /\ UNCHANGED <<program, reported, hostVars, fd, cid, outcome>>

\* XADD is sent once, and again for each reply that is lost.
Retries == IF "twice" \in Faults THEN MaxRetries ELSE 0

\* A worker calls Execute once for each entry of the queue: module JudgeService
\* shows that the pipeline makes no more calls.
Call(w, s) ==
  /\ calls[s] <= Retries
  /\ Begin(w, s)

\* The worker has the result; module JudgeService goes on from here.
Report(w) ==
  /\ pc[w] = "return"
  /\ reported' = [reported EXCEPT ![task[w]] = outcome[w]]
  /\ pc' = [pc EXCEPT ![w] = "idle"]
  /\ task' = [task EXCEPT ![w] = NoTask]
  /\ cid' = [cid EXCEPT ![w] = NoContainer]
  /\ test' = [test EXCEPT ![w] = 0]
  /\ outcome' = [outcome EXCEPT ![w] = NoOutcome]
  /\ UNCHANGED <<program, calls, hostVars, fd>>

\* No deferred call runs: directories, files and containers stay.
Crash ==
  /\ "crash" \in Faults
  /\ pc' = [w \in Workers |-> "idle"]
  /\ task' = [w \in Workers |-> NoTask]
  /\ fd' = [w \in Workers |-> 0]
  /\ cid' = [w \in Workers |-> NoContainer]
  /\ test' = [w \in Workers |-> 0]
  /\ outcome' = [w \in Workers |-> NoOutcome]
  /\ UNCHANGED <<callerVars, hostVars>>

-----------------------------------------------------------------------------
(* Execute *)

\* RemoveAll is deferred only after MkdirAll has succeeded.
MkdirAll(w) ==
  /\ pc[w] = "mkdir"
  /\ \/ /\ dir' = [dir EXCEPT ![task[w]] = IF @ = "none" THEN "empty" ELSE @]
        /\ GoTo(w, "open")
     \/ /\ "disk" \in Faults
        /\ Return(w, ExecutionError, 0, "return")
        /\ UNCHANGED dir
  /\ UNCHANGED <<callerVars, file, container, localVars>>

\* os.WriteFile opens the file first.  A file that is there loses its content, in
\* every container that has it mounted.  It fails when another call has removed
\* the directory, or has left a directory in the place of the file.
OpenFile(w) ==
  LET s == task[w] IN
  /\ pc[w] = "open"
  /\ \/ /\ dir[s] \in {"empty", "file"}
        /\ dir' = [dir EXCEPT ![s] = "file"]
        /\ file' = [file EXCEPT ![s] = Opened(s)]
        /\ fd' = [fd EXCEPT ![w] = Len(Opened(s))]
        /\ GoTo(w, "write")
     \/ /\ dir[s] \in {"none", "mountpoint"} \/ "disk" \in Faults
        /\ Return(w, ExecutionError, 0, "remove")
        /\ UNCHANGED <<dir, file, fd>>
  /\ UNCHANGED <<callerVars, container, test>>

\* Then it writes what all calls for a submission write.  The file may have lost
\* its name meanwhile; a full disk takes a part.
WriteFile(w) ==
  /\ pc[w] = "write"
  /\ \/ /\ file' = [file EXCEPT ![task[w]][fd[w]] = "source"]
        /\ GoTo(w, "start")
     \/ /\ "disk" \in Faults
        /\ file' = [file EXCEPT ![task[w]][fd[w]] =
                      IF @ = "source" THEN "source" ELSE "part"]
        /\ Return(w, ExecutionError, 0, "remove")
  /\ fd' = [fd EXCEPT ![w] = 0]
  /\ UNCHANGED <<callerVars, dir, container, test>>

\* What docker run -v does of a source that does not exist.
MakeSource(s) ==
  dir' = [dir EXCEPT ![s] = IF @ = "file" THEN "file" ELSE "mountpoint"]

Start(w, c, lost) ==
  /\ container[c] = Gone
  /\ container' = [container EXCEPT ![c] =
       [of |-> task[w], mount |-> Source(task[w]), solution |-> "none",
        lost |-> lost]]
  /\ MakeSource(task[w])

\* When docker run fails, nobody knows the id of a container it has started.
DockerRun(w) ==
  /\ pc[w] = "start"
  /\ \/ \E c \in Containers :
          /\ Start(w, c, FALSE)
          /\ cid' = [cid EXCEPT ![w] = c]
          /\ pc' = [pc EXCEPT ![w] =
               IF NeedsCompilation(Program(w)) THEN "build" ELSE "tests"]
          /\ UNCHANGED <<task, outcome>>
     \/ /\ "docker" \in Faults
        /\ \/ UNCHANGED <<dir, container>>
           \/ MakeSource(task[w]) /\ UNCHANGED container
           \/ \E c \in Containers : Start(w, c, TRUE)
        /\ Return(w, ExecutionError, 0, "remove")
  /\ UNCHANGED <<callerVars, file, localVars>>

\* Any failure of docker exec is a compilation error; startContainer stops
\* the container itself, then only RemoveAll is deferred.  An empty file does
\* not build.
Build(w) ==
  LET text == Text(cid[w]) IN
  /\ pc[w] = "build"
  /\ \/ /\ (text = "source" /\ Program(w).builds) \/ text = "part"
        /\ container' = [container EXCEPT ![cid[w]].solution = text]
        /\ GoTo(w, "tests")
     \/ /\ text # "source" \/ ~Program(w).builds \/ "exec" \in Faults
        /\ Return(w, BuildFailure, 0, "stop")
        /\ UNCHANGED container
  /\ UNCHANGED <<callerVars, dir, file, localVars>>

Tests(w) ==
  /\ pc[w] = "tests"
  /\ \/ test[w] > Len(Program(w).tests) /\ Return(w, Accepted, 0, "stop")
     \/ test[w] <= Len(Program(w).tests) /\ GoTo(w, "run")
  /\ UNCHANGED <<callerVars, hostVars, localVars>>

\* How docker exec may end for the test case of w.  An empty file prints nothing;
\* the first part of a program may do anything.
Ends(w) ==
  (CASE Runs(w) = "source"  -> {Program(w).tests[test[w]]}
     [] Runs(w) = "nothing" -> {IF test[w] \in Program(w).blank THEN "pass"
                                                                ELSE "wrong"}
     [] Runs(w) = "part"    -> Endings
     [] OTHER               -> {"fail"})
    \cup (IF "exec" \in Faults THEN {"fail"} ELSE {})

\* executeTestCase, and the loop's reaction: it stops at the first failure.
\* There is no timeout: a program that does not end keeps its worker.
RunTest(w) ==
  /\ pc[w] = "run"
  /\ \/ /\ "pass" \in Ends(w)
        /\ test' = [test EXCEPT ![w] = @ + 1]
        /\ GoTo(w, "tests")
     \/ /\ "wrong" \in Ends(w)
        /\ Return(w, WrongAnswer, test[w], "stop")
        /\ UNCHANGED test
     \/ /\ "fail" \in Ends(w)
        /\ Return(w, RuntimeError, test[w], "stop")
        /\ UNCHANGED test
     \/ /\ "hang" \in Ends(w)
        /\ GoTo(w, "hung")
        /\ UNCHANGED test
  /\ UNCHANGED <<callerVars, hostVars, fd>>

DockerStop(w) ==
  /\ pc[w] = "stop"
  /\ \/ container' = [container EXCEPT ![cid[w]] = Gone]
     \/ "cleanup" \in Faults /\ UNCHANGED container
  /\ GoTo(w, "remove")
  /\ UNCHANGED <<callerVars, dir, file, localVars>>

\* os.RemoveAll takes what is in the directory, and then the directory.
RemoveAll(w) ==
  /\ pc[w] = "remove"
  /\ \/ dir' = [dir EXCEPT ![task[w]] = IF @ = "none" THEN "none" ELSE "empty"]
     \/ "cleanup" \in Faults /\ UNCHANGED dir
  /\ GoTo(w, "rmdir")
  /\ UNCHANGED <<callerVars, file, container, localVars>>

\* A file that another call has made in between keeps the directory.
RemoveDir(w) ==
  /\ pc[w] = "rmdir"
  /\ \/ dir' = [dir EXCEPT ![task[w]] = IF @ = "empty" THEN "none" ELSE @]
     \/ "cleanup" \in Faults /\ UNCHANGED dir
  /\ GoTo(w, "return")
  /\ UNCHANGED <<callerVars, file, container, localVars>>

-----------------------------------------------------------------------------

\* Execute, up to its last step.
Proceed(w) ==
  \/ MkdirAll(w)
  \/ OpenFile(w)
  \/ WriteFile(w)
  \/ DockerRun(w)
  \/ Build(w)
  \/ Tests(w)
  \/ RunTest(w)
  \/ DockerStop(w)
  \/ RemoveAll(w)
  \/ RemoveDir(w)

Next ==
  \/ \E w \in Workers, s \in Submissions : Call(w, s)
  \/ \E w \in Workers : Proceed(w) \/ Report(w)
  \/ Crash

Spec == Init /\ [][Next]_vars
-----------------------------------------------------------------------------
(* Properties *)

PCs == {"idle", "mkdir", "open", "write", "start", "build", "tests", "run",
        "hung", "stop", "remove", "rmdir", "return"}

\* The calls made while the worker's container is up.
WithContainer == {"build", "tests", "run", "hung", "stop"}

Results == {Absent, ExecutionError} \cup ExecutionResults

Outcomes == [verdict : Results, failedTest : 0 .. MaxTests]

Contents == {"nothing", "part", "source"}

Mounted == [of : Submissions, mount : Nat, solution : Contents \cup {"none"},
            lost : BOOLEAN]

Ranges ==
  /\ program \in [Submissions -> Programs]
  /\ calls \in [Submissions -> 0 .. Retries + 1]
  /\ reported \in [Submissions -> Outcomes]
  /\ dir \in [Submissions -> {"none", "empty", "file", "mountpoint"}]
  /\ file \in [Submissions -> Seq(Contents)]
  /\ container \in [Containers -> Mounted \cup {Gone}]
  /\ pc \in [Workers -> PCs]
  /\ task \in [Workers -> Submissions \cup {NoTask}]
  /\ fd \in [Workers -> Nat]
  /\ cid \in [Workers -> Containers \cup {NoContainer}]
  /\ test \in [Workers -> 0 .. MaxTests + 1]
  /\ outcome \in [Workers -> Outcomes]

\* Names, descriptors and mounts are of files that were made.
FilesExist ==
  /\ \A s \in Submissions : dir[s] = "file" => file[s] # <<>>
  /\ \A w \in Workers : pc[w] = "write" => fd[w] \in 1 .. Len(file[task[w]])
  /\ \A c \in Containers : container[c] # Gone =>
       container[c].mount \in 0 .. Len(file[container[c].of])

OwnContainer ==
  \A w \in Workers : pc[w] \in WithContainer =>
    /\ cid[w] \in Containers
    /\ container[cid[w]] # Gone
    /\ container[cid[w]].of = task[w]
    /\ \A v \in Workers \ {w} : pc[v] \in WithContainer => cid[v] # cid[w]

InsideTests ==
  \A w \in Workers :
    /\ pc[w] # "idle" => task[w] \in Submissions /\ test[w] >= 1
    /\ pc[w] \in {"run", "hung"} => test[w] \in DOMAIN Program(w).tests

\* The ranges of the variables.  A worker that uses a container has one that
\* is running and its own, and the loop stays inside the test cases.
TypeOK == Ranges /\ FilesExist /\ OwnContainer /\ InsideTests

Passes(p) == p.builds /\ \A i \in DOMAIN p.tests : p.tests[i] = "pass"

\* The program passes if it is found empty for the test cases it would fail.
PassesBlank(p) ==
  /\ p.language = "python"
  /\ \A i \in DOMAIN p.tests : p.tests[i] = "pass" \/ i \in p.blank

\* What may be accepted after n calls.
Acceptable(p, n) ==
  Passes(p) \/ (n > 1 /\ (PassesBlank(p) \/ "disk" \in Faults))

FirstFailure(p) ==
  CHOOSE i \in DOMAIN p.tests :
    p.tests[i] # "pass" /\ \A j \in 1 .. i - 1 : p.tests[j] = "pass"

\* What the program deserves, without directories, containers and failures.
Judge(p) ==
  IF ~p.builds THEN Outcome(BuildFailure, 0)
  ELSE IF Passes(p) THEN Outcome(Accepted, 0)
  ELSE Outcome(IF p.tests[FirstFailure(p)] = "wrong" THEN WrongAnswer
                                                     ELSE RuntimeError,
               FirstFailure(p))

\* No failure of disk, Docker or process makes a program ACCEPTED that does not
\* build and pass every test.  Only a second call for the same submission does,
\* which empties the source that the first has mounted, and only a python program
\* that fails no test case but those that expect no output (or any, if the disk is
\* full as well and the second call writes half a program).
AcceptedIsEarned ==
  \A s \in Submissions :
    reported[s].verdict = Accepted => Acceptable(program[s], calls[s])

\* A result that is not an error is what the program deserves, the failed test
\* case included, as long as docker exec fails only because of the program and
\* until a second call is made for the submission.
VerdictIsEarned ==
  \A s \in Submissions :
    calls[s] <= 1 /\ reported[s].verdict \in ExecutionResults =>
      reported[s] = Judge(program[s])

\* On every path out of Execute, the container and the directory go: what there
\* is belongs to a call that has not returned, or to a process that has ended.
\* Except for a container that docker run started but did not name.
NothingLeftBehind ==
  /\ \A c \in Containers : container[c] # Gone /\ ~container[c].lost =>
       reported[container[c].of] = NoOutcome
  /\ \A s \in Submissions : dir[s] # "none" => reported[s] = NoOutcome

=============================================================================
