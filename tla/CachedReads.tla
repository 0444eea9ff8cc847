---------------------------- MODULE CachedReads ----------------------------
(***************************************************************************)
(* What the server reads.  Repositories answer from a cache with a time to  *)
(* live, which nothing invalidates, or with one SELECT after another;       *)
(* handlers and workers make several such reads for one answer.  Authors    *)
(* edit the problem meanwhile, and workers decide submissions.              *)
(*                                                                         *)
(* There is one problem and one language: the keys of others are disjoint.  *)
(* A user has at most one submission.  A value that has been read is known  *)
(* by its origin and by the time since the table has changed.               *)
(***************************************************************************)
EXTENDS Integers, Sequences

CONSTANTS Users,
          Handlers,    \* goroutines that answer requests
          Workers,     \* goroutines that judge submissions
          Ttl,         \* ticks that cached values live
          MaxSpent,    \* ticks an answer may take
          Editable,    \* the tables that authors edit in this instance
          Faults

(***************************************************************************)
(* The failures:                                                            *)
(*   cache   Redis is down: a hit is missed, a value is not stored          *)
(*   mysql   a query fails                                                  *)
(* The code sets no time-out.  That MySQL and Redis let an answer take at   *)
(* most MaxSpent ticks is an assumption about them.  One hour and four      *)
(* hours are one Ttl: no key with the one is related to a key with the      *)
(* other.                                                                   *)
(***************************************************************************)
FaultKinds == {"cache", "mysql"}

AuthorTables ==
  {"problems", "test_cases", "system_code", "language_imports", "starter_code"}

ASSUME FaultsAssumption == Faults \subseteq FaultKinds
ASSUME EditableAssumption == Editable \subseteq AuthorTables
ASSUME TimesAssumption == Ttl \in Nat \ {0} /\ MaxSpent \in Nat

VARIABLES
  absent,     \* the tables that have no row for the problem
  submission, \* submission[u]: the row of u
  queued,     \* the users whose submission waits for a worker
  cache,      \* cache[k]: what Redis holds under key k
  pc,         \* pc[r]: what reader r does next
  user,       \* user[r]: for whom
  reads,      \* reads[r]: the repository calls to make, the current one first
  todo,       \* todo[r]: the queries left of the current call
  fill,       \* fill[r]: what the current call has read
  parts,      \* parts[r]: what the calls before have returned
  solved,     \* solved[r]: IsSolved in what r has read
  spent       \* spent[r]: ticks since the answer was asked for

vars ==
  <<absent, submission, queued, cache, pc, user, reads, todo, fill, parts, solved,
    spent>>

Readers == Handlers \cup Workers
ASSUME ReadersAssumption == Handlers \cap Workers = {}

Nobody == "nobody"
ASSUME UsersAssumption == Nobody \notin Users

-----------------------------------------------------------------------------
(* The repository calls: the key, whether it is cached, and the tables read, *)
(* in order.                                                                 *)

Call(key, cached, queries) == [key |-> key, cached |-> cached, queries |-> queries]

GetTestCases == Call("testcases", TRUE, <<"test_cases">>)
GetSystemCode == Call("system_code", TRUE, <<"system_code">>)
GetLanguageImports == Call("imports", TRUE, <<"language_imports">>)
GetProblems == Call("list", TRUE, <<"problems">>)
GetProblemByID == Call("problem", TRUE, <<"problems", "submissions", "starter_code">>)
GetSolvedProblemIDs == Call("solved", FALSE, <<"submissions">>)
GetSubmissionByID == Call("submission", FALSE, <<"submissions", "test_cases">>)
GetSubmissionsByUserAndProblem == Call("history", FALSE, <<"submissions">>)
GetUserInfo == Call("profile", FALSE, <<"users", "submissions">>)

Calls ==
  {GetTestCases, GetSystemCode, GetLanguageImports, GetProblems, GetProblemByID,
   GetSolvedProblemIDs, GetSubmissionByID, GetSubmissionsByUserAndProblem,
   GetUserInfo}

Keys == {c.key : c \in {d \in Calls : d.cached}}

-----------------------------------------------------------------------------
(* What handlers and workers ask for.  The solved marks are for the user of  *)
(* a request that has one.                                                   *)

\* A mutant: the marks first, so that they are cached with what follows.
MarkedFirst(u, call) ==
  IF u = Nobody THEN <<call>> ELSE <<GetSolvedProblemIDs, call>>

Marked(u, call) ==
  IF u = Nobody THEN <<call>> ELSE <<call, GetSolvedProblemIDs>>

ListProblems(u) == Marked(u, GetProblems)
ShowProblem(u) == Marked(u, GetProblemByID)
ShowSubmission == <<GetSubmissionByID>>
ListSubmissions == <<GetSubmissionsByUserAndProblem>>
ShowProfile == <<GetUserInfo>>
Judge == <<GetTestCases, GetSystemCode, GetLanguageImports>>

Requests(u) ==
  {ListProblems(u), ShowProblem(u)}
    \cup IF u = Nobody THEN {} ELSE {ShowSubmission, ListSubmissions, ShowProfile}

-----------------------------------------------------------------------------
(* What was read: by which call, from which table, whether there was a row,  *)
(* whether it came out of the cache, and the ticks since the table changed.  *)

Current == -1
Part(call, t) ==
  [key |-> call.key, table |-> t, missing |-> t \in absent, hit |-> FALSE,
   age |-> Current]

FromCache(ps) == {[p EXCEPT !.hit = TRUE] : p \in ps}

Superseded(ps, t) ==
  {IF p.table = t /\ p.age = Current THEN [p EXCEPT !.age = 0] ELSE p : p \in ps}

Aged(ps) == {IF p.age = Current THEN p ELSE [p EXCEPT !.age = @ + 1] : p \in ps}

Miss == [parts |-> {}, solved |-> FALSE, left |-> 0]

\* A change of table t.
Supersede(t) ==
  /\ cache' = [k \in Keys |-> [cache[k] EXCEPT !.parts = Superseded(@, t)]]
  /\ fill' = [r \in Readers |-> Superseded(fill[r], t)]
  /\ parts' = [r \in Readers |-> Superseded(parts[r], t)]

Init ==
  /\ absent = {}
  /\ submission = [u \in Users |-> "none"]
  /\ queued = {}
  /\ cache = [k \in Keys |-> Miss]
  /\ pc = [r \in Readers |-> "idle"]
  /\ user = [r \in Readers |-> Nobody]
  /\ reads = [r \in Readers |-> <<>>]
  /\ todo = [r \in Readers |-> <<>>]
  /\ fill = [r \in Readers |-> {}]
  /\ parts = [r \in Readers |-> {}]
  /\ solved = [r \in Readers |-> FALSE]
  /\ spent = [r \in Readers |-> 0]

-----------------------------------------------------------------------------
(* Control *)

\* A mutant: every call looks into the cache.
FirstGets(calls) == IF calls = <<>> THEN "answer" ELSE "get"

First(calls) ==
  IF calls = <<>> THEN "answer" ELSE IF Head(calls).cached THEN "get" ELSE "query"

Queries(calls) == IF calls = <<>> THEN <<>> ELSE Head(calls).queries

\* The reader goes on with these calls.
GoOn(r, calls) ==
  /\ reads' = [reads EXCEPT ![r] = calls]
  /\ todo' = [todo EXCEPT ![r] = Queries(calls)]
  /\ fill' = [fill EXCEPT ![r] = {}]
  /\ pc' = [pc EXCEPT ![r] = First(calls)]

\* The current call returns what it has read.
Return(r, read) ==
  /\ parts' = [parts EXCEPT ![r] = @ \cup read]
  /\ GoOn(r, Tail(reads[r]))

Begin(r, u, calls) ==
  /\ pc[r] = "idle"
  /\ user' = [user EXCEPT ![r] = u]
  /\ GoOn(r, calls)
  /\ UNCHANGED <<absent, submission, cache, parts, solved, spent>>

\* The reader has no call left to make.
Leave(r, next, read) ==
  /\ pc' = [pc EXCEPT ![r] = next]
  /\ reads' = [reads EXCEPT ![r] = <<>>]
  /\ todo' = [todo EXCEPT ![r] = <<>>]
  /\ fill' = [fill EXCEPT ![r] = {}]
  /\ parts' = [parts EXCEPT ![r] = read]
  /\ solved' = [solved EXCEPT ![r] = FALSE]

-----------------------------------------------------------------------------
(* A repository call *)

\* A mutant: a hit makes the value live on.
CacheGetRearms(r) ==
  LET key == Head(reads[r]).key
      entry == cache[key]
  IN
  /\ pc[r] = "get"
  /\ \/ /\ entry # Miss
        /\ Return(r, entry.parts)
        /\ solved' = [solved EXCEPT ![r] = entry.solved]
        /\ cache' = [cache EXCEPT ![key].left = Ttl]
     \/ /\ entry = Miss \/ "cache" \in Faults
        /\ pc' = [pc EXCEPT ![r] = "query"]
        /\ UNCHANGED <<reads, todo, fill, parts, solved, cache>>
  /\ UNCHANGED <<absent, submission, queued, user, spent>>

\* An error of Redis and a key that is not there are the same to the caller.
CacheGet(r) ==
  LET entry == cache[Head(reads[r]).key] IN
  /\ pc[r] = "get"
  /\ \/ /\ entry # Miss
        /\ Return(r, entry.parts)
        /\ solved' = [solved EXCEPT ![r] = entry.solved]
     \/ /\ entry = Miss \/ "cache" \in Faults
        /\ pc' = [pc EXCEPT ![r] = "query"]
        /\ UNCHANGED <<reads, todo, fill, parts, solved>>
  /\ UNCHANGED <<absent, submission, queued, cache, user, spent>>

\* A mutant: the system code is as optional as the imports.
LacksProblem(r, t) ==
  LET key == Head(reads[r]).key IN
  \/ key = "problem" /\ t = "problems" /\ t \in absent
  \/ key = "submission" /\ t = "submissions" /\ submission[user[r]] = "none"

\* There is no row, and the call cannot do without.  That there is no import is
\* a value, as is an empty list.
Lacks(r, t) ==
  LET key == Head(reads[r]).key IN
  \/ key = "problem" /\ t = "problems" /\ t \in absent
  \/ key = "system_code" /\ t = "system_code" /\ t \in absent
  \/ key = "submission" /\ t = "submissions" /\ submission[user[r]] = "none"

\* The queries still to make: the test case is read when one has failed.
Rest(r) ==
  IF Head(reads[r]).key = "submission" /\ submission[user[r]] # "failed"
  THEN <<>>
  ELSE Tail(todo[r])

\* One SELECT: the call fails, goes on, has something to cache, or returns.
Query(r) ==
  LET call == Head(reads[r])
      t == Head(todo[r])
      read == fill[r] \cup {Part(call, t)}
  IN
  /\ pc[r] = "query"
  /\ \/ Lacks(r, t) /\ Leave(r, "error", {Part(call, t)})
     \/ /\ ~Lacks(r, t) /\ Rest(r) # <<>>
        /\ todo' = [todo EXCEPT ![r] = Rest(r)]
        /\ fill' = [fill EXCEPT ![r] = read]
        /\ UNCHANGED <<pc, reads, parts, solved>>
     \/ /\ ~Lacks(r, t) /\ Rest(r) = <<>> /\ call.cached
        /\ pc' = [pc EXCEPT ![r] = "set"]
        /\ fill' = [fill EXCEPT ![r] = read]
        /\ UNCHANGED <<reads, todo, parts, solved>>
     \/ /\ ~Lacks(r, t) /\ Rest(r) = <<>> /\ ~call.cached
        /\ Return(r, read)
        /\ solved' = [solved EXCEPT ![r] =
             @ \/ (call.key = "solved" /\ submission[user[r]] = "accepted")]
  /\ UNCHANGED <<absent, submission, queued, cache, user, spent>>

\* Only the solved marks do without the answer of a query.
QueryFails(r) ==
  /\ "mysql" \in Faults
  /\ pc[r] = "query"
  /\ IF Head(reads[r]).key = "solved"
     THEN Return(r, {}) /\ UNCHANGED solved
     ELSE Leave(r, "error", {})
  /\ UNCHANGED <<absent, submission, queued, cache, user, spent>>

\* The error of Set is dropped.
CacheSet(r) ==
  /\ pc[r] = "set"
  /\ \/ cache' = [cache EXCEPT ![Head(reads[r]).key] =
          [parts |-> FromCache(fill[r]), solved |-> solved[r], left |-> Ttl]]
     \/ "cache" \in Faults /\ UNCHANGED cache
  /\ Return(r, fill[r])
  /\ UNCHANGED <<absent, submission, queued, user, solved, spent>>

-----------------------------------------------------------------------------
(* Handlers and workers *)

Ask(h, u) ==
  /\ \E calls \in Requests(u) : Begin(h, u, calls)
  /\ UNCHANGED queued

Respond(h) ==
  /\ pc[h] \in {"answer", "error"}
  /\ Leave(h, "idle", {})
  /\ user' = [user EXCEPT ![h] = Nobody]
  /\ spent' = [spent EXCEPT ![h] = 0]
  /\ UNCHANGED <<absent, submission, queued, cache>>

\* A submission is judged once at most (JudgedAtMostOnce in JudgePipeline).
TakeJob(w, u) ==
  /\ u \in queued
  /\ queued' = queued \ {u}
  /\ Begin(w, u, Judge)

Run(w) ==
  /\ pc[w] = "answer"
  /\ Leave(w, "execute", {})
  /\ spent' = [spent EXCEPT ![w] = 0]
  /\ UNCHANGED <<absent, submission, queued, cache, user>>

\* The submissions change, and w is done with its own.
WriteVerdict(w, v) ==
  /\ submission' = [submission EXCEPT ![user[w]] = v]
  /\ cache' = [k \in Keys |->
       [cache[k] EXCEPT !.parts = Superseded(@, "submissions")]]
  /\ fill' = [r \in Readers |->
       IF r = w THEN {} ELSE Superseded(fill[r], "submissions")]
  /\ parts' = [r \in Readers |->
       IF r = w THEN {} ELSE Superseded(parts[r], "submissions")]

\* UpdateSubmissionStatus, after the program has run or a read has failed.
\* "failed" is a verdict with a test case, "error" one without.
Decide(w) ==
  /\ \/ pc[w] = "execute" /\ \E v \in {"accepted", "failed", "error"} :
                               WriteVerdict(w, v)
     \/ pc[w] = "error" /\ WriteVerdict(w, "error")
     \/ /\ "mysql" \in Faults /\ pc[w] \in {"execute", "error"}
        /\ fill' = [fill EXCEPT ![w] = {}]
        /\ parts' = [parts EXCEPT ![w] = {}]
        /\ UNCHANGED <<submission, cache>>
  /\ pc' = [pc EXCEPT ![w] = "idle"]
  /\ user' = [user EXCEPT ![w] = Nobody]
  /\ spent' = [spent EXCEPT ![w] = 0]
  /\ UNCHANGED <<absent, queued, reads, todo, solved>>

-----------------------------------------------------------------------------
(* Their surroundings *)

Submit(u) ==
  /\ submission[u] = "none"
  /\ submission' = [submission EXCEPT ![u] = "processing"]
  /\ queued' = queued \cup {u}
  /\ Supersede("submissions")
  /\ UNCHANGED <<absent, pc, user, reads, todo, solved, spent>>

\* An author changes a table, inserts or deletes what the call looks for.
Edit(t) ==
  /\ \/ UNCHANGED absent
     \/ absent' = absent \cup {t}
     \/ absent' = absent \ {t}
  /\ Supersede(t)
  /\ UNCHANGED <<submission, queued, pc, user, reads, todo, solved, spent>>

Busy(r) == pc[r] \notin {"idle", "execute"}

Tick ==
  /\ \A r \in Readers : Busy(r) => spent[r] < MaxSpent
  /\ spent' = [r \in Readers |-> IF Busy(r) THEN spent[r] + 1 ELSE 0]
  /\ cache' = [k \in Keys |->
       IF cache[k].left > 1
       THEN [cache[k] EXCEPT !.parts = Aged(@), !.left = @ - 1]
       ELSE Miss]
  /\ fill' = [r \in Readers |-> Aged(fill[r])]
  /\ parts' = [r \in Readers |-> Aged(parts[r])]
  /\ UNCHANGED <<absent, submission, queued, pc, user, reads, todo, solved>>

Next ==
  \/ Tick
  \/ \E t \in Editable : Edit(t)
  \/ \E u \in Users : Submit(u)
  \/ \E h \in Handlers, u \in Users \cup {Nobody} : Ask(h, u)
  \/ \E h \in Handlers : Respond(h)
  \/ \E w \in Workers, u \in Users : TakeJob(w, u)
  \/ \E w \in Workers : Run(w) \/ Decide(w)
  \/ \E r \in Readers : CacheGet(r) \/ Query(r) \/ QueryFails(r) \/ CacheSet(r)

Spec == Init /\ [][Next]_vars

-----------------------------------------------------------------------------
(* Properties *)

Tables == AuthorTables \cup {"submissions", "users"}
Parts == [key : {c.key : c \in Calls}, table : Tables, missing : BOOLEAN,
          hit : BOOLEAN, age : Nat \cup {Current}]

\* The ranges of the variables.  A reader in a call has a call to make, and one
\* that queries has a query to make; what was read takes MaxSpent at most.
TypeOK ==
  /\ absent \subseteq AuthorTables
  /\ submission \in
       [Users -> {"none", "processing", "accepted", "failed", "error"}]
  /\ queued \subseteq Users
  /\ cache \in [Keys -> [parts : SUBSET Parts, solved : BOOLEAN, left : 0..Ttl]]
  /\ pc \in [Readers ->
       {"idle", "get", "query", "set", "answer", "error", "execute"}]
  /\ user \in [Readers -> Users \cup {Nobody}]
  /\ reads \in [Readers -> Seq(Calls)]
  /\ todo \in [Readers -> Seq(Tables)]
  /\ fill \in [Readers -> SUBSET Parts]
  /\ parts \in [Readers -> SUBSET Parts]
  /\ solved \in [Readers -> BOOLEAN]
  /\ spent \in [Readers -> 0..MaxSpent]
  /\ \A r \in Readers :
       /\ pc[r] \in {"get", "query", "set"} => reads[r] # <<>>
       /\ pc[r] \in {"get", "query"} => todo[r] # <<>>
       /\ pc[r] \in {"get", "set"} => Head(reads[r]).cached

\* The longest that a value may be in use after its table has changed.
Lag(p) == IF p.hit THEN Ttl - 1 + 2 * MaxSpent ELSE MaxSpent

\* Whatever fails, and however fills overtake each other, an answer and the
\* input of a judge are made of rows that were current within the time the
\* answer took, and what comes out of the cache within the time to live and the
\* time of the answer that filled it besides.
\* (repositories/code.go and problem.go: Set with one or four hours.)
AnswersAreRecent ==
  \A r \in Readers : pc[r] = "answer" => \A p \in parts[r] : p.age <= Lag(p)

\* What was read is that a system code or a problem is not there.
NotThere(p) ==
  p.missing /\ <<p.key, p.table>> \in
    {<<"system_code", "system_code">>, <<"problem", "problems">>}

\* That a system code or a problem is not there is never cached: it was not
\* there during the request, which it ends.  (code.go and problem.go:
\* sql.ErrNoRows)
AbsenceIsFresh ==
  \A r \in Readers : \A p \in parts[r] :
    NotThere(p) => p.age <= spent[r] /\ pc[r] = "error"

\* The marks, set after the list or the details have been shared through the
\* cache, are those of the user who asks.  (handlers/problem.go: IsSolved)
SolvedIsOwn ==
  \A r \in Readers :
    solved[r] => user[r] # Nobody /\ submission[user[r]] = "accepted"
=============================================================================
