------------------------- MODULE CachedReadsProofs -------------------------
(***************************************************************************)
(* What is read is typed, recent, and never a cached absence, for every     *)
(* number of users, handlers and workers and every time to live.            *)
(***************************************************************************)
EXTENDS CachedReads, SequenceTheorems, TLAPS

Phases == {"idle", "get", "query", "set", "answer", "error", "execute"}
Rows == {"none", "processing", "accepted", "failed", "error"}
Entries == [parts : SUBSET Parts, solved : BOOLEAN, left : 0..Ttl]

(* The repository calls as records. *)
LEMMA CallTypes ==
  \A c \in Calls : /\ c.cached \in BOOLEAN
                   /\ c.key \in {d.key : d \in Calls}
                   /\ c.cached => c.key \in Keys
                   /\ c.queries \in Seq(Tables)
                   /\ c.queries # <<>>
<1> TAKE c \in Calls
<1>1. c.key \in {d.key : d \in Calls} /\ (c.cached => c.key \in Keys)
  BY DEF Keys
<1>2. ASSUME NEW k, NEW b \in BOOLEAN, NEW q \in Seq(Tables), q # <<>>,
             c = Call(k, b, q)
      PROVE  /\ c.cached \in BOOLEAN
             /\ c.queries \in Seq(Tables)
             /\ c.queries # <<>>
  BY <1>2 DEF Call
<1>3. /\ \A t \in Tables : <<t>> \in Seq(Tables) /\ <<t>> # <<>>
      /\ \A t, v \in Tables : <<t, v>> \in Seq(Tables) /\ <<t, v>> # <<>>
      /\ \A t, v, w \in Tables : <<t, v, w>> \in Seq(Tables) /\ <<t, v, w>> # <<>>
  OBVIOUS
<1>4. {"problems", "test_cases", "system_code", "language_imports",
       "starter_code", "submissions", "users"} \subseteq Tables
  BY DEF Tables, AuthorTables
<1>5. \E k : \E b \in BOOLEAN : \E q \in Seq(Tables) : q # <<>> /\ c = Call(k, b, q)
  BY <1>3, <1>4 DEF Calls, GetTestCases, GetSystemCode,
         GetLanguageImports, GetProblems, GetProblemByID, GetSolvedProblemIDs,
         GetSubmissionByID, GetSubmissionsByUserAndProblem, GetUserInfo
<1> QED BY <1>1, <1>2, <1>5

(* Every request is a list of calls. *)
LEMMA RequestTypes ==
  /\ \A u : Requests(u) \subseteq Seq(Calls)
  /\ Judge \in Seq(Calls)
<1>1. ASSUME NEW u, NEW c \in Calls
      PROVE  Marked(u, c) \in Seq(Calls)
  <2>1. GetSolvedProblemIDs \in Calls
    BY DEF Calls
  <2> QED BY <2>1 DEF Marked
<1>2. Judge \in Seq(Calls)
  <2>1. {GetTestCases, GetSystemCode, GetLanguageImports} \subseteq Calls
    BY DEF Calls
  <2> QED BY <2>1 DEF Judge
<1>3. ASSUME NEW u PROVE Requests(u) \subseteq Seq(Calls)
  <2>1. {GetProblems, GetProblemByID, GetSubmissionByID,
         GetSubmissionsByUserAndProblem, GetUserInfo} \subseteq Calls
    BY DEF Calls
  <2>2. /\ ListProblems(u) \in Seq(Calls)
        /\ ShowProblem(u) \in Seq(Calls)
    BY <1>1, <2>1 DEF ListProblems, ShowProblem
  <2>3. /\ ShowSubmission \in Seq(Calls)
        /\ ListSubmissions \in Seq(Calls)
        /\ ShowProfile \in Seq(Calls)
    BY <2>1 DEF ShowSubmission, ListSubmissions, ShowProfile
  <2> QED BY <2>2, <2>3 DEF Requests
<1> QED BY <1>2, <1>3

(* The operators on what was read keep its type. *)
LEMMA PartTypes ==
  /\ \A c \in Calls, t \in Tables : Part(c, t) \in Parts
  /\ \A ps \in SUBSET Parts : /\ \A t : Superseded(ps, t) \in SUBSET Parts
                              /\ Aged(ps) \in SUBSET Parts
                              /\ FromCache(ps) \in SUBSET Parts
  /\ Miss \in Entries
<1>1. \A c \in Calls, t \in Tables : Part(c, t) \in Parts
  BY DEF Part, Parts, Current
<1>2. ASSUME NEW ps \in SUBSET Parts, NEW t
      PROVE  Superseded(ps, t) \in SUBSET Parts
  BY DEF Superseded, Parts, Current
<1>3. ASSUME NEW ps \in SUBSET Parts PROVE Aged(ps) \in SUBSET Parts
  <2>1. ASSUME NEW p \in Parts, p.age # Current
        PROVE  [p EXCEPT !.age = @ + 1] \in Parts
    BY <2>1 DEF Parts, Current
  <2> QED BY <2>1 DEF Aged
<1>4. ASSUME NEW ps \in SUBSET Parts PROVE FromCache(ps) \in SUBSET Parts
  BY DEF FromCache, Parts, Current
<1>5. Miss \in Entries
  BY TimesAssumption DEF Miss, Entries
<1> QED BY <1>1, <1>2, <1>3, <1>4, <1>5

(* A reader in a call has a call to make, and a query when it queries. *)
Coherent(r) ==
  /\ pc[r] \in {"get", "query", "set"} => reads[r] # <<>>
  /\ pc[r] \in {"get", "query"} => todo[r] # <<>>
  /\ pc[r] \in {"get", "set"} => Head(reads[r]).cached

LEMMA GoOnTypes ==
  ASSUME TypeOK, NEW r \in Readers, NEW calls \in Seq(Calls), GoOn(r, calls)
  PROVE  /\ reads' \in [Readers -> Seq(Calls)]
         /\ todo' \in [Readers -> Seq(Tables)]
         /\ fill' \in [Readers -> SUBSET Parts]
         /\ pc' \in [Readers -> Phases]
         /\ \A q \in Readers : Coherent(q)'
<1>1. /\ First(calls) \in Phases
      /\ Queries(calls) \in Seq(Tables)
  BY CallTypes DEF First, Queries, Phases
<1>2. /\ reads' \in [Readers -> Seq(Calls)]
      /\ todo' \in [Readers -> Seq(Tables)]
      /\ fill' \in [Readers -> SUBSET Parts]
      /\ pc' \in [Readers -> Phases]
  BY <1>1 DEF GoOn, TypeOK, Phases
<1>3. Coherent(r)'
  <2>1. CASE calls = <<>>
    BY <2>1 DEF GoOn, TypeOK, Coherent, First
  <2>2. CASE calls # <<>>
    <3>1. Head(calls) \in Calls
      BY <2>2
    <3>2. Queries(calls) # <<>>
      BY <3>1, <2>2, CallTypes DEF Queries
    <3> QED BY <2>2, <3>2 DEF GoOn, TypeOK, Coherent, First
  <2> QED BY <2>1, <2>2
<1>4. ASSUME NEW q \in Readers, q # r PROVE Coherent(q)'
  BY <1>4 DEF GoOn, TypeOK, Coherent
<1> QED BY <1>2, <1>3, <1>4

LEMMA LeaveTypes ==
  ASSUME TypeOK, NEW r \in Readers, NEW next \in {"idle", "error", "execute"},
         NEW read \in SUBSET Parts, Leave(r, next, read)
  PROVE  /\ reads' \in [Readers -> Seq(Calls)]
         /\ todo' \in [Readers -> Seq(Tables)]
         /\ fill' \in [Readers -> SUBSET Parts]
         /\ parts' \in [Readers -> SUBSET Parts]
         /\ solved' \in [Readers -> BOOLEAN]
         /\ pc' \in [Readers -> Phases]
         /\ \A q \in Readers : Coherent(q)'
BY DEF Leave, TypeOK, Coherent, Phases

LEMMA ReturnTypes ==
  ASSUME TypeOK, NEW r \in Readers, reads[r] # <<>>,
         NEW read \in SUBSET Parts, Return(r, read)
  PROVE  /\ reads' \in [Readers -> Seq(Calls)]
         /\ todo' \in [Readers -> Seq(Tables)]
         /\ fill' \in [Readers -> SUBSET Parts]
         /\ parts' \in [Readers -> SUBSET Parts]
         /\ pc' \in [Readers -> Phases]
         /\ \A q \in Readers : Coherent(q)'
<1>1. Tail(reads[r]) \in Seq(Calls)
  BY DEF TypeOK
<1>2. parts' \in [Readers -> SUBSET Parts]
  BY DEF Return, TypeOK
<1> QED BY <1>1, <1>2, GoOnTypes DEF Return

LEMMA SupersedeTypes ==
  ASSUME TypeOK, NEW t, Supersede(t)
  PROVE  /\ cache' \in [Keys -> Entries]
         /\ fill' \in [Readers -> SUBSET Parts]
         /\ parts' \in [Readers -> SUBSET Parts]
<1>1. ASSUME NEW k \in Keys
      PROVE  [cache[k] EXCEPT !.parts = Superseded(@, t)] \in Entries
  <2>1. cache[k] \in Entries
    BY DEF TypeOK, Entries
  <2> QED BY <2>1, PartTypes DEF Entries
<1> QED BY <1>1, PartTypes DEF Supersede, TypeOK

LEMMA TypeInit == Init => TypeOK
BY PartTypes, TimesAssumption DEF Init, TypeOK, Entries

LEMMA TypeBegin ==
  ASSUME TypeOK, NEW r \in Readers, NEW u \in Users \cup {Nobody},
         NEW calls \in Seq(Calls), Begin(r, u, calls), queued' \subseteq Users
  PROVE  TypeOK'
<1>1. user' \in [Readers -> Users \cup {Nobody}]
  BY DEF Begin, TypeOK
<1>2. /\ reads' \in [Readers -> Seq(Calls)]
      /\ todo' \in [Readers -> Seq(Tables)]
      /\ fill' \in [Readers -> SUBSET Parts]
      /\ pc' \in [Readers -> Phases]
      /\ \A q \in Readers : Coherent(q)'
  BY GoOnTypes DEF Begin
<1> QED BY <1>1, <1>2 DEF Begin, TypeOK, Coherent, Phases

LEMMA TypeCacheGet ==
  ASSUME TypeOK, NEW r \in Readers, CacheGet(r)
  PROVE  TypeOK'
<1> DEFINE entry == cache[Head(reads[r]).key]
<1>1. reads[r] # <<>> /\ todo[r] # <<>> /\ Head(reads[r]).cached
  BY DEF CacheGet, TypeOK
<1>2. Head(reads[r]) \in Calls
  BY <1>1 DEF TypeOK
<1>3. entry \in Entries
  BY <1>1, <1>2, CallTypes DEF TypeOK, Entries
<1>4. CASE /\ Return(r, entry.parts)
           /\ solved' = [solved EXCEPT ![r] = entry.solved]
  <2>1. entry.parts \in SUBSET Parts /\ entry.solved \in BOOLEAN
    BY <1>3 DEF Entries
  <2>2. /\ reads' \in [Readers -> Seq(Calls)]
        /\ todo' \in [Readers -> Seq(Tables)]
        /\ fill' \in [Readers -> SUBSET Parts]
        /\ parts' \in [Readers -> SUBSET Parts]
        /\ pc' \in [Readers -> Phases]
        /\ \A q \in Readers : Coherent(q)'
    BY <1>1, <1>4, <2>1, ReturnTypes
  <2>3. solved' \in [Readers -> BOOLEAN]
    BY <1>4, <2>1 DEF TypeOK
  <2> QED BY <2>2, <2>3 DEF CacheGet, TypeOK, Coherent, Phases
<1>5. CASE /\ pc' = [pc EXCEPT ![r] = "query"]
           /\ UNCHANGED <<reads, todo, fill, parts, solved>>
  BY <1>1, <1>5 DEF CacheGet, TypeOK
<1> QED BY <1>4, <1>5 DEF CacheGet

\* The current call and table of a reader that queries.
LEMMA QueryFacts ==
  ASSUME TypeOK, NEW r \in Readers, pc[r] = "query"
  PROVE  /\ reads[r] # <<>>
         /\ Head(reads[r]) \in Calls
         /\ Head(reads[r]).cached \in BOOLEAN
         /\ todo[r] # <<>>
         /\ Head(todo[r]) \in Tables
         /\ Rest(r) \in Seq(Tables)
         /\ Part(Head(reads[r]), Head(todo[r])) \in Parts
         /\ fill[r] \cup {Part(Head(reads[r]), Head(todo[r]))} \in SUBSET Parts
<1>1. reads[r] # <<>> /\ todo[r] # <<>>
  BY DEF TypeOK
<1>2. Head(reads[r]) \in Calls /\ Head(todo[r]) \in Tables
  BY <1>1 DEF TypeOK
<1>3. Rest(r) \in Seq(Tables)
  BY <1>1 DEF Rest, TypeOK
<1> QED BY <1>1, <1>2, <1>3, PartTypes, CallTypes DEF TypeOK

LEMMA TypeQuery ==
  ASSUME TypeOK, NEW r \in Readers, Query(r)
  PROVE  TypeOK'
<1> DEFINE call == Head(reads[r])
           t == Head(todo[r])
           read == fill[r] \cup {Part(call, t)}
<1>1. /\ reads[r] # <<>> /\ call \in Calls /\ Rest(r) \in Seq(Tables)
      /\ call.cached \in BOOLEAN
      /\ {Part(call, t)} \in SUBSET Parts /\ read \in SUBSET Parts
  BY QueryFacts DEF Query
<1>2. CASE Leave(r, "error", {Part(call, t)})
  <2>1. /\ reads' \in [Readers -> Seq(Calls)]
        /\ todo' \in [Readers -> Seq(Tables)]
        /\ fill' \in [Readers -> SUBSET Parts]
        /\ parts' \in [Readers -> SUBSET Parts]
        /\ solved' \in [Readers -> BOOLEAN]
        /\ pc' \in [Readers -> Phases]
        /\ \A q \in Readers : Coherent(q)'
    BY <1>1, <1>2, LeaveTypes
  <2> QED BY <2>1 DEF Query, TypeOK, Coherent, Phases
<1>3. CASE /\ Rest(r) # <<>>
           /\ todo' = [todo EXCEPT ![r] = Rest(r)]
           /\ fill' = [fill EXCEPT ![r] = read]
           /\ UNCHANGED <<pc, reads, parts, solved>>
  BY <1>1, <1>3 DEF Query, TypeOK
<1>4. CASE /\ call.cached
           /\ pc' = [pc EXCEPT ![r] = "set"]
           /\ fill' = [fill EXCEPT ![r] = read]
           /\ UNCHANGED <<reads, todo, parts, solved>>
  BY <1>1, <1>4 DEF Query, TypeOK
<1>5. CASE /\ Return(r, read)
           /\ solved' = [solved EXCEPT ![r] =
                @ \/ (call.key = "solved" /\ submission[user[r]] = "accepted")]
  <2>1. /\ reads' \in [Readers -> Seq(Calls)]
        /\ todo' \in [Readers -> Seq(Tables)]
        /\ fill' \in [Readers -> SUBSET Parts]
        /\ parts' \in [Readers -> SUBSET Parts]
        /\ pc' \in [Readers -> Phases]
        /\ \A q \in Readers : Coherent(q)'
    BY <1>1, <1>5, ReturnTypes
  <2>2. solved' \in [Readers -> BOOLEAN]
    BY <1>5 DEF TypeOK
  <2> QED BY <2>1, <2>2 DEF Query, TypeOK, Coherent, Phases
<1> QED BY <1>2, <1>3, <1>4, <1>5 DEF Query

LEMMA TypeQueryFails ==
  ASSUME TypeOK, NEW r \in Readers, QueryFails(r)
  PROVE  TypeOK'
<1>1. reads[r] # <<>>
  BY QueryFacts DEF QueryFails
<1>2. CASE Return(r, {}) /\ UNCHANGED solved
  <2>1. /\ reads' \in [Readers -> Seq(Calls)]
        /\ todo' \in [Readers -> Seq(Tables)]
        /\ fill' \in [Readers -> SUBSET Parts]
        /\ parts' \in [Readers -> SUBSET Parts]
        /\ pc' \in [Readers -> Phases]
        /\ \A q \in Readers : Coherent(q)'
    BY <1>1, <1>2, ReturnTypes
  <2> QED BY <1>2, <2>1 DEF QueryFails, TypeOK, Coherent, Phases
<1>3. CASE Leave(r, "error", {})
  <2>1. /\ reads' \in [Readers -> Seq(Calls)]
        /\ todo' \in [Readers -> Seq(Tables)]
        /\ fill' \in [Readers -> SUBSET Parts]
        /\ parts' \in [Readers -> SUBSET Parts]
        /\ solved' \in [Readers -> BOOLEAN]
        /\ pc' \in [Readers -> Phases]
        /\ \A q \in Readers : Coherent(q)'
    BY <1>3, LeaveTypes
  <2> QED BY <2>1 DEF QueryFails, TypeOK, Coherent, Phases
<1> QED BY <1>2, <1>3 DEF QueryFails

LEMMA TypeCacheSet ==
  ASSUME TypeOK, NEW r \in Readers, CacheSet(r)
  PROVE  TypeOK'
<1>1. reads[r] # <<>> /\ Head(reads[r]).cached
  BY DEF CacheSet, TypeOK
<1>2. Head(reads[r]).key \in Keys
  BY <1>1, CallTypes DEF TypeOK
<1>3. fill[r] \in SUBSET Parts /\ solved[r] \in BOOLEAN
  BY DEF TypeOK
<1>4. [parts |-> FromCache(fill[r]), solved |-> solved[r], left |-> Ttl] \in Entries
  BY <1>3, PartTypes, TimesAssumption DEF Entries
<1>5. cache' \in [Keys -> Entries]
  BY <1>2, <1>4 DEF CacheSet, TypeOK, Entries
<1>6. /\ reads' \in [Readers -> Seq(Calls)]
      /\ todo' \in [Readers -> Seq(Tables)]
      /\ fill' \in [Readers -> SUBSET Parts]
      /\ parts' \in [Readers -> SUBSET Parts]
      /\ pc' \in [Readers -> Phases]
      /\ \A q \in Readers : Coherent(q)'
  BY <1>1, <1>3, ReturnTypes DEF CacheSet
<1> QED BY <1>5, <1>6 DEF CacheSet, TypeOK, Coherent, Phases, Entries

\* A handler or a worker that has no call left to make.
LEMMA TypeLeave ==
  ASSUME TypeOK, NEW r \in Readers, NEW next \in {"idle", "execute"},
         Leave(r, next, {}), spent' = [spent EXCEPT ![r] = 0],
         UNCHANGED <<absent, submission, queued, cache>>,
         user' \in [Readers -> Users \cup {Nobody}]
  PROVE  TypeOK'
<1>1. /\ reads' \in [Readers -> Seq(Calls)]
      /\ todo' \in [Readers -> Seq(Tables)]
      /\ fill' \in [Readers -> SUBSET Parts]
      /\ parts' \in [Readers -> SUBSET Parts]
      /\ solved' \in [Readers -> BOOLEAN]
      /\ pc' \in [Readers -> Phases]
      /\ \A q \in Readers : Coherent(q)'
  BY LeaveTypes
<1>2. spent' \in [Readers -> 0..MaxSpent]
  BY TimesAssumption DEF TypeOK
<1> QED BY <1>1, <1>2 DEF TypeOK, Coherent, Phases

LEMMA TypeDecide ==
  ASSUME TypeOK, NEW w \in Workers, Decide(w)
  PROVE  TypeOK'
<1>1. w \in Readers /\ spent' \in [Readers -> 0..MaxSpent]
  BY TimesAssumption DEF Decide, TypeOK, Readers
<1>2. /\ user' \in [Readers -> Users \cup {Nobody}]
      /\ pc' \in [Readers -> Phases]
      /\ \A q \in Readers : Coherent(q)'
  BY <1>1 DEF Decide, TypeOK, Coherent, Phases
<1>3. ASSUME NEW v \in {"accepted", "failed", "error"}, WriteVerdict(w, v)
      PROVE  /\ submission' \in [Users -> Rows]
             /\ cache' \in [Keys -> Entries]
             /\ fill' \in [Readers -> SUBSET Parts]
             /\ parts' \in [Readers -> SUBSET Parts]
  <2>1. submission' \in [Users -> Rows]
    BY <1>3 DEF WriteVerdict, TypeOK, Rows
  <2>2. ASSUME NEW k \in Keys
        PROVE  [cache[k] EXCEPT !.parts = Superseded(@, "submissions")] \in Entries
    <3>1. cache[k] \in Entries
      BY DEF TypeOK, Entries
    <3> QED BY <3>1, PartTypes DEF Entries
  <2>3. cache' \in [Keys -> Entries]
    BY <1>3, <2>2 DEF WriteVerdict
  <2>4. \A q \in Readers : /\ Superseded(fill[q], "submissions") \in SUBSET Parts
                           /\ Superseded(parts[q], "submissions") \in SUBSET Parts
    BY PartTypes DEF TypeOK
  <2> QED BY <1>3, <2>1, <2>3, <2>4 DEF WriteVerdict
<1>4. CASE /\ fill' = [fill EXCEPT ![w] = {}]
           /\ parts' = [parts EXCEPT ![w] = {}]
           /\ UNCHANGED <<submission, cache>>
  BY <1>1, <1>2, <1>4 DEF Decide, TypeOK, Coherent, Phases
<1>5. CASE \E v \in {"accepted", "failed", "error"} : WriteVerdict(w, v)
  <2>1. PICK v \in {"accepted", "failed", "error"} : WriteVerdict(w, v)
    BY <1>5
  <2>2. /\ submission' \in [Users -> Rows]
        /\ cache' \in [Keys -> Entries]
        /\ fill' \in [Readers -> SUBSET Parts]
        /\ parts' \in [Readers -> SUBSET Parts]
    BY <1>3, <2>1
  <2> QED BY <1>1, <1>2, <2>2 DEF Decide, TypeOK, Coherent, Phases, Rows, Entries
<1> QED BY <1>4, <1>5 DEF Decide

LEMMA TypeTick ==
  ASSUME TypeOK, Tick
  PROVE  TypeOK'
<1>1. spent' \in [Readers -> 0..MaxSpent]
  <2>1. ASSUME NEW r \in Readers
        PROVE  (IF Busy(r) THEN spent[r] + 1 ELSE 0) \in 0..MaxSpent
    <3>1. spent[r] \in 0..MaxSpent /\ (Busy(r) => spent[r] < MaxSpent)
      BY DEF Tick, TypeOK
    <3> QED BY <3>1, TimesAssumption
  <2> QED BY <2>1 DEF Tick
<1>2. ASSUME NEW k \in Keys, cache[k].left > 1
      PROVE  [cache[k] EXCEPT !.parts = Aged(@), !.left = @ - 1] \in Entries
  <2>1. cache[k] \in Entries
    BY DEF TypeOK, Entries
  <2>2. cache[k].left - 1 \in 0..Ttl
    BY <1>2, <2>1, TimesAssumption DEF Entries
  <2>3. Aged(cache[k].parts) \in SUBSET Parts
    BY <2>1, PartTypes DEF Entries
  <2> QED BY <2>1, <2>2, <2>3 DEF Entries
<1>3. cache' \in [Keys -> Entries]
  BY <1>2, PartTypes DEF Tick
<1>4. /\ fill' \in [Readers -> SUBSET Parts]
      /\ parts' \in [Readers -> SUBSET Parts]
  BY PartTypes DEF Tick, TypeOK
<1> QED BY <1>1, <1>3, <1>4 DEF Tick, TypeOK, Entries

LEMMA TypeStep == TypeOK /\ [Next]_vars => TypeOK'
<1> SUFFICES ASSUME TypeOK, [Next]_vars PROVE TypeOK'
  OBVIOUS
<1>1. CASE Tick
  BY <1>1, TypeTick
<1>2. ASSUME NEW t \in Editable, Edit(t) PROVE TypeOK'
  <2>1. /\ cache' \in [Keys -> Entries]
        /\ fill' \in [Readers -> SUBSET Parts]
        /\ parts' \in [Readers -> SUBSET Parts]
    BY <1>2, SupersedeTypes DEF Edit
  <2>2. absent' \subseteq AuthorTables
    BY <1>2, EditableAssumption DEF Edit, TypeOK
  <2> QED BY <1>2, <2>1, <2>2 DEF Edit, TypeOK, Entries
<1>3. ASSUME NEW u \in Users, Submit(u) PROVE TypeOK'
  <2>1. /\ cache' \in [Keys -> Entries]
        /\ fill' \in [Readers -> SUBSET Parts]
        /\ parts' \in [Readers -> SUBSET Parts]
    BY <1>3, SupersedeTypes DEF Submit
  <2> QED BY <1>3, <2>1 DEF Submit, TypeOK, Entries
<1>4. ASSUME NEW h \in Handlers, NEW u \in Users \cup {Nobody}, Ask(h, u)
      PROVE  TypeOK'
  BY <1>4, TypeBegin, RequestTypes DEF Ask, Readers, TypeOK
<1>5. ASSUME NEW h \in Handlers, Respond(h) PROVE TypeOK'
  <2>1. h \in Readers /\ user' \in [Readers -> Users \cup {Nobody}]
    BY <1>5 DEF Respond, TypeOK, Readers
  <2> QED BY <1>5, <2>1, TypeLeave DEF Respond
<1>6. ASSUME NEW w \in Workers, NEW u \in Users, TakeJob(w, u) PROVE TypeOK'
  <2>1. w \in Readers /\ queued' \subseteq Users
    BY <1>6 DEF TakeJob, TypeOK, Readers
  <2> QED BY <1>6, <2>1, TypeBegin, RequestTypes DEF TakeJob
<1>7. ASSUME NEW w \in Workers, Run(w) PROVE TypeOK'
  <2>1. w \in Readers /\ user' \in [Readers -> Users \cup {Nobody}]
    BY <1>7 DEF Run, TypeOK, Readers
  <2> QED BY <1>7, <2>1, TypeLeave DEF Run
<1>8. ASSUME NEW w \in Workers, Decide(w) PROVE TypeOK'
  BY <1>8, TypeDecide
<1>9. ASSUME NEW r \in Readers,
             CacheGet(r) \/ Query(r) \/ QueryFails(r) \/ CacheSet(r)
      PROVE  TypeOK'
  BY <1>9, TypeCacheGet, TypeQuery, TypeQueryFails, TypeCacheSet
<1>10. CASE UNCHANGED vars
  BY <1>10 DEF vars, TypeOK
<1> QED BY <1>1, <1>2, <1>3, <1>4, <1>5, <1>6, <1>7, <1>8, <1>9, <1>10 DEF Next

(* The ranges of the variables hold, and a reader in a repository call has a *)
(* call and a query to make.                                                 *)
THEOREM ReadsTypeCorrect == Spec => []TypeOK
<1> QED BY TypeInit, TypeStep, PTL DEF Spec

-----------------------------------------------------------------------------
(* How old what was read may be.  A cached value was filled by an answer of   *)
(* its own, and has lived for Ttl - left; what this answer queried is at most *)
(* as old as the answer.                                                      *)

EntryYoung(k) ==
  \A p \in cache[k].parts :
    /\ p.hit /\ ~NotThere(p)
    /\ cache[k].left >= 1
    /\ p.age <= Ttl - cache[k].left + MaxSpent

HitAge(p) == IF p.hit THEN Ttl - 1 + MaxSpent ELSE 0

ReaderYoung(r) ==
  /\ \A p \in fill[r] : ~p.hit /\ ~NotThere(p) /\ p.age <= spent[r]
  /\ \A p \in parts[r] :
       /\ p.age <= spent[r] + HitAge(p)
       /\ NotThere(p) => p.age <= spent[r] /\ pc[r] = "error"
  /\ pc[r] \in {"idle", "execute"} => fill[r] = {} /\ parts[r] = {}

Young ==
  /\ \A k \in Keys : EntryYoung(k)
  /\ \A r \in Readers : ReaderYoung(r)

IInv == TypeOK /\ Young

(* What a change and the time do to what was read. *)
LEMMA SupersededFacts ==
  ASSUME NEW ps \in SUBSET Parts, NEW t, NEW p \in Superseded(ps, t)
  PROVE  \E q \in ps : /\ p.hit = q.hit
                       /\ NotThere(p) = NotThere(q)
                       /\ p.age = q.age \/ p.age = 0
<1>1. PICK q \in ps :
        p = IF q.table = t /\ q.age = Current THEN [q EXCEPT !.age = 0] ELSE q
  BY DEF Superseded
<1>2. q \in Parts
  OBVIOUS
<1>3. /\ p.hit = q.hit /\ p.key = q.key /\ p.table = q.table
      /\ p.missing = q.missing
      /\ p.age = q.age \/ p.age = 0
  BY <1>1, <1>2 DEF Parts
<1> QED BY <1>3 DEF NotThere

LEMMA AgedFacts ==
  ASSUME NEW ps \in SUBSET Parts, NEW p \in Aged(ps)
  PROVE  \E q \in ps : /\ p.hit = q.hit
                       /\ NotThere(p) = NotThere(q)
                       /\ p.age <= q.age + 1
<1>1. PICK q \in ps : p = IF q.age = Current THEN q ELSE [q EXCEPT !.age = @ + 1]
  BY DEF Aged
<1>2. q \in Parts /\ q.age \in Int
  BY DEF Parts, Current
<1>3. /\ p.hit = q.hit /\ p.key = q.key /\ p.table = q.table
      /\ p.missing = q.missing
      /\ p.age = q.age \/ p.age = q.age + 1
  BY <1>1, <1>2 DEF Parts
<1> QED BY <1>2, <1>3 DEF NotThere

LEMMA FromCacheFacts ==
  ASSUME NEW ps \in SUBSET Parts, NEW p \in FromCache(ps)
  PROVE  p.hit /\ \E q \in ps : NotThere(p) = NotThere(q) /\ p.age = q.age
<1>1. PICK q \in ps : p = [q EXCEPT !.hit = TRUE]
  BY DEF FromCache
<1>2. q \in Parts
  OBVIOUS
<1>3. /\ p.hit /\ p.key = q.key /\ p.table = q.table
      /\ p.missing = q.missing /\ p.age = q.age
  BY <1>1, <1>2 DEF Parts
<1> QED BY <1>3 DEF NotThere

LEMMA YoungInit == Init => Young
BY TimesAssumption DEF Init, Young, EntryYoung, ReaderYoung, Miss

\* A change of a table makes nothing older than it may be.
LEMMA EntrySuperseded ==
  ASSUME IInv, NEW t, NEW k \in Keys,
         cache'[k] = [cache[k] EXCEPT !.parts = Superseded(@, t)]
  PROVE  EntryYoung(k)'
<1>1. cache[k] \in Entries /\ EntryYoung(k)
  BY DEF IInv, TypeOK, Young, Entries
<1>2. cache'[k].left = cache[k].left /\ cache'[k].parts = Superseded(cache[k].parts, t)
  BY <1>1 DEF Entries
<1>3. ASSUME NEW p \in Superseded(cache[k].parts, t)
      PROVE  /\ p.hit /\ ~NotThere(p)
             /\ cache[k].left >= 1
             /\ p.age <= Ttl - cache[k].left + MaxSpent
  <2>1. PICK q \in cache[k].parts : /\ p.hit = q.hit
                                    /\ NotThere(p) = NotThere(q)
                                    /\ p.age = q.age \/ p.age = 0
    BY <1>1, SupersededFacts DEF Entries
  <2>2. q.hit /\ ~NotThere(q) /\ cache[k].left >= 1
          /\ q.age <= Ttl - cache[k].left + MaxSpent
    BY <1>1 DEF EntryYoung
  <2>3. cache[k].left \in 0..Ttl
    BY <1>1 DEF Entries
  <2> QED BY <2>1, <2>2, <2>3, TimesAssumption
<1> QED BY <1>2, <1>3 DEF EntryYoung, NotThere

LEMMA ReaderSuperseded ==
  ASSUME IInv, NEW t, NEW r \in Readers,
         fill'[r] = Superseded(fill[r], t), parts'[r] = Superseded(parts[r], t),
         pc'[r] = pc[r], spent'[r] = spent[r]
  PROVE  ReaderYoung(r)'
<1>1. /\ fill[r] \in SUBSET Parts /\ parts[r] \in SUBSET Parts
      /\ spent[r] \in 0..MaxSpent /\ ReaderYoung(r)
  BY DEF IInv, TypeOK, Young
<1>2. ASSUME NEW p \in Superseded(fill[r], t)
      PROVE  ~p.hit /\ ~NotThere(p) /\ p.age <= spent[r]
  <2>1. PICK q \in fill[r] : /\ p.hit = q.hit
                             /\ NotThere(p) = NotThere(q)
                             /\ p.age = q.age \/ p.age = 0
    BY <1>1, SupersededFacts
  <2>2. ~q.hit /\ ~NotThere(q) /\ q.age <= spent[r]
    BY <1>1 DEF ReaderYoung
  <2> QED BY <1>1, <2>1, <2>2, TimesAssumption
<1>3. ASSUME NEW p \in Superseded(parts[r], t)
      PROVE  /\ p.age <= spent[r] + HitAge(p)
             /\ NotThere(p) => p.age <= spent[r] /\ pc[r] = "error"
  <2>1. PICK q \in parts[r] : /\ p.hit = q.hit
                              /\ NotThere(p) = NotThere(q)
                              /\ p.age = q.age \/ p.age = 0
    BY <1>1, SupersededFacts
  <2>2. /\ q.age <= spent[r] + HitAge(q)
        /\ NotThere(q) => q.age <= spent[r] /\ pc[r] = "error"
    BY <1>1 DEF ReaderYoung
  <2>3. HitAge(p) = HitAge(q) /\ HitAge(p) \in Nat
    BY <2>1, TimesAssumption DEF HitAge
  <2> QED BY <1>1, <2>1, <2>2, <2>3, TimesAssumption
<1>4. pc[r] \in {"idle", "execute"} =>
        Superseded(fill[r], t) = {} /\ Superseded(parts[r], t) = {}
  BY <1>1 DEF ReaderYoung, Superseded
<1> QED BY <1>2, <1>3, <1>4 DEF ReaderYoung, NotThere, HitAge

\* A reader that keeps what it has read, and its phase, stays as it is.
LEMMA ReaderKeeps ==
  ASSUME IInv, NEW r \in Readers,
         fill'[r] = fill[r], parts'[r] = parts[r], pc'[r] = pc[r],
         spent'[r] = spent[r]
  PROVE  ReaderYoung(r)'
BY DEF IInv, Young, ReaderYoung, NotThere, HitAge

\* A reader that drops what it has read is done with it.
LEMMA ReaderEmpty ==
  ASSUME NEW r \in Readers, fill'[r] = {}, parts'[r] = {}
  PROVE  ReaderYoung(r)'
BY DEF ReaderYoung

\* One reader moves, the cache and the others stay.
LEMMA OneReader ==
  ASSUME IInv, NEW r \in Readers, UNCHANGED cache, ReaderYoung(r)',
         \A q \in Readers \ {r} : /\ fill'[q] = fill[q] /\ parts'[q] = parts[q]
                                  /\ pc'[q] = pc[q] /\ spent'[q] = spent[q]
  PROVE  Young'
<1>1. \A k \in Keys : EntryYoung(k)'
  BY DEF IInv, Young, EntryYoung, NotThere
<1>2. \A q \in Readers : ReaderYoung(q)'
  BY ReaderKeeps
<1> QED BY <1>1, <1>2 DEF Young

LEMMA YoungSupersede ==
  ASSUME IInv, NEW t, Supersede(t), UNCHANGED <<pc, spent>>
  PROVE  Young'
<1>1. \A k \in Keys : EntryYoung(k)'
  BY EntrySuperseded DEF Supersede
<1>2. \A r \in Readers : ReaderYoung(r)'
  BY ReaderSuperseded DEF Supersede
<1> QED BY <1>1, <1>2 DEF Young

LEMMA YoungTick ==
  ASSUME IInv, Tick
  PROVE  Young'
<1>1. ASSUME NEW k \in Keys PROVE EntryYoung(k)'
  <2>1. cache[k] \in Entries /\ EntryYoung(k)
    BY DEF IInv, TypeOK, Young, Entries
  <2>2. CASE cache[k].left > 1
    <3>1. /\ cache'[k].left = cache[k].left - 1
          /\ cache'[k].parts = Aged(cache[k].parts)
      BY <2>1, <2>2 DEF Tick, Entries
    <3>2. ASSUME NEW p \in Aged(cache[k].parts)
          PROVE  /\ p.hit /\ ~NotThere(p)
                 /\ cache[k].left - 1 >= 1
                 /\ p.age <= Ttl - (cache[k].left - 1) + MaxSpent
      <4>1. PICK q \in cache[k].parts : /\ p.hit = q.hit
                                        /\ NotThere(p) = NotThere(q)
                                        /\ p.age <= q.age + 1
        BY <2>1, AgedFacts DEF Entries
      <4>2. q.hit /\ ~NotThere(q) /\ q.age <= Ttl - cache[k].left + MaxSpent
        BY <2>1 DEF EntryYoung
      <4>3. cache[k].left \in 0..Ttl /\ p.age \in Int /\ q.age \in Int
        BY <2>1, PartTypes DEF Entries, Parts, Current
      <4> QED BY <2>2, <4>1, <4>2, <4>3, TimesAssumption
    <3> QED BY <3>1, <3>2 DEF EntryYoung, NotThere
  <2>3. CASE ~(cache[k].left > 1)
    <3>1. cache'[k].parts = {}
      BY <2>3 DEF Tick, Miss
    <3> QED BY <3>1 DEF EntryYoung
  <2> QED BY <2>2, <2>3
<1>2. ASSUME NEW r \in Readers PROVE ReaderYoung(r)'
  <2>1. /\ fill[r] \in SUBSET Parts /\ parts[r] \in SUBSET Parts
        /\ spent[r] \in 0..MaxSpent /\ ReaderYoung(r)
    BY DEF IInv, TypeOK, Young
  <2>2. fill'[r] = Aged(fill[r]) /\ parts'[r] = Aged(parts[r]) /\ pc'[r] = pc[r]
    BY DEF Tick
  <2>3. CASE ~Busy(r)
    <3>1. fill'[r] = {} /\ parts'[r] = {}
      BY <2>1, <2>2, <2>3 DEF Busy, ReaderYoung, Aged
    <3> QED BY <3>1, ReaderEmpty
  <2>4. CASE Busy(r)
    <3>1. spent'[r] = spent[r] + 1 /\ pc[r] \notin {"idle", "execute"}
      BY <2>4 DEF Tick, Busy
    <3>2. ASSUME NEW p \in Aged(fill[r])
          PROVE  ~p.hit /\ ~NotThere(p) /\ p.age <= spent[r] + 1
      <4>1. PICK q \in fill[r] : /\ p.hit = q.hit
                                 /\ NotThere(p) = NotThere(q)
                                 /\ p.age <= q.age + 1
        BY <2>1, AgedFacts
      <4>2. ~q.hit /\ ~NotThere(q) /\ q.age <= spent[r]
        BY <2>1 DEF ReaderYoung
      <4>3. p.age \in Int /\ q.age \in Int
        BY <2>1, PartTypes DEF Parts, Current
      <4> QED BY <2>1, <4>1, <4>2, <4>3, TimesAssumption
    <3>3. ASSUME NEW p \in Aged(parts[r])
          PROVE  /\ p.age <= spent[r] + 1 + HitAge(p)
                 /\ NotThere(p) => p.age <= spent[r] + 1 /\ pc[r] = "error"
      <4>1. PICK q \in parts[r] : /\ p.hit = q.hit
                                  /\ NotThere(p) = NotThere(q)
                                  /\ p.age <= q.age + 1
        BY <2>1, AgedFacts
      <4>2. /\ q.age <= spent[r] + HitAge(q)
            /\ NotThere(q) => q.age <= spent[r] /\ pc[r] = "error"
        BY <2>1 DEF ReaderYoung
      <4>3. p.age \in Int /\ q.age \in Int
        BY <2>1, PartTypes DEF Parts, Current
      <4>4. HitAge(p) = HitAge(q) /\ HitAge(p) \in Nat
        BY <4>1, TimesAssumption DEF HitAge
      <4> QED BY <2>1, <4>1, <4>2, <4>3, <4>4, TimesAssumption
    <3> QED BY <2>2, <3>1, <3>2, <3>3 DEF ReaderYoung, NotThere, HitAge
  <2> QED BY <2>3, <2>4
<1> QED BY <1>1, <1>2 DEF Young

LEMMA YoungBegin ==
  ASSUME IInv, NEW r \in Readers, NEW u, NEW calls, Begin(r, u, calls)
  PROVE  Young'
<1>1. parts[r] = {}
  BY DEF Begin, IInv, Young, ReaderYoung
<1>2. fill'[r] = {} /\ parts'[r] = {}
  BY <1>1 DEF Begin, GoOn, IInv, TypeOK
<1>3. \A q \in Readers \ {r} : /\ fill'[q] = fill[q] /\ parts'[q] = parts[q]
                               /\ pc'[q] = pc[q] /\ spent'[q] = spent[q]
  BY DEF Begin, GoOn, IInv, TypeOK
<1> QED BY <1>2, <1>3, ReaderEmpty, OneReader DEF Begin

\* What is read, from the cache or from the tables, joins the rest.
LEMMA YoungReturn ==
  ASSUME IInv, NEW r \in Readers, NEW read \in SUBSET Parts, Return(r, read),
         pc[r] \in {"get", "query", "set"}, UNCHANGED spent,
         \A p \in read : p.age <= spent[r] + HitAge(p) /\ ~NotThere(p)
  PROVE  /\ ReaderYoung(r)'
         /\ \A q \in Readers \ {r} : /\ fill'[q] = fill[q] /\ parts'[q] = parts[q]
                                     /\ pc'[q] = pc[q] /\ spent'[q] = spent[q]
<1>1. fill'[r] = {} /\ parts'[r] = parts[r] \cup read
  BY DEF Return, GoOn, IInv, TypeOK
<1>2. \A p \in parts[r] : p.age <= spent[r] + HitAge(p) /\ ~NotThere(p)
  BY DEF IInv, Young, ReaderYoung
<1>3. pc'[r] \notin {"idle", "execute"}
  BY DEF Return, GoOn, First, IInv, TypeOK
<1>4. ReaderYoung(r)'
  BY <1>1, <1>2, <1>3 DEF ReaderYoung, HitAge, NotThere
<1> QED BY <1>4 DEF Return, GoOn, IInv, TypeOK

LEMMA YoungCacheGet ==
  ASSUME IInv, NEW r \in Readers, CacheGet(r)
  PROVE  Young'
<1> DEFINE k == Head(reads[r]).key
<1>1. k \in Keys
  BY CallTypes DEF CacheGet, IInv, TypeOK
<1>2. cache[k] \in Entries /\ EntryYoung(k) /\ spent[r] \in 0..MaxSpent
  BY <1>1 DEF IInv, TypeOK, Young, Entries
<1>3. CASE Return(r, cache[k].parts)
  <2>1. ASSUME NEW p \in cache[k].parts
        PROVE  p.age <= spent[r] + HitAge(p) /\ ~NotThere(p)
    <3>1. /\ p.hit /\ ~NotThere(p) /\ cache[k].left >= 1
          /\ p.age <= Ttl - cache[k].left + MaxSpent
      BY <1>2 DEF EntryYoung
    <3>2. cache[k].left \in 0..Ttl /\ p.age \in Int
      BY <1>2 DEF Entries, Parts, Current
    <3> QED BY <1>2, <3>1, <3>2, TimesAssumption DEF HitAge
  <2>2. cache[k].parts \in SUBSET Parts
    BY <1>2 DEF Entries
  <2> QED BY <1>3, <2>1, <2>2, YoungReturn, OneReader DEF CacheGet
<1>4. CASE /\ pc' = [pc EXCEPT ![r] = "query"]
           /\ UNCHANGED <<reads, todo, fill, parts, solved>>
  <2>1. ReaderYoung(r)'
    BY <1>4 DEF CacheGet, IInv, TypeOK, Young, ReaderYoung, HitAge, NotThere
  <2>2. \A q \in Readers \ {r} : /\ fill'[q] = fill[q] /\ parts'[q] = parts[q]
                                 /\ pc'[q] = pc[q] /\ spent'[q] = spent[q]
    BY <1>4 DEF CacheGet, IInv, TypeOK
  <2> QED BY <2>1, <2>2, OneReader DEF CacheGet
<1> QED BY <1>3, <1>4 DEF CacheGet

\* What was just read is current; a row that must be there and is not, is lacking.
LEMMA FreshPart ==
  ASSUME IInv, NEW r \in Readers, pc[r] = "query"
  PROVE  LET p == Part(Head(reads[r]), Head(todo[r])) IN
         /\ ~p.hit /\ p.age = -1
         /\ NotThere(p) => Lacks(r, Head(todo[r]))
BY DEF Part, Current, NotThere, Lacks

LEMMA YoungQuery ==
  ASSUME IInv, NEW r \in Readers, Query(r)
  PROVE  Young'
<1> DEFINE call == Head(reads[r])
           t == Head(todo[r])
           read == fill[r] \cup {Part(call, t)}
<1>1. /\ ~Part(call, t).hit /\ Part(call, t).age = -1
      /\ NotThere(Part(call, t)) => Lacks(r, t)
  BY FreshPart DEF Query
<1>2. /\ spent[r] \in 0..MaxSpent /\ ReaderYoung(r)
      /\ pc[r] = "query" /\ UNCHANGED <<cache, spent>>
  BY DEF Query, IInv, TypeOK, Young
<1>3. ASSUME ~Lacks(r, t), NEW p \in read
      PROVE  ~p.hit /\ ~NotThere(p) /\ p.age <= spent[r]
  BY <1>1, <1>2, <1>3, TimesAssumption DEF ReaderYoung
<1>4. CASE Leave(r, "error", {Part(call, t)})
  <2>1. ReaderYoung(r)'
    <3>1. fill'[r] = {} /\ parts'[r] = {Part(call, t)} /\ pc'[r] = "error"
      BY <1>4 DEF Leave, IInv, TypeOK
    <3>2. /\ Part(call, t).age <= spent'[r]
          /\ Part(call, t).age <= spent'[r] + 0
      BY <1>1, <1>2, TimesAssumption
    <3> QED BY <1>1, <3>1, <3>2 DEF ReaderYoung, HitAge
  <2>2. \A q \in Readers \ {r} : /\ fill'[q] = fill[q] /\ parts'[q] = parts[q]
                                 /\ pc'[q] = pc[q] /\ spent'[q] = spent[q]
    BY <1>2, <1>4 DEF Leave, IInv, TypeOK
  <2> QED BY <1>2, <2>1, <2>2, OneReader
<1>5. CASE /\ ~Lacks(r, t)
           /\ fill' = [fill EXCEPT ![r] = read]
           /\ pc' \in {pc, [pc EXCEPT ![r] = "set"]}
           /\ UNCHANGED parts
  <2>1. ReaderYoung(r)'
    <3>1. /\ fill'[r] = read /\ parts'[r] = parts[r] /\ spent'[r] = spent[r]
          /\ pc'[r] \in {"query", "set"}
      BY <1>2, <1>5 DEF IInv, TypeOK
    <3>2. \A p \in parts[r] : p.age <= spent[r] + HitAge(p) /\ ~NotThere(p)
      BY <1>2 DEF ReaderYoung
    <3> QED BY <1>3, <1>5, <3>1, <3>2 DEF ReaderYoung, HitAge, NotThere
  <2>2. \A q \in Readers \ {r} : /\ fill'[q] = fill[q] /\ parts'[q] = parts[q]
                                 /\ pc'[q] = pc[q] /\ spent'[q] = spent[q]
    BY <1>2, <1>5 DEF IInv, TypeOK
  <2> QED BY <1>2, <2>1, <2>2, OneReader
<1>6. CASE ~Lacks(r, t) /\ Return(r, read)
  <2>1. \A p \in read : p.age <= spent[r] + HitAge(p) /\ ~NotThere(p)
    BY <1>2, <1>3, <1>6, TimesAssumption DEF HitAge
  <2>2. read \in SUBSET Parts
    BY <1>2, QueryFacts DEF IInv
  <2> QED BY <1>2, <1>6, <2>1, <2>2, YoungReturn, OneReader
<1> QED BY <1>4, <1>5, <1>6 DEF Query

LEMMA YoungQueryFails ==
  ASSUME IInv, NEW r \in Readers, QueryFails(r)
  PROVE  Young'
<1>1. CASE Return(r, {})
  BY <1>1, YoungReturn, OneReader DEF QueryFails
<1>2. CASE Leave(r, "error", {})
  <2>1. fill'[r] = {} /\ parts'[r] = {}
    BY <1>2 DEF Leave, IInv, TypeOK
  <2>2. \A q \in Readers \ {r} : /\ fill'[q] = fill[q] /\ parts'[q] = parts[q]
                                 /\ pc'[q] = pc[q] /\ spent'[q] = spent[q]
    BY <1>2 DEF QueryFails, Leave, IInv, TypeOK
  <2> QED BY <2>1, <2>2, ReaderEmpty, OneReader DEF QueryFails
<1> QED BY <1>1, <1>2 DEF QueryFails

LEMMA YoungCacheSet ==
  ASSUME IInv, NEW r \in Readers, CacheSet(r)
  PROVE  Young'
<1> DEFINE k == Head(reads[r]).key
<1>1. k \in Keys
  BY CallTypes DEF CacheSet, IInv, TypeOK
<1>2. /\ fill[r] \in SUBSET Parts /\ spent[r] \in 0..MaxSpent
      /\ \A p \in fill[r] : ~p.hit /\ ~NotThere(p) /\ p.age <= spent[r]
  BY DEF IInv, TypeOK, Young, ReaderYoung
<1>3. \A p \in fill[r] : p.age <= spent[r] + HitAge(p) /\ ~NotThere(p)
  BY <1>2, TimesAssumption DEF HitAge
<1>4. \A q \in Readers : ReaderYoung(q)'
  BY <1>2, <1>3, YoungReturn, ReaderKeeps DEF CacheSet
<1>5. ASSUME NEW p \in FromCache(fill[r])
      PROVE  p.hit /\ ~NotThere(p) /\ p.age <= MaxSpent
  <2>1. PICK q \in fill[r] : NotThere(p) = NotThere(q) /\ p.age = q.age
    BY <1>2, FromCacheFacts
  <2>2. p.hit /\ q.age \in Int
    BY <1>2, FromCacheFacts DEF Parts, Current
  <2> QED BY <1>2, <2>1, <2>2, TimesAssumption
<1>6. ASSUME NEW l \in Keys PROVE EntryYoung(l)'
  <2>1. CASE l = k /\ cache' = [cache EXCEPT ![k] =
               [parts |-> FromCache(fill[r]), solved |-> solved[r], left |-> Ttl]]
    <3>1. cache'[l].parts = FromCache(fill[r]) /\ cache'[l].left = Ttl
      BY <1>1, <2>1 DEF IInv, TypeOK
    <3>2. Ttl >= 1 /\ Ttl - Ttl + MaxSpent = MaxSpent
      BY TimesAssumption
    <3> QED BY <1>5, <3>1, <3>2 DEF EntryYoung, NotThere
  <2>2. CASE cache'[l] = cache[l]
    BY <2>2 DEF EntryYoung, IInv, Young, NotThere
  <2> QED BY <1>1, <2>1, <2>2 DEF CacheSet, IInv, TypeOK
<1> QED BY <1>4, <1>6 DEF Young

LEMMA YoungLeave ==
  ASSUME IInv, NEW r \in Readers, NEW next, Leave(r, next, {}),
         spent' = [spent EXCEPT ![r] = 0], UNCHANGED cache
  PROVE  Young'
<1>1. fill'[r] = {} /\ parts'[r] = {}
  BY DEF Leave, IInv, TypeOK
<1>2. \A q \in Readers \ {r} : /\ fill'[q] = fill[q] /\ parts'[q] = parts[q]
                               /\ pc'[q] = pc[q] /\ spent'[q] = spent[q]
  BY DEF Leave, IInv, TypeOK
<1> QED BY <1>1, <1>2, ReaderEmpty, OneReader

LEMMA YoungDecide ==
  ASSUME IInv, NEW w \in Workers, Decide(w)
  PROVE  Young'
<1>1. w \in Readers /\ fill'[w] = {} /\ parts'[w] = {}
  BY DEF Decide, WriteVerdict, IInv, TypeOK, Readers
<1>2. \A q \in Readers \ {w} : pc'[q] = pc[q] /\ spent'[q] = spent[q]
  BY DEF Decide, IInv, TypeOK
<1>3. CASE UNCHANGED <<submission, cache>> /\ fill' = [fill EXCEPT ![w] = {}]
             /\ parts' = [parts EXCEPT ![w] = {}]
  BY <1>1, <1>2, <1>3, ReaderEmpty, OneReader DEF IInv, TypeOK
<1>4. ASSUME NEW v, WriteVerdict(w, v) PROVE Young'
  <2>1. \A k \in Keys : EntryYoung(k)'
    BY <1>4, EntrySuperseded DEF WriteVerdict
  <2>2. \A q \in Readers \ {w} : ReaderYoung(q)'
    BY <1>2, <1>4, ReaderSuperseded DEF WriteVerdict
  <2> QED BY <1>1, <2>1, <2>2, ReaderEmpty DEF Young
<1> QED BY <1>3, <1>4 DEF Decide

LEMMA YoungStep == IInv /\ [Next]_vars => Young'
<1> SUFFICES ASSUME IInv, [Next]_vars PROVE Young'
  OBVIOUS
<1>1. CASE Tick
  BY <1>1, YoungTick
<1>2. ASSUME NEW t \in Editable, Edit(t) PROVE Young'
  BY <1>2, YoungSupersede DEF Edit
<1>3. ASSUME NEW u \in Users, Submit(u) PROVE Young'
  BY <1>3, YoungSupersede DEF Submit
<1>4. ASSUME NEW h \in Handlers, NEW u \in Users \cup {Nobody}, Ask(h, u)
      PROVE  Young'
  BY <1>4, YoungBegin DEF Ask, Readers
<1>5. ASSUME NEW h \in Handlers, Respond(h) PROVE Young'
  BY <1>5, YoungLeave DEF Respond, Readers
<1>6. ASSUME NEW w \in Workers, NEW u \in Users, TakeJob(w, u) PROVE Young'
  BY <1>6, YoungBegin DEF TakeJob, Readers
<1>7. ASSUME NEW w \in Workers, Run(w) PROVE Young'
  BY <1>7, YoungLeave DEF Run, Readers
<1>8. ASSUME NEW w \in Workers, Decide(w) PROVE Young'
  BY <1>8, YoungDecide
<1>9. ASSUME NEW r \in Readers,
             CacheGet(r) \/ Query(r) \/ QueryFails(r) \/ CacheSet(r)
      PROVE  Young'
  BY <1>9, YoungCacheGet, YoungQuery, YoungQueryFails, YoungCacheSet
<1>10. CASE UNCHANGED vars
  BY <1>10 DEF vars, IInv, Young, EntryYoung, ReaderYoung, HitAge, NotThere
<1> QED BY <1>1, <1>2, <1>3, <1>4, <1>5, <1>6, <1>7, <1>8, <1>9, <1>10 DEF Next

LEMMA IInvAlways == Spec => []IInv
<1>1. Init => IInv
  BY TypeInit, YoungInit DEF IInv
<1>2. IInv /\ [Next]_vars => IInv'
  BY TypeStep, YoungStep DEF IInv
<1> QED BY <1>1, <1>2, PTL DEF Spec

(* An answer, and the input of a judge, is made of rows that were current     *)
(* within the time to live and the time of two answers, for any number of     *)
(* readers that fill the cache over each other, whatever fails.               *)
THEOREM RecentAnswers == Spec => []AnswersAreRecent
<1>1. IInv => AnswersAreRecent
  <2> SUFFICES ASSUME IInv, NEW r \in Readers, NEW p \in parts[r]
               PROVE  p.age <= Lag(p)
    BY DEF AnswersAreRecent
  <2>1. p.age <= spent[r] + HitAge(p) /\ spent[r] \in 0..MaxSpent
    BY DEF IInv, TypeOK, Young, ReaderYoung
  <2>2. p.age \in Int
    BY DEF IInv, TypeOK, Parts, Current
  <2> QED BY <2>1, <2>2, TimesAssumption DEF HitAge, Lag
<1> QED BY <1>1, IInvAlways, PTL

(* That a system code or a problem is not there is never cached.              *)
THEOREM FreshAbsence == Spec => []AbsenceIsFresh
<1>1. IInv => AbsenceIsFresh
  BY DEF IInv, Young, ReaderYoung, AbsenceIsFresh
<1> QED BY <1>1, IInvAlways, PTL
-----------------------------------------------------------------------------
(* Whose marks an answer has.  The marks are what a request reads last, so    *)
(* that nothing is cached with them; and a row that is accepted stays so,     *)
(* because the worker that writes a row is the only one that has it.          *)

OwnMarks(r) ==
  /\ \A i \in 1..Len(reads[r]) :
       reads[r][i].key = "solved" => i = Len(reads[r]) /\ user[r] # Nobody
  /\ pc[r] \in {"idle", "execute", "error"} => reads[r] = <<>>
  /\ solved[r] =>
       pc[r] = "answer" /\ user[r] # Nobody /\ submission[user[r]] = "accepted"

Marks ==
  /\ \A k \in Keys : ~cache[k].solved
  /\ \A r \in Readers : OwnMarks(r)

OwnJob(w) ==
  /\ user[w] \in Users \ queued
  /\ submission[user[w]] = "processing"
  /\ \A v \in Workers \ {w} : pc[v] # "idle" => user[v] # user[w]

Jobs ==
  /\ \A u \in queued : submission[u] = "processing"
  /\ \A w \in Workers : pc[w] # "idle" => OwnJob(w)

MInv == TypeOK /\ Marks /\ Jobs

\* A reader goes on in its request: who has which job stays.
LEMMA JobsKept ==
  ASSUME MInv, NEW r \in Readers, pc[r] # "idle",
         NEW label \in Phases \ {"idle"}, pc' = [pc EXCEPT ![r] = label],
         UNCHANGED <<submission, queued, user>>
  PROVE  Jobs'
<1>1. \A w \in Workers : pc'[w] # "idle" => pc[w] # "idle"
  BY DEF MInv, TypeOK, Readers
<1> QED BY <1>1 DEF MInv, Jobs, OwnJob

LEMMA FirstPhase == \A calls : First(calls) \in {"get", "query", "answer"}
BY DEF First

\* The marks of one reader that goes on with the rest of its calls, when the
\* cache and the rows stay.
LEMMA MarksKept ==
  ASSUME MInv, NEW r \in Readers,
         UNCHANGED <<submission, user>>,
         \A q \in Readers \ {r} : reads'[q] = reads[q] /\ pc'[q] = pc[q]
                                    /\ solved'[q] = solved[q],
         \A k \in Keys : ~cache'[k].solved,
         OwnMarks(r)'
  PROVE  Marks'
<1>1. ASSUME NEW q \in Readers \ {r} PROVE OwnMarks(q)'
  BY <1>1 DEF MInv, Marks, OwnMarks
<1> QED BY <1>1 DEF Marks

\* The calls of r without the first have the marks last as well.
LEMMA TailMarks ==
  ASSUME MInv, NEW r \in Readers, reads[r] # <<>>
  PROVE  /\ \A i \in 1..Len(Tail(reads[r])) :
              Tail(reads[r])[i].key = "solved" =>
                i = Len(Tail(reads[r])) /\ user[r] # Nobody
         /\ Head(reads[r]).key = "solved" =>
              Tail(reads[r]) = <<>> /\ user[r] # Nobody
<1>1. reads[r] \in Seq(Calls)
  BY DEF MInv, TypeOK
<1>2. \A i \in 1..Len(reads[r]) :
        reads[r][i].key = "solved" => i = Len(reads[r]) /\ user[r] # Nobody
  BY DEF MInv, Marks, OwnMarks
<1>3. /\ Len(reads[r]) \in Nat \ {0}
      /\ Len(Tail(reads[r])) = Len(reads[r]) - 1
      /\ Head(reads[r]) = reads[r][1]
      /\ \A i \in 1..Len(Tail(reads[r])) : Tail(reads[r])[i] = reads[r][i + 1]
  BY <1>1
<1>4. Tail(reads[r]) \in Seq(Calls)
  BY <1>1
<1>5. ASSUME NEW i \in 1..Len(Tail(reads[r])), Tail(reads[r])[i].key = "solved"
      PROVE  i = Len(Tail(reads[r])) /\ user[r] # Nobody
  <2> DEFINE j == i + 1
  <2>1. Tail(reads[r])[i] = reads[r][j]
    BY <1>3
  <2>2. j \in 1..Len(reads[r])
    BY <1>3
  <2>3. j = Len(reads[r]) /\ user[r] # Nobody
    BY <1>2, <1>5, <2>1, <2>2
  <2> QED BY <1>3, <2>3
<1>6. ASSUME Head(reads[r]).key = "solved"
      PROVE  Tail(reads[r]) = <<>> /\ user[r] # Nobody
  <2>1. 1 \in 1..Len(reads[r]) /\ reads[r][1].key = "solved"
    BY <1>3, <1>6
  <2>2. 1 = Len(reads[r]) /\ user[r] # Nobody
    BY <1>2, <2>1
  <2>3. Len(Tail(reads[r])) = 0
    BY <1>3, <2>2
  <2>4. Tail(reads[r]) = <<>>
    BY <1>4, <2>3, EmptySeq
  <2> QED BY <2>2, <2>4
<1> QED BY <1>5, <1>6

\* A call returns: what it says about marks is the user's, and the last.
LEMMA MarksReturn ==
  ASSUME MInv, NEW r \in Readers, pc[r] \in {"get", "query", "set"},
         NEW read, Return(r, read),
         UNCHANGED <<submission, user, queued>>,
         \A k \in Keys : ~cache'[k].solved,
         \A q \in Readers \ {r} : solved'[q] = solved[q],
         solved'[r] => Head(reads[r]).key = "solved"
                         /\ submission[user[r]] = "accepted"
  PROVE  Marks' /\ Jobs'
<1>1. reads[r] # <<>>
  BY DEF MInv, TypeOK
<1>2. /\ reads' = [reads EXCEPT ![r] = Tail(reads[r])]
      /\ pc' = [pc EXCEPT ![r] = First(Tail(reads[r]))]
  BY DEF Return, GoOn
<1>3. /\ reads'[r] = Tail(reads[r]) /\ pc'[r] = First(Tail(reads[r]))
      /\ \A q \in Readers \ {r} : reads'[q] = reads[q] /\ pc'[q] = pc[q]
  BY <1>2 DEF MInv, TypeOK
<1>4. First(<<>>) = "answer"
  BY DEF First
<1>5. OwnMarks(r)'
  BY <1>1, <1>3, <1>4, TailMarks, FirstPhase DEF OwnMarks
<1>6. Marks'
  BY <1>3, <1>5, MarksKept
<1>7. Jobs'
  BY <1>2, FirstPhase, JobsKept DEF Phases
<1> QED BY <1>6, <1>7

\* The request of r ends here.
LEMMA MarksLeave ==
  ASSUME MInv, NEW r \in Readers, NEW next \in Phases \ {"answer"}, NEW read,
         Leave(r, next, read),
         UNCHANGED <<submission, cache>>,
         \A q \in Readers \ {r} : user'[q] = user[q]
  PROVE  Marks'
<1>1. /\ reads'[r] = <<>> /\ ~solved'[r]
      /\ \A q \in Readers \ {r} : reads'[q] = reads[q] /\ pc'[q] = pc[q]
                                    /\ solved'[q] = solved[q]
  BY DEF Leave, MInv, TypeOK
<1>2. OwnMarks(r)'
  BY <1>1 DEF OwnMarks
<1>3. ASSUME NEW q \in Readers \ {r} PROVE OwnMarks(q)'
  BY <1>1, <1>3 DEF MInv, Marks, OwnMarks
<1>4. \A k \in Keys : ~cache'[k].solved
  BY DEF MInv, Marks
<1> QED BY <1>2, <1>3, <1>4 DEF Marks

LEMMA MarksCacheGet ==
  ASSUME MInv, NEW r \in Readers, CacheGet(r)
  PROVE  Marks' /\ Jobs'
<1> DEFINE entry == cache[Head(reads[r]).key]
<1>1. /\ pc[r] = "get" /\ ~solved[r]
      /\ UNCHANGED <<submission, user, queued, cache>>
      /\ \A k \in Keys : ~cache'[k].solved
  BY DEF CacheGet, MInv, Marks, OwnMarks
<1>2. ~entry.solved
  <2>1. Head(reads[r]) \in Calls /\ Head(reads[r]).cached
    BY <1>1 DEF MInv, TypeOK
  <2> QED BY <2>1, CallTypes DEF MInv, Marks
<1>3. CASE /\ Return(r, entry.parts)
           /\ solved' = [solved EXCEPT ![r] = entry.solved]
  <2>1. ~solved'[r] /\ \A q \in Readers \ {r} : solved'[q] = solved[q]
    BY <1>2, <1>3 DEF MInv, TypeOK
  <2> QED BY <1>1, <1>3, <2>1, MarksReturn
<1>4. CASE /\ pc' = [pc EXCEPT ![r] = "query"]
           /\ UNCHANGED <<reads, solved>>
  <2>1. \A q \in Readers \ {r} : pc'[q] = pc[q]
    BY <1>4 DEF MInv, TypeOK
  <2>2. OwnMarks(r)'
    BY <1>1, <1>4 DEF MInv, Marks, OwnMarks
  <2> QED BY <1>1, <1>4, <2>1, <2>2, MarksKept, JobsKept DEF Phases
<1> QED BY <1>3, <1>4 DEF CacheGet

LEMMA MarksQuery ==
  ASSUME MInv, NEW r \in Readers, Query(r)
  PROVE  Marks' /\ Jobs'
<1> DEFINE call == Head(reads[r])
           read == fill[r] \cup {Part(call, Head(todo[r]))}
<1>1. /\ pc[r] = "query" /\ ~solved[r]
      /\ UNCHANGED <<submission, user, queued, cache>>
      /\ \A k \in Keys : ~cache'[k].solved
  BY DEF Query, MInv, Marks, OwnMarks
<1>2. CASE Leave(r, "error", {Part(call, Head(todo[r]))})
  <2>1. Marks'
    BY <1>1, <1>2, MarksLeave DEF Phases
  <2>2. Jobs'
    BY <1>1, <1>2, JobsKept DEF Leave, Phases
  <2> QED BY <2>1, <2>2
<1>3. ASSUME NEW label \in {"query", "set"}, pc' = [pc EXCEPT ![r] = label],
             UNCHANGED <<reads, solved>>
      PROVE  Marks' /\ Jobs'
  <2>1. \A q \in Readers \ {r} : pc'[q] = pc[q]
    BY <1>3 DEF MInv, TypeOK
  <2>2. OwnMarks(r)'
    BY <1>1, <1>3 DEF MInv, Marks, OwnMarks
  <2> QED BY <1>1, <1>3, <2>1, <2>2, MarksKept, JobsKept DEF Phases
<1>4. CASE /\ Return(r, read)
           /\ solved' = [solved EXCEPT ![r] =
                @ \/ (call.key = "solved" /\ submission[user[r]] = "accepted")]
  <2>1. /\ solved'[r] <=> call.key = "solved" /\ submission[user[r]] = "accepted"
        /\ \A q \in Readers \ {r} : solved'[q] = solved[q]
    BY <1>1, <1>4 DEF MInv, TypeOK
  <2> QED BY <1>1, <1>4, <2>1, MarksReturn
<1>5. CASE UNCHANGED <<pc, reads, solved>>
  <2>1. pc' = [pc EXCEPT ![r] = "query"]
    BY <1>1, <1>5 DEF MInv, TypeOK
  <2> QED BY <1>3, <1>5, <2>1
<1> QED BY <1>2, <1>3, <1>4, <1>5 DEF Query

LEMMA MarksQueryFails ==
  ASSUME MInv, NEW r \in Readers, QueryFails(r)
  PROVE  Marks' /\ Jobs'
<1>1. /\ pc[r] = "query" /\ ~solved[r]
      /\ UNCHANGED <<submission, user, queued, cache>>
      /\ \A k \in Keys : ~cache'[k].solved
  BY DEF QueryFails, MInv, Marks, OwnMarks
<1>2. CASE Return(r, {}) /\ UNCHANGED solved
  BY <1>1, <1>2, MarksReturn
<1>3. CASE Leave(r, "error", {})
  <2>1. Marks'
    BY <1>1, <1>3, MarksLeave DEF Phases
  <2>2. Jobs'
    BY <1>1, <1>3, JobsKept DEF Leave, Phases
  <2> QED BY <2>1, <2>2
<1> QED BY <1>2, <1>3 DEF QueryFails

LEMMA MarksCacheSet ==
  ASSUME MInv, NEW r \in Readers, CacheSet(r)
  PROVE  Marks' /\ Jobs'
<1>1. /\ pc[r] = "set" /\ ~solved[r]
      /\ UNCHANGED <<submission, user, queued, solved>>
  BY DEF CacheSet, MInv, Marks, OwnMarks
<1>2. \A k \in Keys : ~cache'[k].solved
  <2>1. ASSUME NEW e, ~e.solved, NEW k,
               cache' = [cache EXCEPT ![k] = e]
        PROVE  \A j \in Keys : ~cache'[j].solved
    BY <2>1 DEF MInv, Marks, TypeOK
  <2> QED BY <1>1, <2>1 DEF CacheSet, MInv, Marks
<1> QED BY <1>1, <1>2, MarksReturn DEF CacheSet

\* A request begins: the marks are asked for last, and for somebody.
LEMMA MarksRequests ==
  /\ \A u : \A calls \in Requests(u) : \A i \in 1..Len(calls) :
       calls[i].key = "solved" => i = Len(calls) /\ u # Nobody
  /\ \A i \in 1..Len(Judge) : Judge[i].key # "solved"
<1> USE DEF Call, GetTestCases, GetSystemCode, GetLanguageImports, GetProblems,
            GetProblemByID, GetSolvedProblemIDs, GetSubmissionByID,
            GetSubmissionsByUserAndProblem, GetUserInfo
<1>1. ASSUME NEW u, NEW c, c.key # "solved"
      PROVE  \A i \in 1..Len(Marked(u, c)) :
               Marked(u, c)[i].key = "solved" =>
                 i = Len(Marked(u, c)) /\ u # Nobody
  BY <1>1 DEF Marked
<1>2. \A i \in 1..Len(Judge) : Judge[i].key # "solved"
  BY DEF Judge
<1>3. ASSUME NEW c, c.key # "solved"
      PROVE  \A i \in 1..Len(<<c>>) : <<c>>[i].key # "solved"
  BY <1>3
<1>4. ASSUME NEW u, NEW calls \in Requests(u)
      PROVE  \A i \in 1..Len(calls) :
               calls[i].key = "solved" => i = Len(calls) /\ u # Nobody
  <2>1. \/ calls = Marked(u, GetProblems) \/ calls = Marked(u, GetProblemByID)
        \/ calls = <<GetSubmissionByID>>
        \/ calls = <<GetSubmissionsByUserAndProblem>>
        \/ calls = <<GetUserInfo>>
    BY <1>4 DEF Requests, ListProblems, ShowProblem, ShowSubmission,
                ListSubmissions, ShowProfile
  <2>2. /\ GetProblems.key # "solved" /\ GetProblemByID.key # "solved"
        /\ GetSubmissionByID.key # "solved"
        /\ GetSubmissionsByUserAndProblem.key # "solved"
        /\ GetUserInfo.key # "solved"
    OBVIOUS
  <2>3. CASE calls = Marked(u, GetProblems) \/ calls = Marked(u, GetProblemByID)
    BY <1>1, <2>2, <2>3
  <2>4. CASE \/ calls = <<GetSubmissionByID>>
             \/ calls = <<GetSubmissionsByUserAndProblem>>
             \/ calls = <<GetUserInfo>>
    BY <1>3, <2>2, <2>4
  <2> QED BY <2>1, <2>3, <2>4
<1> QED BY <1>2, <1>4

LEMMA MarksBegin ==
  ASSUME MInv, NEW r \in Readers, NEW u, NEW calls, Begin(r, u, calls),
         \A i \in 1..Len(calls) :
           calls[i].key = "solved" => i = Len(calls) /\ u # Nobody
  PROVE  Marks'
<1>1. /\ reads'[r] = calls /\ user'[r] = u /\ ~solved'[r]
      /\ pc'[r] = First(calls)
      /\ \A q \in Readers \ {r} : reads'[q] = reads[q] /\ pc'[q] = pc[q]
                                    /\ user'[q] = user[q]
      /\ UNCHANGED <<submission, cache, solved>>
  BY DEF Begin, GoOn, MInv, TypeOK, Marks, OwnMarks
<1>2. OwnMarks(r)'
  BY <1>1, FirstPhase DEF OwnMarks
<1>3. ASSUME NEW q \in Readers \ {r} PROVE OwnMarks(q)'
  BY <1>1, <1>3 DEF MInv, Marks, OwnMarks
<1> QED BY <1>1, <1>2, <1>3 DEF MInv, Marks

LEMMA MarksDecide ==
  ASSUME MInv, NEW w \in Workers, Decide(w)
  PROVE  Marks' /\ Jobs'
<1>1. /\ w \in Readers /\ pc[w] \in {"execute", "error"} /\ OwnJob(w)
      /\ ~solved[w]
  BY DEF Decide, MInv, Jobs, Marks, OwnMarks, Readers
<1>2. /\ pc'[w] = "idle"
      /\ \A q \in Readers \ {w} : pc'[q] = pc[q] /\ user'[q] = user[q]
      /\ UNCHANGED <<queued, reads, solved>>
  BY <1>1 DEF Decide, MInv, TypeOK
<1>3. \A u \in Users \ {user[w]} : submission'[u] = submission[u]
  BY <1>1 DEF Decide, WriteVerdict, MInv, TypeOK
<1>4. \A k \in Keys : ~cache'[k].solved
  <2>1. \A k \in Keys : cache[k] \in Entries
    BY DEF MInv, TypeOK, Entries
  <2> QED BY <2>1 DEF Decide, WriteVerdict, MInv, Marks, Entries
<1>5. reads'[w] = <<>>
  BY <1>1, <1>2 DEF MInv, Marks, OwnMarks
<1>6. OwnMarks(w)'
  BY <1>1, <1>2, <1>5 DEF OwnMarks
<1>7. ASSUME NEW q \in Readers \ {w} PROVE OwnMarks(q)'
  <2>1. OwnMarks(q)
    BY <1>7 DEF MInv, Marks
  <2>2. solved[q] => user[q] \in Users \ {user[w]}
    BY <1>1, <2>1 DEF OwnMarks, OwnJob, MInv, TypeOK
  <2>3. reads'[q] = reads[q] /\ pc'[q] = pc[q] /\ user'[q] = user[q]
        /\ solved'[q] = solved[q]
    BY <1>2, <1>7
  <2>4. solved[q] => submission'[user[q]] = submission[user[q]]
    BY <1>3, <2>2
  <2> QED BY <2>1, <2>3, <2>4 DEF OwnMarks
<1>8. Jobs'
  <2>1. user[w] \notin queued
    BY <1>1 DEF OwnJob
  <2>2. \A u \in queued' : submission'[u] = "processing"
    BY <1>2, <1>3, <2>1 DEF MInv, Jobs, TypeOK
  <2>3. ASSUME NEW v \in Workers, pc'[v] # "idle" PROVE OwnJob(v)'
    <3>1. v # w /\ v \in Readers
      BY <1>2, <2>3 DEF Readers
    <3>2. OwnJob(v) /\ user[v] # user[w] /\ user'[v] = user[v]
      BY <1>1, <1>2, <2>3, <3>1 DEF MInv, Jobs, OwnJob
    <3>3. submission'[user'[v]] = "processing" /\ user'[v] \in Users \ queued'
      BY <1>2, <1>3, <3>2 DEF OwnJob
    <3>4. \A x \in Workers \ {v} : pc'[x] # "idle" => user'[x] # user'[v]
      BY <1>2, <3>2 DEF OwnJob, Readers
    <3> QED BY <3>3, <3>4 DEF OwnJob
  <2> QED BY <2>2, <2>3 DEF Jobs
<1> QED BY <1>4, <1>6, <1>7, <1>8 DEF Marks

LEMMA MarksSupersede ==
  ASSUME MInv, NEW t, Supersede(t)
  PROVE  \A k \in Keys : ~cache'[k].solved
<1>1. \A k \in Keys : cache[k] \in Entries
  BY DEF MInv, TypeOK, Entries
<1> QED BY <1>1 DEF Supersede, MInv, Marks, Entries

LEMMA MarksTick ==
  ASSUME MInv, Tick
  PROVE  Marks' /\ Jobs'
<1>1. \A k \in Keys : cache[k] \in Entries
  BY DEF MInv, TypeOK, Entries
<1>2. \A k \in Keys : ~cache'[k].solved
  BY <1>1 DEF Tick, MInv, Marks, Entries, Miss
<1>3. UNCHANGED <<submission, queued, pc, user, reads, solved>>
  BY DEF Tick
<1>4. Marks'
  BY <1>2, <1>3 DEF MInv, Marks, OwnMarks
<1>5. Jobs'
  BY <1>3 DEF MInv, Jobs, OwnJob
<1> QED BY <1>4, <1>5

LEMMA MarksInit == Init => Marks /\ Jobs
<1> SUFFICES ASSUME Init PROVE Marks /\ Jobs
  OBVIOUS
<1>1. \A k \in Keys : ~cache[k].solved
  BY DEF Init, Miss
<1>2. ASSUME NEW r \in Readers PROVE OwnMarks(r)
  <2>1. reads[r] = <<>> /\ ~solved[r]
    BY DEF Init
  <2> QED BY <2>1 DEF OwnMarks
<1>3. Jobs
  BY DEF Init, Jobs, Readers
<1> QED BY <1>1, <1>2, <1>3 DEF Marks

LEMMA MarksStep == MInv /\ [Next]_vars => Marks' /\ Jobs'
<1> SUFFICES ASSUME MInv, [Next]_vars PROVE Marks' /\ Jobs'
  OBVIOUS
<1>1. CASE Tick
  BY <1>1, MarksTick
<1>2. ASSUME NEW t \in Editable, Edit(t) PROVE Marks' /\ Jobs'
  BY <1>2, MarksSupersede DEF Edit, MInv, Marks, OwnMarks, Jobs, OwnJob
<1>3. ASSUME NEW u \in Users, Submit(u) PROVE Marks' /\ Jobs'
  <2>1. \A k \in Keys : ~cache'[k].solved
    BY <1>3, MarksSupersede DEF Submit
  <2>2. /\ submission[u] = "none" /\ submission'[u] = "processing"
        /\ \A x \in Users \ {u} : submission'[x] = submission[x]
        /\ queued' = queued \cup {u}
        /\ UNCHANGED <<pc, user, reads, solved>>
    BY <1>3 DEF Submit, MInv, TypeOK
  <2>3. ASSUME NEW q \in Readers PROVE OwnMarks(q)'
    <3>1. OwnMarks(q) /\ user[q] \in Users \cup {Nobody}
      BY DEF MInv, Marks, TypeOK
    <3> QED BY <2>2, <3>1 DEF OwnMarks
  <2>4. ASSUME NEW w \in Workers, pc'[w] # "idle" PROVE OwnJob(w)'
    <3>1. OwnJob(w)
      BY <2>2, <2>4 DEF MInv, Jobs
    <3> QED BY <2>2, <3>1 DEF OwnJob
  <2>5. \A x \in queued' : submission'[x] = "processing"
    BY <2>2 DEF MInv, Jobs, TypeOK
  <2> QED BY <2>1, <2>3, <2>4, <2>5 DEF Marks, Jobs
<1>4. ASSUME NEW h \in Handlers, NEW u \in Users \cup {Nobody}, Ask(h, u)
      PROVE  Marks' /\ Jobs'
  <2>1. PICK calls \in Requests(u) : Begin(h, u, calls)
    BY <1>4 DEF Ask
  <2>2. Marks'
    BY <2>1, MarksBegin, MarksRequests DEF Readers
  <2>3. /\ \A w \in Workers : pc'[w] = pc[w] /\ user'[w] = user[w]
        /\ UNCHANGED <<submission, queued>>
    BY <1>4, <2>1, ReadersAssumption
       DEF Ask, Begin, GoOn, MInv, TypeOK, Readers
  <2> QED BY <2>2, <2>3 DEF MInv, Jobs, OwnJob
<1>5. ASSUME NEW h \in Handlers, Respond(h) PROVE Marks' /\ Jobs'
  <2>1. Marks'
    BY <1>5, MarksLeave DEF Respond, MInv, TypeOK, Phases, Readers
  <2>2. /\ \A w \in Workers : pc'[w] = pc[w] /\ user'[w] = user[w]
        /\ UNCHANGED <<submission, queued>>
    BY <1>5, ReadersAssumption DEF Respond, Leave, MInv, TypeOK, Readers
  <2> QED BY <2>1, <2>2 DEF MInv, Jobs, OwnJob
<1>6. ASSUME NEW w \in Workers, NEW u \in Users, TakeJob(w, u)
      PROVE  Marks' /\ Jobs'
  <2>1. w \in Readers /\ Begin(w, u, Judge)
    BY <1>6 DEF TakeJob, Readers
  <2>2. Marks'
    BY <2>1, MarksBegin, MarksRequests
  <2>3. /\ pc[w] = "idle" /\ u \in queued /\ queued' = queued \ {u}
        /\ user'[w] = u /\ submission' = submission
        /\ \A v \in Workers \ {w} : pc'[v] = pc[v] /\ user'[v] = user[v]
    BY <1>6, <2>1 DEF TakeJob, Begin, GoOn, MInv, TypeOK, Readers
  <2>4. ASSUME NEW v \in Workers, pc'[v] # "idle" PROVE OwnJob(v)'
    BY <2>3, <2>4 DEF MInv, Jobs, OwnJob
  <2> QED BY <2>2, <2>3, <2>4 DEF MInv, Jobs
<1>7. ASSUME NEW w \in Workers, Run(w) PROVE Marks' /\ Jobs'
  <2>1. w \in Readers /\ Leave(w, "execute", {}) /\ pc[w] = "answer"
    BY <1>7 DEF Run, Readers
  <2>2. Marks'
    BY <1>7, <2>1, MarksLeave DEF Run, Phases
  <2>3. Jobs'
    BY <1>7, <2>1, JobsKept DEF Run, Leave, Phases
  <2> QED BY <2>2, <2>3
<1>8. ASSUME NEW w \in Workers, Decide(w) PROVE Marks' /\ Jobs'
  BY <1>8, MarksDecide
<1>9. ASSUME NEW r \in Readers,
             CacheGet(r) \/ Query(r) \/ QueryFails(r) \/ CacheSet(r)
      PROVE  Marks' /\ Jobs'
  BY <1>9, MarksCacheGet, MarksQuery, MarksQueryFails, MarksCacheSet
<1>10. CASE UNCHANGED vars
  BY <1>10 DEF vars, MInv, Marks, OwnMarks, Jobs, OwnJob
<1> QED BY <1>1, <1>2, <1>3, <1>4, <1>5, <1>6, <1>7, <1>8, <1>9, <1>10 DEF Next

(* The marks in an answer are those of the user who asks, however many users  *)
(* share the cached list (SolvedIsOwn of CachedReads).                        *)
THEOREM OwnMarksAlways == Spec => []SolvedIsOwn
<1>1. Init => MInv
  BY TypeInit, MarksInit DEF MInv
<1>2. MInv /\ [Next]_vars => MInv'
  BY TypeStep, MarksStep DEF MInv
<1>3. MInv => SolvedIsOwn
  BY DEF MInv, Marks, OwnMarks, SolvedIsOwn
<1> QED BY <1>1, <1>2, <1>3, PTL DEF Spec
=============================================================================
