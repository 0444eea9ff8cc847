------------------------- MODULE AuthSessionsProofs -------------------------
(***************************************************************************)
(* Sessions end, and end separately, for every number of users, browsers    *)
(* and requests, every life of tokens, and whatever fails.                  *)
(***************************************************************************)
EXTENDS AuthSessions, TLAPS

USE UsersAssumption, TimesAssumption

\* What a request at these places has is a token of a user.
Genuine ==
  \A c \in Requests :
    /\ request[c].at \in {"store", "set", "check", "renew"} =>
         request[c].refresh # NoRefresh
    /\ request[c].at # "idle" => request[c].browser \in Browsers

Typed == TypeOK /\ Genuine

(* Tokens that are made now.                                                   *)
LEMMA TokenTypes ==
  ASSUME now \in 0 .. MaxTime, NEW u \in Users, NEW s \in Refreshes
  PROVE  /\ RefreshToken(u) \in Refreshes \ {NoRefresh}
         /\ AccessToken(u, s) \in Accesses \ {NoAccess}
<1>1. RefreshToken(u) \in Refreshes
  BY DEF RefreshToken, Refreshes
<1>2. RefreshToken(u).user = u /\ NoRefresh.user = Nobody
  BY DEF RefreshToken, NoRefresh
<1>3. AccessToken(u, s) \in Accesses
  BY DEF AccessToken, Accesses
<1>4. AccessToken(u, s).user = u /\ NoAccess.user = Nobody
  BY DEF AccessToken, NoAccess
<1> QED BY <1>1, <1>2, <1>3, <1>4

(* The user and the end of a token.                                            *)
LEMMA TokenFields ==
  /\ NoRefresh \in Refreshes /\ NoAccess \in Accesses /\ Idle \in RequestStates
  /\ \A r \in Refreshes : /\ r.exp \in Nat
                          /\ r # NoRefresh => r.user \in Users
  /\ \A a \in Accesses : a.exp \in Nat /\ a.session \in Refreshes
  /\ NoRefresh.exp = 0 /\ NoAccess.exp = 0 /\ NoAccess.session = NoRefresh
<1>1. NoRefresh \in Refreshes /\ NoAccess \in Accesses
  BY DEF Refreshes, Accesses
<1>2. NoRefresh.exp = 0 /\ NoAccess.exp = 0 /\ NoAccess.session = NoRefresh
  BY DEF NoRefresh, NoAccess
<1>3. \A r \in Refreshes : r.exp \in Nat /\ (r # NoRefresh => r.user \in Users)
  BY <1>2 DEF Refreshes
<1>4. \A a \in Accesses : a.exp \in Nat /\ a.session \in Refreshes
  BY <1>1, <1>2 DEF Accesses
<1>5. Idle \in RequestStates
  BY <1>1 DEF Idle, RequestStates
<1> QED BY <1>1, <1>2, <1>3, <1>4, <1>5

(* What changes when one request goes on.                                      *)
LEMMA OneRequest ==
  ASSUME NEW c \in Requests, request \in [Requests -> RequestStates],
         NEW r \in RequestStates, Becomes(c, r)
  PROVE  /\ request' \in [Requests -> RequestStates]
         /\ request'[c] = r
         /\ \A e \in Requests \ {c} : request'[e] = request[e]
BY DEF Becomes

LEMMA InitTyped == Init => Typed
<1> SUFFICES ASSUME Init PROVE Typed
  OBVIOUS
<1>1. TypeOK
  BY TokenFields DEF Init, TypeOK
<1>2. Genuine
  BY DEF Init, Genuine, Idle
<1> QED BY <1>1, <1>2 DEF Typed

(* Each step of a request leaves it in a state of these.                       *)
LEMMA StateTypes ==
  ASSUME Typed, NEW c \in Requests
  PROVE  /\ \A l \in {"set", "clear", "check", "renew"} :
              [request[c] EXCEPT !.at = l] \in RequestStates
         /\ \A a \in Accesses, r \in Refreshes, l \in {"store", "renewed"} :
              [request[c] EXCEPT !.at = l, !.access = a, !.refresh = r]
                \in RequestStates
<1>1. request[c] \in RequestStates
  BY DEF Typed, TypeOK
<1> QED BY <1>1, TokenFields DEF RequestStates

LEMMA OneRequestTyped ==
  ASSUME Typed, NEW c \in Requests, NEW r \in RequestStates, Becomes(c, r),
         r.at \in {"store", "set", "check", "renew"} => r.refresh # NoRefresh,
         r.at # "idle" => r.browser \in Browsers
  PROVE  request' \in [Requests -> RequestStates] /\ Genuine'
<1>1. request \in [Requests -> RequestStates]
  BY DEF Typed, TypeOK
<1> QED BY <1>1, OneRequest DEF Typed, Genuine

LEMMA FinishTyped ==
  ASSUME Typed, NEW c \in Requests, Finish(c)
  PROVE  request' \in [Requests -> RequestStates] /\ Genuine'
<1>1. Idle.at = "idle"
  BY DEF Idle
<1> QED BY <1>1, OneRequestTyped, TokenFields DEF Finish

-----------------------------------------------------------------------------
(* Types *)

LEMMA SendTyped ==
  ASSUME Typed, NEW b \in Browsers, NEW c \in Requests,
         NEW l \in {"login", "logout", "verify"}, NEW u \in Users \cup {Nobody},
         NEW a \in Accesses, NEW r \in Refreshes, Send(b, c, l, u, a, r)
  PROVE  Typed'
<1> DEFINE q == [at |-> l, browser |-> b, user |-> u, access |-> a,
                 refresh |-> r, spent |-> 0]
<1>1. q \in RequestStates
  BY DEF RequestStates
<1>2. q.at \notin {"store", "set", "check", "renew"} /\ q.browser \in Browsers
  OBVIOUS
<1>3. Becomes(c, q)
  BY DEF Send
<1> HIDE DEF q
<1>4. request' \in [Requests -> RequestStates] /\ Genuine'
  BY <1>1, <1>2, <1>3, OneRequestTyped
<1> QED BY <1>4 DEF Send, Typed, TypeOK, cookies, history

LEMMA RegisterTyped == ASSUME Typed, NEW u \in Users, Register(u) PROVE Typed'
BY DEF Register, Typed, TypeOK, Genuine, cookies, history

LEMMA GenerateTokensTyped ==
  ASSUME Typed, NEW c \in Requests, GenerateTokens(c)
  PROVE  Typed'
<1> DEFINE u == request[c].user
<1>1. CASE /\ u \in accounts
           /\ logins < MaxLogins
           /\ logins' = logins + 1
           /\ Becomes(c, [request[c] EXCEPT !.at = "store",
                                    !.access = AccessToken(u, RefreshToken(u)),
                                    !.refresh = RefreshToken(u)])
           /\ made' = made \cup {RefreshToken(u)}
           /\ shared' = shared \cup (made \cap {RefreshToken(u)})
  <2>1. u \in Users
    BY <1>1 DEF Typed, TypeOK
  <2>2. RefreshToken(u) \in Refreshes \ {NoRefresh}
    BY <2>1, TokenTypes, TokenFields DEF Typed, TypeOK
  <2>3. AccessToken(u, RefreshToken(u)) \in Accesses
    BY <2>1, <2>2, TokenTypes DEF Typed, TypeOK
  <2>4. request[c].browser \in Browsers /\ request[c] \in RequestStates
    BY DEF Typed, TypeOK, Genuine, GenerateTokens, At
  <2> DEFINE q == [request[c] EXCEPT !.at = "store",
                                !.access = AccessToken(u, RefreshToken(u)),
                                !.refresh = RefreshToken(u)]
  <2>5. q \in RequestStates
    BY <2>2, <2>3, StateTypes
  <2>6. q.refresh = RefreshToken(u) /\ q.browser = request[c].browser
    BY <2>4 DEF RequestStates
  <2>7. Becomes(c, q)
    BY <1>1
  <2> HIDE DEF q, u
  <2>8. request' \in [Requests -> RequestStates] /\ Genuine'
    BY <2>2, <2>4, <2>5, <2>6, <2>7, OneRequestTyped
  <2>9. logins' \in 0 .. MaxLogins
    BY <1>1 DEF Typed, TypeOK
  <2> QED BY <1>1, <2>2, <2>8, <2>9 DEF GenerateTokens, Typed, TypeOK, cookies
<1>2. CASE Finish(c) /\ UNCHANGED <<logins, made, shared>>
  BY <1>2, FinishTyped DEF GenerateTokens, Typed, TypeOK, cookies
<1> QED BY <1>1, <1>2 DEF GenerateTokens

LEMMA StoreTyped ==
  ASSUME Typed, NEW t \in Refreshes \ {NoRefresh}, Store(t)
  PROVE  /\ keys' \subseteq [token : Refreshes \ {NoRefresh}, until : Nat]
         /\ revoked' \subseteq revoked
BY DEF Typed, TypeOK, Store

LEMMA StoreRefreshTokenTyped ==
  ASSUME Typed, NEW c \in Requests, StoreRefreshToken(c)
  PROVE  Typed'
<1>1. request[c] \in RequestStates /\ request[c].browser \in Browsers
      /\ request[c].refresh \in Refreshes \ {NoRefresh}
  BY DEF StoreRefreshToken, At, Typed, TypeOK, Genuine, RequestStates
<1>2. /\ keys' \subseteq [token : Refreshes \ {NoRefresh}, until : Nat]
      /\ revoked' \subseteq revoked
  BY <1>1, StoreTyped DEF StoreRefreshToken, Typed, TypeOK
<1>3. request' \in [Requests -> RequestStates] /\ Genuine'
  <2>1. CASE Becomes(c, [request[c] EXCEPT !.at = "set"])
    <3> DEFINE q == [request[c] EXCEPT !.at = "set"]
    <3>1. q \in RequestStates
      BY StateTypes
    <3>2. q.refresh # NoRefresh /\ q.browser \in Browsers
      BY <1>1 DEF RequestStates
    <3>3. Becomes(c, q)
      BY <2>1
    <3> HIDE DEF q
    <3> QED BY <3>1, <3>2, <3>3, OneRequestTyped
  <2>2. CASE Finish(c)
    BY <2>2, FinishTyped
  <2> QED BY <2>1, <2>2 DEF StoreRefreshToken
<1> QED BY <1>2, <1>3 DEF StoreRefreshToken, Typed, TypeOK, cookies

LEMMA RevokeTokenTyped ==
  ASSUME Typed, NEW c \in Requests, RevokeToken(c)
  PROVE  Typed'
<1>1. request[c] \in RequestStates /\ request[c].browser \in Browsers
  BY DEF RevokeToken, At, Typed, TypeOK, Genuine
<1>2. /\ keys' \subseteq keys
      /\ revoked' \subseteq [token : Refreshes \ {NoRefresh}, when : 0 .. MaxTime,
                            browser : Browsers]
  BY <1>1 DEF RevokeToken, Delete, Typed, TypeOK, RequestStates
<1>3. request' \in [Requests -> RequestStates] /\ Genuine'
  <2> DEFINE q == [request[c] EXCEPT !.at = "clear"]
  <2>1. q \in RequestStates
    BY StateTypes
  <2>2. q.at = "clear" /\ q.browser \in Browsers
    BY <1>1 DEF RequestStates
  <2>3. Becomes(c, q)
    BY DEF RevokeToken
  <2> HIDE DEF q
  <2> QED BY <2>1, <2>2, <2>3, OneRequestTyped
<1> QED BY <1>2, <1>3 DEF RevokeToken, Typed, TypeOK, cookies

LEMMA LookUpTyped ==
  ASSUME Typed, NEW c \in Requests, GetRefreshToken(c) \/ ValidateToken(c)
  PROVE  Typed'
<1>1. request[c] \in RequestStates /\ request[c].browser \in Browsers
  BY DEF GetRefreshToken, ValidateToken, At, Typed, TypeOK, Genuine
<1>2. ASSUME NEW l \in {"check", "renew"}, request[c].refresh # NoRefresh,
             Becomes(c, [request[c] EXCEPT !.at = l])
      PROVE  request' \in [Requests -> RequestStates] /\ Genuine'
  <2> DEFINE q == [request[c] EXCEPT !.at = l]
  <2>1. q \in RequestStates
    BY StateTypes
  <2>2. q.refresh # NoRefresh /\ q.browser \in Browsers
    BY <1>1, <1>2 DEF RequestStates
  <2>3. Becomes(c, q)
    BY <1>2
  <2> HIDE DEF q
  <2> QED BY <2>1, <2>2, <2>3, OneRequestTyped
<1>3. request' \in [Requests -> RequestStates] /\ Genuine'
  <2>1. CASE GetRefreshToken(c) /\ ~Finish(c)
    <3>1. request[c].refresh # NoRefresh
      BY <2>1 DEF GetRefreshToken, Stored, Typed, TypeOK
    <3> QED BY <1>2, <2>1, <3>1 DEF GetRefreshToken
  <2>2. CASE ValidateToken(c) /\ ~Finish(c)
    <3>1. request[c].refresh # NoRefresh
      BY <2>2 DEF ValidateToken, At, Typed, Genuine
    <3> QED BY <1>2, <2>2, <3>1 DEF ValidateToken
  <2>3. CASE Finish(c)
    BY <2>3, FinishTyped
  <2> QED BY <2>1, <2>2, <2>3
<1> QED
  BY <1>3 DEF GetRefreshToken, ValidateToken, Typed, TypeOK, cookies, history

LEMMA RenewTyped == ASSUME Typed, NEW c \in Requests, Renew(c) PROVE Typed'
<1> DEFINE s == request[c].refresh
           a == AccessToken(s.user, s)
           q == [request[c] EXCEPT !.at = "renewed", !.access = a,
                                   !.refresh = NoRefresh]
<1>1. request[c] \in RequestStates /\ request[c].browser \in Browsers
      /\ s \in Refreshes /\ s.user \in Users
  BY TokenFields DEF Renew, At, Typed, TypeOK, Genuine, RequestStates
<1>2. a \in Accesses
  BY <1>1, TokenTypes DEF Typed, TypeOK
<1>3. request' \in [Requests -> RequestStates] /\ Genuine'
  <2>1. q \in RequestStates
    BY <1>2, StateTypes, TokenFields
  <2>2. q.at = "renewed" /\ q.browser \in Browsers
    BY <1>1 DEF RequestStates
  <2>3. Becomes(c, q)
    BY DEF Renew
  <2> HIDE DEF q
  <2> QED BY <2>1, <2>2, <2>3, OneRequestTyped
<1> QED BY <1>3 DEF Renew, Typed, TypeOK, cookies, history

LEMMA SetCookiesTyped ==
  ASSUME Typed, NEW c \in Requests, NEW a \in Accesses, NEW r \in Refreshes,
         SetCookies(c, a, r),
         answered' \subseteq [token : Refreshes \ {NoRefresh}, when : 0 .. MaxTime]
  PROVE  Typed'
<1>1. request' \in [Requests -> RequestStates] /\ Genuine'
  BY FinishTyped DEF SetCookies
<1>2. access' \in [Browsers -> Accesses] /\ refresh' \in [Browsers -> Refreshes]
  BY DEF SetCookies, Typed, TypeOK
<1> QED BY <1>1, <1>2 DEF SetCookies, Typed, TypeOK

LEMMA AnswerTyped ==
  ASSUME Typed, NEW c \in Requests,
         AnswerLogin(c) \/ AnswerVerify(c) \/ AnswerLogout(c) \/ LoseAnswer(c)
  PROVE  Typed'
<1>1. request[c].access \in Accesses /\ request[c].refresh \in Refreshes
  BY DEF Typed, TypeOK, RequestStates
<1>2. CASE AnswerLogin(c)
  BY <1>1, <1>2, SetCookiesTyped DEF AnswerLogin, Typed, TypeOK
<1>3. CASE AnswerVerify(c)
  <2>1. request[c].browser \in Browsers
    BY <1>3 DEF AnswerVerify, At, Typed, Genuine
  <2> QED BY <1>1, <1>3, <2>1, SetCookiesTyped DEF AnswerVerify, Typed, TypeOK
<1>4. CASE AnswerLogout(c)
  <2>1. answered' \subseteq [token : Refreshes \ {NoRefresh}, when : 0 .. MaxTime]
    BY <1>1, <1>4 DEF AnswerLogout, Typed, TypeOK
  <2> QED BY <1>4, <2>1, TokenFields, SetCookiesTyped DEF AnswerLogout
<1>5. CASE LoseAnswer(c)
  BY <1>5, FinishTyped DEF LoseAnswer, Typed, TypeOK, cookies, history
<1> QED BY <1>2, <1>3, <1>4, <1>5

\* A second later: what a request and a browser have.
TickedRequest(c) ==
  IF At(c, "idle") THEN request[c]
  ELSE [request[c] EXCEPT !.spent = @ + 1, !.access = LiveAccess(@)]

LEMMA LiveTypes ==
  /\ \A a \in Accesses : LiveAccess(a) \in {a, NoAccess}
  /\ \A r \in Refreshes : LiveRefresh(r) \in {r, NoRefresh}
BY DEF LiveAccess, LiveRefresh

LEMMA TickRequest ==
  ASSUME Typed, Tick, NEW c \in Requests
  PROVE  /\ request'[c] \in RequestStates
         /\ request'[c].at = request[c].at
         /\ request'[c].browser = request[c].browser
         /\ request'[c].refresh = request[c].refresh
         /\ request'[c].access \in {request[c].access, NoAccess}
         /\ request[c].at # "idle" => request'[c].spent = request[c].spent + 1
<1>1. request[c] \in RequestStates
  BY DEF Typed, TypeOK
<1>2. request'[c] = TickedRequest(c)
  BY DEF Tick, TickedRequest
<1>3. CASE At(c, "idle")
  BY <1>1, <1>2, <1>3 DEF TickedRequest, At, RequestStates
<1>4. CASE ~At(c, "idle")
  <2>1. request[c].spent + 1 \in 0 .. MaxSpent
    <3>1. request[c].spent < MaxSpent
      BY <1>4 DEF Tick
    <3> QED BY <1>1, <3>1 DEF RequestStates
  <2>2. LiveAccess(request[c].access) \in {request[c].access, NoAccess}
    BY <1>1, LiveTypes DEF RequestStates
  <2>3. LiveAccess(request[c].access) \in Accesses
    BY <1>1, <2>2, TokenFields DEF RequestStates
  <2> QED BY <1>1, <1>2, <1>4, <2>1, <2>2, <2>3 DEF TickedRequest, RequestStates
<1> QED BY <1>3, <1>4

LEMMA TickTyped == ASSUME Typed, Tick PROVE Typed'
<1>1. request' \in [Requests -> RequestStates]
  <2>1. request' = [c \in Requests |-> TickedRequest(c)]
    BY DEF Tick, TickedRequest
  <2>2. \A c \in Requests : TickedRequest(c) \in RequestStates
    BY <2>1, TickRequest
  <2> QED BY <2>1, <2>2
<1>2. Genuine'
  BY TickRequest DEF Typed, Genuine
<1>3. access' \in [Browsers -> Accesses]
  <2>1. \A b \in Browsers : LiveAccess(access[b]) \in Accesses
    BY LiveTypes, TokenFields DEF Typed, TypeOK
  <2> QED BY <2>1 DEF Tick
<1>4. refresh' \in [Browsers -> Refreshes]
  <2>1. \A b \in Browsers : LiveRefresh(refresh[b]) \in Refreshes
    BY LiveTypes, TokenFields DEF Typed, TypeOK
  <2> QED BY <2>1 DEF Tick
<1>5. now' \in 0 .. MaxTime
  <2>1. now < MaxTime /\ now' = now + 1
    BY DEF Tick
  <2> QED BY <2>1 DEF Typed, TypeOK
<1>6. /\ keys' \subseteq keys /\ revoked' \subseteq revoked
      /\ answered' \subseteq answered
      /\ made' = {} /\ UNCHANGED <<accounts, logins, shared>>
  BY DEF Tick
<1> QED BY <1>1, <1>2, <1>3, <1>4, <1>5, <1>6 DEF Typed, TypeOK

LEMMA TypedStep == Typed /\ [Next]_vars => Typed'
<1> SUFFICES ASSUME Typed, [Next]_vars PROVE Typed'
  OBVIOUS
<1>1. CASE Tick
  BY <1>1, TickTyped
<1>2. ASSUME NEW u \in Users, Register(u) PROVE Typed'
  BY <1>2, RegisterTyped
<1>3. ASSUME NEW b \in Browsers, NEW c \in Requests,
             \/ \E u \in Users : Send(b, c, "login", u, NoAccess, NoRefresh)
             \/ Send(b, c, "logout", Nobody, NoAccess, refresh[b])
             \/ Send(b, c, "verify", Nobody, access[b], refresh[b])
      PROVE  Typed'
  <2>1. access[b] \in Accesses /\ refresh[b] \in Refreshes
    BY DEF Typed, TypeOK
  <2> QED BY <1>3, <2>1, SendTyped, TokenFields
<1>4. ASSUME NEW c \in Requests,
             Login(c) \/ Logout(c) \/ Verify(c) \/ LoseAnswer(c)
      PROVE  Typed'
  BY <1>4, GenerateTokensTyped, StoreRefreshTokenTyped, RevokeTokenTyped,
     LookUpTyped, RenewTyped, AnswerTyped DEF Login, Logout, Verify
<1>5. CASE UNCHANGED vars
  BY <1>5 DEF vars, cookies, history, Typed, TypeOK, Genuine
<1> QED BY <1>1, <1>2, <1>3, <1>4, <1>5 DEF Next

LEMMA TypedAlways == Spec => []Typed
BY InitTyped, TypedStep, PTL DEF Spec

(* Every token about is a token of a user with the life of its kind, whatever  *)
(* fails.                                                                      *)
THEOREM SessionsTypeCorrect == Spec => []TypeOK
BY TypedAlways, PTL DEF Typed

-----------------------------------------------------------------------------
(* Who has which refresh token *)

Cookie(b) == [browser |-> b, token |-> refresh[b]]
Carried(c) == [browser |-> request[c].browser, token |-> request[c].refresh]

\* Held: in a cookie or a request; kept: in a cookie or about to be in one.
Held == {Cookie(b) : b \in Browsers} \cup {Carried(c) : c \in Requests}
Kept == {Cookie(b) : b \in Browsers}
          \cup {Carried(c) : c \in {e \in Requests : request[e].at = "set"}}

\* Only now can a token be made that ends a RefreshTtl from now.
Fresh ==
  \A h \in Held : /\ h.token.exp <= now + RefreshTtl
                  /\ h.token.exp = now + RefreshTtl => h.token \in made

KeyOutlivesToken == \A k \in keys : k.token.exp <= k.until

OneHolder ==
  \A h, i \in Held :
    h.token = i.token /\ h.token \notin shared /\ h.token # NoRefresh
      => h.browser = i.browser

KeptIsAlive ==
  \A h \in Kept :
    Valid(h.token) /\ h.token \notin shared =>
      \/ Stored(h.token)
      \/ \E d \in revoked : d.token = h.token /\ d.browser = h.browser

Separate == Fresh /\ KeyOutlivesToken /\ OneHolder /\ KeptIsAlive

\* Nobody gets a token that the browser did not have.
NobodyGets ==
  /\ \A h \in Held' : h \in Held \/ h.token = NoRefresh
  /\ \A h \in Kept' : h \in Kept \/ h.token = NoRefresh

LEMMA HeldTypes ==
  ASSUME Typed
  PROVE  /\ \A h \in Held : h.token \in Refreshes
         /\ Kept \subseteq Held
BY DEF Typed, TypeOK, RequestStates, Held, Kept, Cookie, Carried

LEMMA InitSeparate == Init => Separate
<1> SUFFICES ASSUME Init PROVE Separate
  OBVIOUS
<1>1. \A h \in Held : h.token = NoRefresh
  BY DEF Init, Held, Cookie, Carried, Idle
<1>2. now = 0 /\ NoRefresh.exp = 0 /\ keys = {} /\ ~Valid(NoRefresh)
  BY TokenFields DEF Init, Valid
<1>3. Kept \subseteq Held
  BY DEF Kept, Held
<1> QED BY <1>1, <1>2, <1>3
        DEF Separate, Fresh, KeyOutlivesToken, OneHolder, KeptIsAlive

LEMMA SeparateQuiet ==
  ASSUME Typed, Separate, NobodyGets,
         UNCHANGED <<now, keys, made, shared, revoked>>
  PROVE  Separate'
<1>1. now \in Nat /\ NoRefresh.exp = 0
  BY TokenFields DEF Typed, TypeOK
<1>2. ~Valid(NoRefresh) /\ \A t : Valid(t)' <=> Valid(t)
  BY <1>1 DEF Valid
<1>3. Fresh'
  BY <1>1 DEF Separate, Fresh, NobodyGets
<1>4. KeyOutlivesToken'
  BY DEF Separate, KeyOutlivesToken
<1>5. OneHolder'
  BY DEF Separate, OneHolder, NobodyGets
<1>6. KeptIsAlive'
  BY <1>2 DEF Separate, KeptIsAlive, NobodyGets, Stored
<1> QED BY <1>3, <1>4, <1>5, <1>6 DEF Separate

\* A request that goes on with the token it has, or with none.
LEMMA OneRequestGets ==
  ASSUME Typed, NEW c \in Requests, NEW r \in RequestStates, Becomes(c, r),
         UNCHANGED refresh,
         \/ r.refresh = NoRefresh
         \/ /\ r.at # "set"
            /\ [browser |-> r.browser, token |-> r.refresh] \in Held
  PROVE  NobodyGets
<1>1. /\ request'[c] = r
      /\ \A e \in Requests \ {c} : request'[e] = request[e]
  BY OneRequest DEF Typed, TypeOK
<1>2. \A b \in Browsers : Cookie(b)' = Cookie(b)
  BY DEF Cookie
<1>3. \A e \in Requests \ {c} : Carried(e)' = Carried(e)
  BY <1>1 DEF Carried
<1>4. Carried(c)' = [browser |-> r.browser, token |-> r.refresh]
  BY <1>1 DEF Carried
<1>5. ASSUME NEW h \in Held' PROVE h \in Held \/ h.token = NoRefresh
  BY <1>2, <1>3, <1>4 DEF Held
<1>6. ASSUME NEW h \in Kept' PROVE h \in Kept \/ h.token = NoRefresh
  BY <1>1, <1>2, <1>3, <1>4 DEF Kept
<1> QED BY <1>5, <1>6 DEF NobodyGets

LEMMA FinishGets ==
  ASSUME Typed, NEW c \in Requests, Finish(c), UNCHANGED refresh
  PROVE  NobodyGets
BY OneRequestGets, TokenFields DEF Finish, Idle

LEMMA SetCookiesGets ==
  ASSUME Typed, NEW c \in Requests, NEW a, NEW r, SetCookies(c, a, r),
         \/ r = NoRefresh
         \/ [browser |-> request[c].browser, token |-> r] \in Kept
  PROVE  NobodyGets
<1> DEFINE n == [browser |-> request[c].browser, token |-> r]
<1>1. request'[c] = Idle /\ \A e \in Requests \ {c} : request'[e] = request[e]
  BY OneRequest, TokenFields DEF SetCookies, Finish, Typed, TypeOK
<1>2. \A b \in Browsers : Cookie(b)' \in {Cookie(b), n}
  BY DEF SetCookies, Cookie, Typed, TypeOK
<1>3. \A e \in Requests \ {c} : Carried(e)' = Carried(e)
  BY <1>1 DEF Carried
<1>4. Carried(c)'.token = NoRefresh /\ request'[c].at = "idle"
  BY <1>1 DEF Carried, Idle
<1>5. n.token = NoRefresh \/ (n \in Kept /\ n \in Held)
  BY HeldTypes
<1> HIDE DEF n
<1>6. ASSUME NEW h \in Held' PROVE h \in Held \/ h.token = NoRefresh
  BY <1>2, <1>3, <1>4, <1>5 DEF Held
<1>7. ASSUME NEW h \in Kept' PROVE h \in Kept \/ h.token = NoRefresh
  BY <1>1, <1>2, <1>3, <1>4, <1>5 DEF Kept
<1> QED BY <1>6, <1>7 DEF NobodyGets

LEMMA SendSeparate ==
  ASSUME Typed, Separate, NEW b \in Browsers, NEW c \in Requests,
         NEW l \in {"login", "logout", "verify"}, NEW u \in Users \cup {Nobody},
         NEW a \in Accesses, NEW r \in {NoRefresh, refresh[b]},
         Send(b, c, l, u, a, r)
  PROVE  Separate'
<1> DEFINE q == [at |-> l, browser |-> b, user |-> u, access |-> a,
                 refresh |-> r, spent |-> 0]
<1>1. r \in Refreshes
  BY TokenFields DEF Typed, TypeOK
<1>2. q \in RequestStates
  BY <1>1 DEF RequestStates
<1>3. q.at # "set" /\ (q.refresh = NoRefresh \/
        [browser |-> q.browser, token |-> q.refresh] \in Held)
  BY DEF Held, Cookie
<1>4. Becomes(c, q) /\ UNCHANGED <<now, keys, refresh, made, shared, revoked>>
  BY DEF Send, cookies, history
<1> HIDE DEF q
<1> QED BY <1>2, <1>3, <1>4, OneRequestGets, SeparateQuiet

LEMMA GenerateTokensSeparate ==
  ASSUME Typed, Separate, NEW c \in Requests, GenerateTokens(c)
  PROVE  Separate'
<1> DEFINE u == request[c].user
           t == RefreshToken(u)
           q == [request[c] EXCEPT !.at = "store", !.access = AccessToken(u, t),
                                   !.refresh = t]
<1>1. CASE /\ u \in accounts
           /\ Becomes(c, q)
           /\ made' = made \cup {t}
           /\ shared' = shared \cup (made \cap {t})
  <2>1. u \in Users
    BY <1>1 DEF Typed, TypeOK
  <2>2. t \in Refreshes /\ AccessToken(u, t) \in Accesses /\ t.exp = now + RefreshTtl
    BY <2>1, TokenTypes, TokenFields DEF Typed, TypeOK, RefreshToken
  <2>3. q \in RequestStates
    BY <2>2, StateTypes
  <2>4. q.at = "store" /\ q.refresh = t
    BY DEF Typed, TypeOK, RequestStates
  <2>5. UNCHANGED <<now, keys, refresh, revoked>>
    BY DEF GenerateTokens, cookies
  <2> HIDE DEF q, t, u
  <2>6. /\ request'[c] = q
        /\ \A e \in Requests \ {c} : request'[e] = request[e]
    BY <1>1, <2>3, OneRequest DEF Typed, TypeOK
  <2>7. \A h \in Held' : h \in Held \/ h = Carried(c)'
    BY <2>5, <2>6 DEF Held, Cookie, Carried
  <2>8. Carried(c)'.token = t
    BY <2>4, <2>6 DEF Carried
  <2>9. \A h \in Kept' : h \in Kept
    BY <2>4, <2>5, <2>6 DEF Kept, Cookie, Carried
  <2>10. Fresh'
    BY <1>1, <2>2, <2>5, <2>7, <2>8 DEF Separate, Fresh, Typed, TypeOK
  <2>11. OneHolder'
    <3>1. ASSUME NEW h \in Held, h.token = t PROVE t \in shared'
      BY <1>1, <2>2, <3>1 DEF Separate, Fresh
    <3> QED BY <1>1, <2>7, <2>8, <3>1 DEF Separate, OneHolder
  <2>12. KeyOutlivesToken' /\ KeptIsAlive'
    BY <1>1, <2>5, <2>9
       DEF Separate, KeyOutlivesToken, KeptIsAlive, Stored, Valid
  <2> QED BY <2>10, <2>11, <2>12 DEF Separate
<1>2. CASE Finish(c) /\ UNCHANGED <<logins, made, shared>>
  BY <1>2, FinishGets, SeparateQuiet DEF GenerateTokens, cookies
<1> QED BY <1>1, <1>2 DEF GenerateTokens

\* A key is stored for a token that may then be kept.
LEMMA StoreSeparate ==
  ASSUME Typed, Separate, NEW t \in Refreshes, Store(t),
         t.exp <= now + RefreshTtl,
         \A h \in Held' : h \in Held \/ h.token = NoRefresh,
         \A h \in Kept' : h \in Kept \/ h.token \in {t, NoRefresh},
         UNCHANGED <<now, made, shared>>
  PROVE  Separate'
<1>1. now \in Nat /\ NoRefresh.exp = 0
  BY TokenFields DEF Typed, TypeOK
<1>2. ~Valid(NoRefresh) /\ \A s : Valid(s)' <=> Valid(s)
  BY <1>1 DEF Valid
<1>3. Fresh'
  BY <1>1 DEF Separate, Fresh
<1>4. KeyOutlivesToken'
  BY DEF Separate, KeyOutlivesToken, Store
<1>5. OneHolder'
  BY DEF Separate, OneHolder
<1>6. KeptIsAlive'
  <2> SUFFICES ASSUME NEW h \in Kept', Valid(h.token), h.token \notin shared
               PROVE  \/ Stored(h.token)'
                      \/ \E d \in revoked' : d.token = h.token
                                             /\ d.browser = h.browser
    BY <1>2 DEF KeptIsAlive
  <2>1. CASE h.token = t
    <3>1. [token |-> t, until |-> now + RefreshTtl] \in keys'
      BY DEF Store
    <3>2. \E k \in keys' : k.token = t
      BY <3>1
    <3> QED BY <2>1, <3>2 DEF Stored
  <2>2. CASE h.token # t
    <3>1. h \in Kept
      BY <1>2, <2>2
    <3> QED BY <2>2, <3>1 DEF Separate, KeptIsAlive, Stored, Store
  <2> QED BY <2>1, <2>2
<1> QED BY <1>3, <1>4, <1>5, <1>6 DEF Separate

LEMMA StoreRefreshTokenSeparate ==
  ASSUME Typed, Separate, NEW c \in Requests, StoreRefreshToken(c)
  PROVE  Separate'
<1> DEFINE t == request[c].refresh
           q == [request[c] EXCEPT !.at = "set"]
<1>1. t \in Refreshes /\ Carried(c) \in Held /\ Carried(c).token = t
  BY DEF Typed, TypeOK, RequestStates, Held, Carried
<1>2. t.exp <= now + RefreshTtl
  BY <1>1 DEF Separate, Fresh
<1>3. UNCHANGED <<now, refresh, made, shared>>
  BY DEF StoreRefreshToken, cookies
<1>4. CASE Store(t) /\ Becomes(c, q)
  <2>1. q \in RequestStates
    BY StateTypes
  <2>2. q.refresh = t /\ q.browser = request[c].browser
    BY DEF Typed, TypeOK, RequestStates
  <2> HIDE DEF q
  <2>3. /\ request'[c] = q
        /\ \A e \in Requests \ {c} : request'[e] = request[e]
    BY <1>4, <2>1, OneRequest DEF Typed, TypeOK
  <2>4. \A b \in Browsers : Cookie(b)' = Cookie(b)
    BY <1>3 DEF Cookie
  <2>5. \A e \in Requests : Carried(e)' = Carried(e)
    BY <2>2, <2>3 DEF Carried
  <2>6. \A h \in Held' : h \in Held
    BY <2>4, <2>5 DEF Held
  <2>7. \A h \in Kept' : h \in Kept \/ h.token = t
    BY <1>1, <2>3, <2>4, <2>5 DEF Kept
  <2> QED BY <1>1, <1>2, <1>3, <1>4, <2>6, <2>7, StoreSeparate
<1>5. CASE (Store(t) \/ UNCHANGED <<keys, revoked>>) /\ Finish(c)
  <2>1. NobodyGets
    BY <1>3, <1>5, FinishGets
  <2>2. CASE Store(t)
    BY <1>1, <1>2, <1>3, <2>1, <2>2, StoreSeparate DEF NobodyGets
  <2>3. CASE UNCHANGED <<keys, revoked>>
    BY <1>3, <2>1, <2>3, SeparateQuiet
  <2> QED BY <1>5, <2>2, <2>3
<1> QED BY <1>4, <1>5 DEF StoreRefreshToken

LEMMA RevokeTokenSeparate ==
  ASSUME Typed, Separate, NEW c \in Requests, RevokeToken(c)
  PROVE  Separate'
<1> DEFINE t == request[c].refresh
           q == [request[c] EXCEPT !.at = "clear"]
           n == [token |-> t, when |-> now, browser |-> request[c].browser]
<1>1. /\ q \in RequestStates /\ q.at # "set"
      /\ [browser |-> q.browser, token |-> q.refresh] \in Held
  <2>1. request[c] \in RequestStates /\ Carried(c) \in Held
    BY DEF Typed, TypeOK, Held
  <2> QED BY <2>1, StateTypes DEF RequestStates, Carried
<1>2. Becomes(c, q) /\ UNCHANGED <<now, refresh, made, shared>>
  BY DEF RevokeToken, cookies
<1> HIDE DEF q
<1>3. NobodyGets
  BY <1>1, <1>2, OneRequestGets
<1>4. CASE UNCHANGED <<keys, revoked>>
  BY <1>2, <1>3, <1>4, SeparateQuiet
<1>5. CASE keys' = {k \in keys : k.token # t} /\ revoked' = revoked \cup {n}
  <2>1. now \in Nat /\ NoRefresh.exp = 0
    BY TokenFields DEF Typed, TypeOK
  <2>2. ~Valid(NoRefresh) /\ \A s : Valid(s)' <=> Valid(s)
    BY <1>2, <2>1 DEF Valid
  <2>3. Fresh'
    BY <1>2, <1>3, <2>1 DEF Separate, Fresh, NobodyGets
  <2>4. KeyOutlivesToken'
    BY <1>5 DEF Separate, KeyOutlivesToken
  <2>5. OneHolder'
    BY <1>2, <1>3 DEF Separate, OneHolder, NobodyGets
  <2>6. KeptIsAlive'
    <3> SUFFICES ASSUME NEW h \in Kept', Valid(h.token), h.token \notin shared
                 PROVE  \/ Stored(h.token)'
                        \/ \E d \in revoked' : d.token = h.token
                                               /\ d.browser = h.browser
      BY <1>2, <2>2 DEF KeptIsAlive
    <3>1. h \in Kept /\ h \in Held
      BY <1>3, <2>2, HeldTypes DEF NobodyGets
    <3>2. CASE h.token = t
      <4>1. Carried(c) \in Held /\ Carried(c).token = t
            /\ Carried(c).browser = request[c].browser
        BY DEF Held, Carried
      <4>2. h.browser = request[c].browser
        BY <1>2, <2>2, <3>1, <3>2, <4>1 DEF Separate, OneHolder
      <4>3. n \in revoked' /\ n.token = h.token /\ n.browser = h.browser
        BY <1>5, <3>2, <4>2
      <4> QED BY <4>3
    <3>3. CASE h.token # t
      BY <1>5, <3>1, <3>3 DEF Separate, KeptIsAlive, Stored
    <3> QED BY <3>2, <3>3
  <2> QED BY <2>3, <2>4, <2>5, <2>6 DEF Separate
<1> QED BY <1>4, <1>5 DEF RevokeToken, Delete

LEMMA VerifySeparate ==
  ASSUME Typed, Separate, NEW c \in Requests,
         GetRefreshToken(c) \/ ValidateToken(c) \/ Renew(c)
  PROVE  Separate'
<1>1. UNCHANGED <<now, keys, refresh, made, shared, revoked>>
  BY DEF GetRefreshToken, ValidateToken, Renew, cookies, history
<1>2. Carried(c) \in Held /\ request[c] \in RequestStates
  BY DEF Held, Typed, TypeOK
<1>3. ASSUME NEW l \in {"check", "renew"},
             Becomes(c, [request[c] EXCEPT !.at = l])
      PROVE  Separate'
  <2> DEFINE q == [request[c] EXCEPT !.at = l]
  <2>1. q \in RequestStates
    BY StateTypes
  <2>2. q.at # "set" /\ [browser |-> q.browser, token |-> q.refresh] \in Held
    BY <1>2 DEF RequestStates, Carried
  <2>3. Becomes(c, q)
    BY <1>3
  <2> HIDE DEF q
  <2> QED BY <1>1, <2>1, <2>2, <2>3, OneRequestGets, SeparateQuiet
<1>4. CASE Renew(c)
  <2> DEFINE s == request[c].refresh
             q == [request[c] EXCEPT !.at = "renewed",
                     !.access = AccessToken(s.user, s), !.refresh = NoRefresh]
  <2>1. s \in Refreshes /\ s.user \in Users
    BY <1>2, <1>4, TokenFields DEF Renew, At, Typed, Genuine, RequestStates
  <2>2. q \in RequestStates
    BY <2>1, TokenTypes, TokenFields, StateTypes DEF Typed, TypeOK
  <2>3. q.refresh = NoRefresh
    BY <1>2 DEF RequestStates
  <2>4. Becomes(c, q)
    BY <1>4 DEF Renew
  <2> HIDE DEF q
  <2> QED BY <1>1, <2>2, <2>3, <2>4, OneRequestGets, SeparateQuiet
<1>5. CASE Finish(c)
  BY <1>1, <1>5, FinishGets, SeparateQuiet
<1> QED BY <1>3, <1>4, <1>5 DEF GetRefreshToken, ValidateToken

LEMMA AnswerSeparate ==
  ASSUME Typed, Separate, NEW c \in Requests,
         AnswerLogin(c) \/ AnswerVerify(c) \/ AnswerLogout(c) \/ LoseAnswer(c)
  PROVE  Separate'
<1>1. UNCHANGED <<now, keys, made, shared, revoked>>
  BY DEF AnswerLogin, AnswerVerify, AnswerLogout, LoseAnswer, SetCookies, history
<1>2. NobodyGets
  <2>1. CASE AnswerLogin(c)
    <3>1. Carried(c) \in Kept
      BY <2>1 DEF AnswerLogin, At, Kept
    <3> QED BY <2>1, <3>1, SetCookiesGets DEF AnswerLogin, Carried
  <2>2. CASE AnswerVerify(c)
    <3>1. request[c].browser \in Browsers
      BY <2>2 DEF AnswerVerify, At, Typed, Genuine
    <3>2. Cookie(request[c].browser) \in Kept
      BY <3>1 DEF Kept
    <3> QED BY <2>2, <3>2, SetCookiesGets DEF AnswerVerify, Cookie
  <2>3. CASE AnswerLogout(c)
    BY <2>3, SetCookiesGets DEF AnswerLogout
  <2>4. CASE LoseAnswer(c)
    BY <2>4, FinishGets DEF LoseAnswer, cookies
  <2> QED BY <2>1, <2>2, <2>3, <2>4
<1> QED BY <1>1, <1>2, SeparateQuiet

LEMMA TickSeparate == ASSUME Typed, Separate, Tick PROVE Separate'
<1>1. now' = now + 1 /\ now \in Nat /\ NoRefresh.exp = 0
  <2>1. now' = now + 1
    BY DEF Tick
  <2> QED BY <2>1, TokenFields DEF Typed, TypeOK
<1>2. \A t \in Refreshes : Valid(t)' => Valid(t)
  BY <1>1, TokenFields DEF Valid
<1>3. \A c \in Requests : Carried(c)' = Carried(c)
                          /\ request'[c].at = request[c].at
  BY TickRequest DEF Carried
<1>4. \A b \in Browsers : Cookie(b)' = Cookie(b) \/ Cookie(b)'.token = NoRefresh
  <2>1. \A b \in Browsers : refresh'[b] \in {refresh[b], NoRefresh}
    BY LiveTypes DEF Tick, Typed, TypeOK
  <2> QED BY <2>1 DEF Cookie
<1>5. NobodyGets
  BY <1>3, <1>4 DEF NobodyGets, Held, Kept
<1>6. ~Valid(NoRefresh)'
  BY <1>1 DEF Valid
<1>7. Fresh'
  <2> SUFFICES ASSUME NEW h \in Held' PROVE h.token.exp < now' + RefreshTtl
    BY <1>1, <1>5, HeldTypes, TokenFields DEF Fresh, NobodyGets
  <2>1. CASE h \in Held
    <3>1. h.token.exp <= now + RefreshTtl /\ h.token.exp \in Nat
      BY <2>1, HeldTypes, TokenFields DEF Separate, Fresh
    <3> QED BY <1>1, <3>1
  <2>2. CASE h.token = NoRefresh
    BY <1>1, <2>2
  <2> QED BY <1>5, <2>1, <2>2 DEF NobodyGets
<1>8. KeyOutlivesToken'
  BY DEF Tick, Separate, KeyOutlivesToken
<1>9. ASSUME NEW h \in Held', Valid(h.token)'
      PROVE  Valid(h.token)
  <2>1. h \in Held
    BY <1>5, <1>6, <1>9 DEF NobodyGets
  <2> QED BY <1>2, <1>9, <2>1, HeldTypes
<1>10. OneHolder'
  BY <1>5 DEF Tick, Separate, OneHolder, NobodyGets
<1>11. KeptIsAlive'
  <2> SUFFICES ASSUME NEW h \in Kept', Valid(h.token)', h.token \notin shared'
               PROVE  \/ Stored(h.token)'
                      \/ \E d \in revoked' : d.token = h.token
                                             /\ d.browser = h.browser
    BY DEF KeptIsAlive
  <2>1. h \in Kept /\ h \in Held' /\ now' < h.token.exp
    BY <1>5, <1>6 DEF NobodyGets, Kept, Held, Valid
  <2>2. Valid(h.token) /\ h.token \notin shared
    BY <1>9, <2>1 DEF Tick
  <2>3. CASE Stored(h.token)
    <3>1. PICK k \in keys : k.token = h.token
      BY <2>3 DEF Stored
    <3>2. k.token.exp <= k.until /\ k.until \in Nat /\ k.token.exp \in Nat
      BY TokenFields DEF Separate, KeyOutlivesToken, Typed, TypeOK
    <3>3. now' < k.until
      BY <1>1, <2>1, <3>1, <3>2
    <3>4. k \in keys'
      BY <3>3 DEF Tick
    <3> QED BY <3>1, <3>4 DEF Stored
  <2>4. ASSUME NEW d \in revoked, d.token = h.token, d.browser = h.browser
        PROVE  d \in revoked'
    <3>1. now' < d.token.exp + MaxSpent
      BY <1>1, <2>1, <2>4, TokenFields DEF Typed, TypeOK
    <3> QED BY <3>1 DEF Tick
  <2> QED BY <2>1, <2>2, <2>3, <2>4 DEF Separate, KeptIsAlive
<1> QED BY <1>7, <1>8, <1>10, <1>11 DEF Separate

LEMMA SeparateStep == Typed /\ Separate /\ [Next]_vars => Separate'
<1> SUFFICES ASSUME Typed, Separate, [Next]_vars PROVE Separate'
  OBVIOUS
<1>1. CASE Tick
  BY <1>1, TickSeparate
<1>2. CASE UNCHANGED <<now, keys, refresh, request, made, shared, revoked>>
  BY <1>2 DEF Separate, Fresh, KeyOutlivesToken, OneHolder, KeptIsAlive, Held,
              Kept, Cookie, Carried, Valid, Stored
<1>3. ASSUME NEW u \in Users, Register(u) PROVE Separate'
  BY <1>2, <1>3 DEF Register, cookies, history
<1>4. ASSUME NEW b \in Browsers, NEW c \in Requests,
             \/ \E u \in Users : Send(b, c, "login", u, NoAccess, NoRefresh)
             \/ Send(b, c, "logout", Nobody, NoAccess, refresh[b])
             \/ Send(b, c, "verify", Nobody, access[b], refresh[b])
      PROVE  Separate'
  <2>1. access[b] \in Accesses
    BY DEF Typed, TypeOK
  <2> QED BY <1>4, <2>1, SendSeparate, TokenFields
<1>5. ASSUME NEW c \in Requests,
             Login(c) \/ Logout(c) \/ Verify(c) \/ LoseAnswer(c)
      PROVE  Separate'
  BY <1>5, GenerateTokensSeparate, StoreRefreshTokenSeparate,
     RevokeTokenSeparate, VerifySeparate, AnswerSeparate
     DEF Login, Logout, Verify
<1>6. CASE UNCHANGED vars
  BY <1>2, <1>6 DEF vars, cookies, history
<1> QED BY <1>1, <1>3, <1>4, <1>5, <1>6 DEF Next

LEMMA SeparateAlways == Spec => [](Typed /\ Separate)
BY InitTyped, InitSeparate, TypedStep, SeparateStep, PTL DEF Spec

(* A session that its browser has not logged out goes on until it expires,     *)
(* whatever other browsers do, unless two logins have made one token.          *)
THEOREM SessionsSeparate == Spec => []SessionsAreSeparate
<1>1. Typed /\ Separate => SessionsAreSeparate
  <2> SUFFICES ASSUME Separate, NEW b \in Browsers, Valid(refresh[b]),
                      refresh[b] \notin shared
               PROVE  \/ Stored(refresh[b])
                      \/ \E d \in revoked : d.token = refresh[b] /\ d.browser = b
    BY DEF SessionsAreSeparate
  <2>1. Cookie(b) \in Kept /\ Cookie(b).token = refresh[b] /\ Cookie(b).browser = b
    BY DEF Kept, Cookie
  <2> QED BY <2>1 DEF Separate, KeptIsAlive
<1> QED BY <1>1, SeparateAlways, PTL

-----------------------------------------------------------------------------
(* A refresh token whose logout was answered *)

\* It was made no later than now, and in this second if it ends the latest.
OutFresh ==
  \A d \in answered : /\ d.token.exp <= now + RefreshTtl
                      /\ d.token.exp = now + RefreshTtl => d.token \in made

\* A login that has not been answered is the only one to have its token.
OnlyLogin ==
  \A e \in Requests :
    request[e].at \in {"store", "set"} /\ request[e].refresh \notin shared =>
      /\ \A b \in Browsers : refresh[b] # request[e].refresh
      /\ \A c \in Requests \ {e} : request[c].refresh # request[e].refresh

\* No browser has it, and a request that has it began before the answer.
OutOfUse ==
  \A d \in answered : d.token \notin shared =>
    /\ \A b \in Browsers : refresh[b] # d.token
    /\ \A c \in Requests :
         request[c].refresh = d.token =>
           /\ request[c].at \notin {"store", "set"}
           /\ now <= d.when + request[c].spent

IdleIsEmpty ==
  \A c \in Requests : request[c].at = "idle" => request[c].refresh = NoRefresh

Out == OutFresh /\ OnlyLogin /\ OutOfUse /\ IdleIsEmpty

\* A request goes on with the token it has or with none, and is no login that
\* begins to have one.
HoldsLess ==
  \A c \in Requests :
    \/ request'[c] = request[c]
    \/ request'[c].refresh = NoRefresh
    \/ /\ request'[c].refresh = request[c].refresh
       /\ request'[c].spent = request[c].spent
       /\ request'[c].at # "idle"
       /\ request'[c].at \in {"store", "set"} => request[c].at \in {"store", "set"}

LEMMA OutTypes ==
  ASSUME Typed
  PROVE  /\ now \in Nat
         /\ \A d \in answered : /\ d.token \in Refreshes /\ d.token # NoRefresh
                                /\ d.when \in Nat /\ d.token.exp \in Nat
         /\ \A c \in Requests : /\ request[c].refresh \in Refreshes
                                /\ request[c].spent \in 0 .. MaxSpent
                                /\ request[c].at \in {"store", "set"} =>
                                     request[c].refresh # NoRefresh
BY TokenFields DEF Typed, TypeOK, Genuine, RequestStates

LEMMA InitOut == Init => Out
<1> SUFFICES ASSUME Init PROVE Out
  OBVIOUS
<1>1. answered = {} /\ \A c \in Requests : /\ request[c].at = "idle"
                                             /\ request[c].refresh = NoRefresh
  BY DEF Init, Idle
<1> QED BY <1>1 DEF Out, OutFresh, OnlyLogin, OutOfUse, IdleIsEmpty

\* A step that makes no token and moves none into a cookie.
LEMMA OutQuiet ==
  ASSUME Typed, Typed', Out, HoldsLess, UNCHANGED <<now, made, shared, answered>>,
         \A b \in Browsers : refresh'[b] \in {refresh[b], NoRefresh}
  PROVE  Out'
<1>1. OutFresh'
  BY DEF Out, OutFresh
<1>2. OnlyLogin'
  <2> SUFFICES ASSUME NEW e \in Requests, request'[e].at \in {"store", "set"},
                      request'[e].refresh \notin shared
               PROVE  /\ \A b \in Browsers : refresh'[b] # request'[e].refresh
                      /\ \A c \in Requests \ {e} :
                           request'[c].refresh # request'[e].refresh
    BY DEF OnlyLogin
  <2>1. request'[e].refresh # NoRefresh
    BY DEF Typed, Genuine
  <2>2. /\ request[e].at \in {"store", "set"}
        /\ request'[e].refresh = request[e].refresh
    BY <2>1 DEF HoldsLess
  <2>3. /\ \A b \in Browsers : refresh[b] # request[e].refresh
        /\ \A c \in Requests \ {e} : request[c].refresh # request[e].refresh
    BY <2>2 DEF Out, OnlyLogin
  <2> QED BY <2>1, <2>2, <2>3 DEF HoldsLess
<1>3. OutOfUse'
  <2> SUFFICES ASSUME NEW d \in answered, d.token \notin shared
               PROVE  /\ \A b \in Browsers : refresh'[b] # d.token
                      /\ \A c \in Requests :
                           request'[c].refresh = d.token =>
                             /\ request'[c].at \notin {"store", "set"}
                             /\ now <= d.when + request'[c].spent
    BY DEF OutOfUse
  <2>1. d.token # NoRefresh
    BY OutTypes
  <2>2. /\ \A b \in Browsers : refresh[b] # d.token
        /\ \A c \in Requests :
             request[c].refresh = d.token =>
               /\ request[c].at \notin {"store", "set"}
               /\ now <= d.when + request[c].spent
    BY DEF Out, OutOfUse
  <2> QED BY <2>1, <2>2 DEF HoldsLess
<1>4. IdleIsEmpty'
  BY DEF HoldsLess, Out, IdleIsEmpty
<1> QED BY <1>1, <1>2, <1>3, <1>4 DEF Out

\* The steps of one request that go on so.
LEMMA HoldsLessSteps ==
  ASSUME Typed, NEW c \in Requests,
         \/ StoreRefreshToken(c)
         \/ RevokeToken(c)
         \/ GetRefreshToken(c)
         \/ ValidateToken(c)
         \/ Renew(c)
         \/ LoseAnswer(c)
         \/ Finish(c)
  PROVE  HoldsLess
<1>1. request \in [Requests -> RequestStates]
  BY DEF Typed, TypeOK
<1>2. \A e \in Requests \ {c} : request'[e] = request[e]
  BY <1>1 DEF StoreRefreshToken, RevokeToken, GetRefreshToken, ValidateToken, Renew,
              LoseAnswer, Finish, Becomes
<1>3. CASE Finish(c)
  <2>1. request'[c] = Idle
    BY <1>1, <1>3 DEF Finish, Becomes
  <2> QED BY <1>2, <2>1 DEF HoldsLess, Idle
<1>4. ASSUME NEW l \in {"clear", "check", "renew"},
             Becomes(c, [request[c] EXCEPT !.at = l])
      PROVE  HoldsLess
  <2>1. /\ request'[c].at = l /\ request'[c].refresh = request[c].refresh
        /\ request'[c].spent = request[c].spent
    BY <1>1, <1>4 DEF Becomes, RequestStates
  <2> QED BY <1>2, <1>4, <2>1 DEF HoldsLess
<1>5. CASE StoreRefreshToken(c) /\ Becomes(c, [request[c] EXCEPT !.at = "set"])
  <2>1. /\ request'[c].refresh = request[c].refresh
        /\ request'[c].spent = request[c].spent
        /\ request[c].at = "store" /\ request'[c].at = "set"
    BY <1>1, <1>5 DEF StoreRefreshToken, At, Becomes, RequestStates
  <2> QED BY <1>2, <2>1 DEF HoldsLess
<1>6. CASE Renew(c)
  <2>1. request'[c].refresh = NoRefresh
    BY <1>1, <1>6 DEF Renew, Becomes, RequestStates
  <2> QED BY <1>2, <2>1 DEF HoldsLess
<1> QED
  BY <1>3, <1>4, <1>5, <1>6
     DEF StoreRefreshToken, RevokeToken, GetRefreshToken, ValidateToken, LoseAnswer

LEMMA SendOut ==
  ASSUME Typed, Out, NEW b \in Browsers, NEW c \in Requests,
         NEW l \in {"login", "logout", "verify"}, NEW u, NEW a,
         NEW r \in {NoRefresh, refresh[b]}, Send(b, c, l, u, a, r)
  PROVE  Out'
<1> DEFINE q == [at |-> l, browser |-> b, user |-> u, access |-> a,
                 refresh |-> r, spent |-> 0]
<1>1. /\ request'[c] = q
      /\ \A e \in Requests \ {c} : request'[e] = request[e]
      /\ UNCHANGED <<now, refresh, made, shared, answered>>
  BY DEF Send, Becomes, Typed, TypeOK, cookies, history
<1>2. q.at = l /\ q.refresh = r
  OBVIOUS
<1> HIDE DEF q
<1>3. OutFresh'
  BY <1>1 DEF Out, OutFresh
<1>4. OnlyLogin'
  <2> SUFFICES ASSUME NEW e \in Requests, request'[e].at \in {"store", "set"},
                      request'[e].refresh \notin shared
               PROVE  /\ \A o \in Browsers : refresh[o] # request'[e].refresh
                      /\ \A o \in Requests \ {e} :
                           request'[o].refresh # request'[e].refresh
    BY <1>1 DEF OnlyLogin
  <2>1. e # c /\ request'[e] = request[e] /\ request[e].refresh # NoRefresh
    BY <1>1, <1>2, OutTypes
  <2>2. /\ \A o \in Browsers : refresh[o] # request[e].refresh
        /\ \A o \in Requests \ {e} : request[o].refresh # request[e].refresh
    BY <2>1 DEF Out, OnlyLogin
  <2> QED BY <1>1, <1>2, <2>1, <2>2
<1>5. OutOfUse'
  <2> SUFFICES ASSUME NEW d \in answered, d.token \notin shared
               PROVE  /\ \A o \in Browsers : refresh[o] # d.token
                      /\ \A o \in Requests :
                           request'[o].refresh = d.token =>
                             /\ request'[o].at \notin {"store", "set"}
                             /\ now <= d.when + request'[o].spent
    BY <1>1 DEF OutOfUse
  <2>1. d.token # NoRefresh
    BY OutTypes
  <2>2. /\ \A o \in Browsers : refresh[o] # d.token
        /\ \A o \in Requests :
             request[o].refresh = d.token =>
               /\ request[o].at \notin {"store", "set"}
               /\ now <= d.when + request[o].spent
    BY DEF Out, OutOfUse
  <2> QED BY <1>1, <1>2, <2>1, <2>2
<1>6. IdleIsEmpty'
  BY <1>1, <1>2 DEF Out, IdleIsEmpty
<1> QED BY <1>3, <1>4, <1>5, <1>6 DEF Out

\* A token that is made is new to everybody, or shared.
LEMMA GenerateTokensOut ==
  ASSUME Typed, Typed', Separate, Out, NEW c \in Requests, GenerateTokens(c)
  PROVE  Out'
<1> DEFINE u == request[c].user
           t == RefreshToken(u)
           q == [request[c] EXCEPT !.at = "store", !.access = AccessToken(u, t),
                                   !.refresh = t]
<1>1. CASE /\ u \in accounts
           /\ Becomes(c, q)
           /\ made' = made \cup {t}
           /\ shared' = shared \cup (made \cap {t})
  <2>1. t.exp = now + RefreshTtl
    BY DEF RefreshToken
  <2>2. /\ UNCHANGED <<now, refresh, answered>>
        /\ request'[c] = q
        /\ \A e \in Requests \ {c} : request'[e] = request[e]
    BY <1>1 DEF GenerateTokens, Becomes, Typed, TypeOK, cookies
  <2>3. q.refresh = t /\ q.at # "idle"
    BY DEF Typed, TypeOK, RequestStates
  <2> HIDE DEF q, t, u
  <2>4. \A b \in Browsers : refresh[b] = t => t \in shared'
    <3>1. \A b \in Browsers : Cookie(b) \in Held /\ Cookie(b).token = refresh[b]
      BY DEF Held, Cookie
    <3> QED BY <1>1, <2>1, <3>1 DEF Separate, Fresh
  <2>5. \A e \in Requests : request[e].refresh = t => t \in shared'
    <3>1. \A e \in Requests : /\ Carried(e) \in Held
                              /\ Carried(e).token = request[e].refresh
      BY DEF Held, Carried
    <3> QED BY <1>1, <2>1, <3>1 DEF Separate, Fresh
  <2>6. \A d \in answered : d.token = t => t \in shared'
    BY <1>1, <2>1 DEF Out, OutFresh
  <2>7. OutFresh'
    BY <1>1, <2>2 DEF Out, OutFresh
  <2>8. OnlyLogin'
    <3> SUFFICES ASSUME NEW e \in Requests, request'[e].at \in {"store", "set"},
                        request'[e].refresh \notin shared'
                 PROVE  /\ \A o \in Browsers : refresh[o] # request'[e].refresh
                        /\ \A o \in Requests \ {e} :
                             request'[o].refresh # request'[e].refresh
      BY <2>2 DEF OnlyLogin
    <3>1. CASE e = c
      BY <2>2, <2>3, <2>4, <2>5, <3>1
    <3>2. CASE e # c
      <4>1. request'[e] = request[e] /\ request[e].refresh \notin shared
        BY <1>1, <2>2, <3>2
      <4>2. /\ \A o \in Browsers : refresh[o] # request[e].refresh
            /\ \A o \in Requests \ {e} : request[o].refresh # request[e].refresh
        BY <4>1 DEF Out, OnlyLogin
      <4>3. request[e].refresh # t
        BY <2>5, <4>1
      <4> QED BY <2>2, <2>3, <3>2, <4>1, <4>2, <4>3
    <3> QED BY <3>1, <3>2
  <2>9. OutOfUse'
    <3> SUFFICES ASSUME NEW d \in answered, d.token \notin shared'
                 PROVE  /\ \A o \in Browsers : refresh[o] # d.token
                        /\ \A o \in Requests :
                             request'[o].refresh = d.token =>
                               /\ request'[o].at \notin {"store", "set"}
                               /\ now <= d.when + request'[o].spent
      BY <2>2 DEF OutOfUse
    <3>1. d.token \notin shared /\ d.token # t
      BY <1>1, <2>6
    <3>2. /\ \A o \in Browsers : refresh[o] # d.token
          /\ \A o \in Requests :
               request[o].refresh = d.token =>
                 /\ request[o].at \notin {"store", "set"}
                 /\ now <= d.when + request[o].spent
      BY <3>1 DEF Out, OutOfUse
    <3> QED BY <2>2, <2>3, <3>1, <3>2
  <2>10. IdleIsEmpty'
    BY <2>2, <2>3 DEF Out, IdleIsEmpty
  <2> QED BY <2>7, <2>8, <2>9, <2>10 DEF Out
<1>2. CASE Finish(c) /\ UNCHANGED <<logins, made, shared>>
  BY <1>2, HoldsLessSteps, OutQuiet DEF GenerateTokens, cookies
<1> QED BY <1>1, <1>2 DEF GenerateTokens

LEMMA AnswerLoginOut ==
  ASSUME Typed, Out, NEW c \in Requests, AnswerLogin(c)
  PROVE  Out'
<1> DEFINE t == request[c].refresh
<1>1. /\ UNCHANGED <<now, made, shared, answered>>
      /\ request[c].at = "set" /\ request'[c].refresh = NoRefresh
      /\ request'[c].at = "idle"
      /\ \A e \in Requests \ {c} : request'[e] = request[e]
      /\ \A b \in Browsers : refresh'[b] \in {refresh[b], t}
  BY DEF AnswerLogin, At, SetCookies, Finish, Becomes, Idle, Typed, TypeOK
<1>2. t # NoRefresh
  BY <1>1, OutTypes
<1> HIDE DEF t
<1>3. OutFresh'
  BY <1>1 DEF Out, OutFresh
<1>4. OnlyLogin'
  <2> SUFFICES ASSUME NEW e \in Requests, request'[e].at \in {"store", "set"},
                      request'[e].refresh \notin shared
               PROVE  /\ \A o \in Browsers : refresh'[o] # request'[e].refresh
                      /\ \A o \in Requests \ {e} :
                           request'[o].refresh # request'[e].refresh
    BY <1>1 DEF OnlyLogin
  <2>1. e # c /\ request'[e] = request[e] /\ request[e].refresh # NoRefresh
    BY <1>1, OutTypes
  <2>2. /\ \A o \in Browsers : refresh[o] # request[e].refresh
        /\ \A o \in Requests \ {e} : request[o].refresh # request[e].refresh
    BY <2>1 DEF Out, OnlyLogin
  <2>3. t # request[e].refresh
    BY <2>1, <2>2 DEF t
  <2> QED BY <1>1, <2>1, <2>2, <2>3
<1>5. OutOfUse'
  <2> SUFFICES ASSUME NEW d \in answered, d.token \notin shared
               PROVE  /\ \A o \in Browsers : refresh'[o] # d.token
                      /\ \A o \in Requests :
                           request'[o].refresh = d.token =>
                             /\ request'[o].at \notin {"store", "set"}
                             /\ now <= d.when + request'[o].spent
    BY <1>1 DEF OutOfUse
  <2>1. d.token # NoRefresh
    BY OutTypes
  <2>2. /\ \A o \in Browsers : refresh[o] # d.token
        /\ \A o \in Requests :
             request[o].refresh = d.token =>
               /\ request[o].at \notin {"store", "set"}
               /\ now <= d.when + request[o].spent
    BY DEF Out, OutOfUse
  <2>3. t # d.token
    BY <1>1, <2>2 DEF t
  <2> QED BY <1>1, <2>1, <2>2, <2>3
<1>6. IdleIsEmpty'
  BY <1>1 DEF Out, IdleIsEmpty
<1> QED BY <1>3, <1>4, <1>5, <1>6 DEF Out

LEMMA AnswerVerifyOut ==
  ASSUME Typed, Typed', Out, NEW c \in Requests, AnswerVerify(c)
  PROVE  Out'
<1>1. /\ UNCHANGED <<now, made, shared, answered>> /\ Finish(c)
      /\ \A b \in Browsers : refresh'[b] = refresh[b]
  BY DEF AnswerVerify, SetCookies, Typed, TypeOK
<1> QED BY <1>1, HoldsLessSteps, OutQuiet

\* The browser of a logout that is answered is the only one to have its token.
LEMMA AnswerLogoutOut ==
  ASSUME Typed, Typed', Separate, Out, NEW c \in Requests, AnswerLogout(c)
  PROVE  Out'
<1> DEFINE t == request[c].refresh
           me == request[c].browser
<1>1. /\ UNCHANGED <<now, made, shared>>
      /\ request[c].at = "clear" /\ Finish(c)
      /\ request'[c].refresh = NoRefresh /\ request'[c].at = "idle"
      /\ \A e \in Requests \ {c} : request'[e] = request[e]
      /\ \A b \in Browsers : refresh'[b] = IF b = me THEN NoRefresh ELSE refresh[b]
  BY DEF AnswerLogout, At, SetCookies, Finish, Becomes, Idle, Typed, TypeOK
<1>2. \A d \in answered' : d \in answered \/ (d.token = t /\ d.token # NoRefresh
                                                /\ d.when = now)
  BY DEF AnswerLogout
<1>3. Carried(c) \in Held /\ Carried(c).token = t /\ Carried(c).browser = me
  BY DEF Held, Carried
<1> HIDE DEF t, me
<1>4. OutFresh'
  BY <1>1, <1>2, <1>3 DEF Out, OutFresh, Separate, Fresh
<1>5. OnlyLogin'
  <2> SUFFICES ASSUME NEW e \in Requests, request'[e].at \in {"store", "set"},
                      request'[e].refresh \notin shared
               PROVE  /\ \A o \in Browsers : refresh'[o] # request'[e].refresh
                      /\ \A o \in Requests \ {e} :
                           request'[o].refresh # request'[e].refresh
    BY <1>1 DEF OnlyLogin
  <2>1. e # c /\ request'[e] = request[e] /\ request[e].refresh # NoRefresh
    BY <1>1, OutTypes
  <2>2. /\ \A o \in Browsers : refresh[o] # request[e].refresh
        /\ \A o \in Requests \ {e} : request[o].refresh # request[e].refresh
    BY <2>1 DEF Out, OnlyLogin
  <2> QED BY <1>1, <2>1, <2>2
<1>6. OutOfUse'
  <2> SUFFICES ASSUME NEW d \in answered', d.token \notin shared
               PROVE  /\ \A o \in Browsers : refresh'[o] # d.token
                      /\ \A o \in Requests :
                           request'[o].refresh = d.token =>
                             /\ request'[o].at \notin {"store", "set"}
                             /\ now <= d.when + request'[o].spent
    BY <1>1 DEF OutOfUse
  <2>1. d.token # NoRefresh
    BY <1>2, OutTypes
  <2>2. CASE d \in answered
    <3>1. /\ \A o \in Browsers : refresh[o] # d.token
          /\ \A o \in Requests :
               request[o].refresh = d.token =>
                 /\ request[o].at \notin {"store", "set"}
                 /\ now <= d.when + request[o].spent
      BY <2>2 DEF Out, OutOfUse
    <3> QED BY <1>1, <2>1, <3>1
  <2>3. CASE d.token = t /\ d.when = now
    <3>1. ASSUME NEW o \in Browsers, refresh'[o] = t PROVE FALSE
      <4>1. Cookie(o) \in Held /\ Cookie(o).token = refresh[o]
            /\ Cookie(o).browser = o
        BY DEF Held, Cookie
      <4>2. o # me /\ refresh[o] = t
        BY <1>1, <2>1, <2>3, <3>1
      <4> QED BY <1>3, <2>1, <2>3, <4>1, <4>2 DEF Separate, OneHolder
    <3>2. ASSUME NEW o \in Requests, request'[o].refresh = t
          PROVE  /\ request'[o].at \notin {"store", "set"}
                 /\ now <= now + request'[o].spent
      <4>1. o # c /\ request'[o] = request[o]
        BY <1>1, <2>1, <2>3, <3>2
      <4>2. request[o].at \notin {"store", "set"}
        BY <2>3, <3>2, <4>1 DEF Out, OnlyLogin, t
      <4> QED BY <4>1, <4>2, OutTypes
    <3> QED BY <2>3, <3>1, <3>2
  <2> QED BY <1>2, <2>2, <2>3
<1>7. IdleIsEmpty'
  BY <1>1 DEF Out, IdleIsEmpty
<1> QED BY <1>4, <1>5, <1>6, <1>7 DEF Out

LEMMA TickOut ==
  ASSUME Typed, Out, Tick
  PROVE  Out'
<1>1. /\ now' = now + 1 /\ UNCHANGED shared /\ answered' \subseteq answered
      /\ \A b \in Browsers : refresh'[b] \in {refresh[b], NoRefresh}
  BY LiveTypes DEF Tick, Typed, TypeOK
<1>2. \A c \in Requests :
        /\ request'[c].refresh = request[c].refresh
        /\ request'[c].at = request[c].at
        /\ request[c].at # "idle" => request'[c].spent = request[c].spent + 1
  BY TickRequest
<1>3. OutFresh'
  <2> SUFFICES ASSUME NEW d \in answered
               PROVE  d.token.exp < now' + RefreshTtl
    BY <1>1, OutTypes DEF OutFresh
  <2>1. d.token.exp <= now + RefreshTtl
    BY DEF Out, OutFresh
  <2> QED BY <1>1, <2>1, OutTypes
<1>4. OnlyLogin'
  <2> SUFFICES ASSUME NEW e \in Requests, request[e].at \in {"store", "set"},
                      request[e].refresh \notin shared
               PROVE  /\ \A o \in Browsers : refresh'[o] # request[e].refresh
                      /\ \A o \in Requests \ {e} :
                           request[o].refresh # request[e].refresh
    BY <1>1, <1>2 DEF OnlyLogin
  <2> QED BY <1>1, OutTypes DEF Out, OnlyLogin
<1>5. OutOfUse'
  <2> SUFFICES ASSUME NEW d \in answered, d.token \notin shared
               PROVE  /\ \A o \in Browsers : refresh'[o] # d.token
                      /\ \A o \in Requests :
                           request[o].refresh = d.token =>
                             /\ request[o].at \notin {"store", "set"}
                             /\ now' <= d.when + request'[o].spent
    BY <1>1, <1>2 DEF OutOfUse
  <2>1. d.token # NoRefresh /\ d.when \in Nat
    BY OutTypes
  <2>2. /\ \A o \in Browsers : refresh[o] # d.token
        /\ \A o \in Requests :
             request[o].refresh = d.token =>
               /\ request[o].at \notin {"store", "set"}
               /\ now <= d.when + request[o].spent
    BY DEF Out, OutOfUse
  <2>3. ASSUME NEW o \in Requests, request[o].refresh = d.token
        PROVE  now' <= d.when + request'[o].spent
    <3>1. request[o].at # "idle"
      BY <2>1, <2>3 DEF Out, IdleIsEmpty
    <3>2. request'[o].spent = request[o].spent + 1 /\ request[o].spent \in Nat
      BY <1>2, <3>1, OutTypes
    <3> QED BY <1>1, <2>1, <2>2, <2>3, <3>2, OutTypes
  <2> QED BY <1>1, <2>1, <2>2, <2>3
<1>6. IdleIsEmpty'
  BY <1>2 DEF Out, IdleIsEmpty
<1> QED BY <1>3, <1>4, <1>5, <1>6 DEF Out

LEMMA OutStep == Typed /\ Separate /\ Out /\ [Next]_vars => Out'
<1> SUFFICES ASSUME Typed, Separate, Out, [Next]_vars PROVE Out'
  OBVIOUS
<1>0. Typed'
  BY TypedStep
<1>1. CASE Tick
  BY <1>1, TickOut
<1>2. CASE UNCHANGED <<now, refresh, request, made, shared, answered>>
  BY <1>2 DEF Out, OutFresh, OnlyLogin, OutOfUse, IdleIsEmpty
<1>3. ASSUME NEW u \in Users, Register(u) PROVE Out'
  BY <1>2, <1>3 DEF Register, cookies, history
<1>4. ASSUME NEW b \in Browsers, NEW c \in Requests,
             \/ \E u \in Users : Send(b, c, "login", u, NoAccess, NoRefresh)
             \/ Send(b, c, "logout", Nobody, NoAccess, refresh[b])
             \/ Send(b, c, "verify", Nobody, access[b], refresh[b])
      PROVE  Out'
  BY <1>4, SendOut
<1>5. ASSUME NEW c \in Requests,
             \/ StoreRefreshToken(c) \/ RevokeToken(c) \/ GetRefreshToken(c)
             \/ ValidateToken(c) \/ Renew(c) \/ LoseAnswer(c)
      PROVE  Out'
  <2>1. UNCHANGED <<now, refresh, made, shared, answered>>
    BY <1>5 DEF StoreRefreshToken, RevokeToken, GetRefreshToken, ValidateToken,
                Renew, LoseAnswer, cookies, history
  <2> QED BY <1>0, <1>5, <2>1, HoldsLessSteps, OutQuiet
<1>6. ASSUME NEW c \in Requests,
             GenerateTokens(c) \/ AnswerLogin(c) \/ AnswerVerify(c) \/ AnswerLogout(c)
      PROVE  Out'
  BY <1>0, <1>6, GenerateTokensOut, AnswerLoginOut, AnswerVerifyOut, AnswerLogoutOut
<1>7. CASE UNCHANGED vars
  BY <1>2, <1>7 DEF vars, cookies, history
<1> QED BY <1>1, <1>3, <1>4, <1>5, <1>6, <1>7 DEF Next, Login, Logout, Verify

-----------------------------------------------------------------------------
(* How long access tokens live *)

AccessIsRecent == \A a \in AccessTokens : a.exp <= now + AccessTtl

RevokedInTime ==
  \A d \in revoked : d.when <= now /\ d.token.exp <= d.when + RefreshTtl

KeyOrRevoked == \A k \in keys, d \in revoked : k.token # d.token

\* Past the look-up of the key.
Renewing == {"check", "renew"}

\* Who is about to renew a session whose key was deleted began before that.
BeganBefore ==
  \A c \in Requests : \A d \in revoked :
    request[c].at \in Renewing /\ request[c].refresh = d.token
      => now <= d.when + request[c].spent

\* Who makes an access token has found the refresh token valid.
WasValid ==
  \A c \in Requests :
    request[c].at = "renew" => now < request[c].refresh.exp + request[c].spent

Ending ==
  /\ AccessIsRecent
  /\ SessionEnds
  /\ LogoutEndsSession
  /\ RevokedInTime
  /\ KeyOrRevoked
  /\ BeganBefore
  /\ WasValid

\* A token that may be made now.
MayBeMade(n) ==
  /\ n.exp = now + AccessTtl
  /\ now < n.session.exp + MaxSpent
  /\ \A d \in revoked : n.session = d.token => now <= d.when + MaxSpent
  /\ \A d \in answered :
       n.session = d.token => d.token \in shared' \/ now <= d.when + MaxSpent

LEMMA EndingTypes ==
  ASSUME Typed
  PROVE  /\ AccessTokens \subseteq Accesses
         /\ now \in Nat
         /\ \A d \in revoked \cup answered : d.when \in Nat /\ d.token \in Refreshes
         /\ \A c \in Requests : request[c].spent \in 0 .. MaxSpent
BY DEF Typed, TypeOK, RequestStates, AccessTokens

LEMMA InitEnding == Init => Ending
<1> SUFFICES ASSUME Init PROVE Ending
  OBVIOUS
<1>1. \A a \in AccessTokens : a = NoAccess
  BY DEF Init, AccessTokens, Idle
<1>2. AccessIsRecent
  BY <1>1, TokenFields DEF Init, AccessIsRecent
<1>3. SessionEnds
  BY <1>1 DEF SessionEnds
<1>4. /\ keys = {} /\ revoked = {} /\ answered = {}
      /\ \A c \in Requests : request[c].at = "idle"
  BY DEF Init, Idle
<1> QED BY <1>2, <1>3, <1>4 DEF Ending, LogoutEndsSession, RevokedInTime,
                                KeyOrRevoked, BeganBefore, WasValid

\* A step that makes no access token but n, and revokes in this second.
LEMMA AccessStep ==
  ASSUME Typed, Ending, now' = now, NEW n \in Accesses,
         n = NoAccess \/ MayBeMade(n),
         \A a \in AccessTokens' : a \in AccessTokens \/ a \in {NoAccess, n},
         \A d \in revoked' : d \in revoked \/ d.when = now,
         \A d \in answered' : d \in answered \/ d.when = now,
         shared \subseteq shared'
  PROVE  AccessIsRecent' /\ SessionEnds' /\ LogoutEndsSession'
<1>1. now \in Nat /\ NoAccess.exp = 0 /\ NoAccess.session = NoRefresh
      /\ NoAccess \in Accesses
  BY EndingTypes, TokenFields
<1>2. n.exp \in Nat /\ n.session.exp \in Nat
  BY TokenFields
<1>3. AccessIsRecent'
  BY <1>1 DEF Ending, AccessIsRecent, MayBeMade
<1>4. SessionEnds'
  <2> SUFFICES ASSUME NEW a \in AccessTokens', a # NoAccess
               PROVE  a.exp < a.session.exp + MaxSpent + AccessTtl
    BY DEF SessionEnds
  <2>1. CASE a \in AccessTokens
    BY <2>1 DEF Ending, SessionEnds
  <2>2. CASE a = n
    BY <1>1, <1>2, <2>2 DEF MayBeMade
  <2> QED BY <2>1, <2>2
<1>5. LogoutEndsSession'
  <2> SUFFICES ASSUME NEW a \in AccessTokens', NEW d,
                      a.session = d.token,
                      \/ d \in revoked'
                      \/ d \in answered' /\ d.token \notin shared'
               PROVE  a.exp <= d.when + MaxSpent + AccessTtl
    BY DEF LogoutEndsSession
  <2>1. a \in Accesses /\ a.exp \in Nat /\ a.exp <= now + AccessTtl
    BY <1>1, <1>3, EndingTypes, TokenFields DEF AccessIsRecent
  <2>2. CASE d.when = now
    BY <1>1, <2>1, <2>2
  <2>3. CASE d.when # now
    <3>1. \/ d \in revoked
          \/ d \in answered /\ d.token \notin shared'
      BY <2>3
    <3>2. d.when \in Nat
      BY <3>1, EndingTypes
    <3>3. CASE a \in AccessTokens
      BY <3>1, <3>3 DEF Ending, LogoutEndsSession
    <3>4. CASE a = NoAccess
      BY <1>1, <3>2, <3>4
    <3>5. CASE MayBeMade(a)
      BY <1>1, <3>1, <3>2, <3>5 DEF MayBeMade
    <3> QED BY <3>3, <3>4, <3>5
  <2> QED BY <2>2, <2>3
<1> QED BY <1>3, <1>4, <1>5

\* A step that revokes nothing.
LEMMA RestStep ==
  ASSUME Typed, Ending, UNCHANGED <<now, keys, revoked>>,
         \A c \in Requests :
           \/ request'[c] = request[c]
           \/ request'[c].at \notin Renewing
           \/ /\ \A d \in revoked : request'[c].refresh = d.token
                     => now <= d.when + request'[c].spent
              /\ request'[c].at = "renew"
                     => now < request'[c].refresh.exp + request'[c].spent
  PROVE  RevokedInTime' /\ KeyOrRevoked' /\ BeganBefore' /\ WasValid'
BY DEF Ending, RevokedInTime, KeyOrRevoked, BeganBefore, WasValid, Renewing

\* The access tokens when one request goes on.
LEMMA OneRequestTokens ==
  ASSUME Typed, NEW c \in Requests, NEW r \in RequestStates, Becomes(c, r),
         UNCHANGED access
  PROVE  \A a \in AccessTokens' : a \in AccessTokens \/ a = r.access
<1>1. /\ request'[c] = r
      /\ \A e \in Requests \ {c} : request'[e] = request[e]
  BY OneRequest DEF Typed, TypeOK
<1> QED BY <1>1 DEF AccessTokens

LEMMA FinishTokens ==
  ASSUME Typed, NEW c \in Requests, Finish(c), UNCHANGED access
  PROVE  /\ \A a \in AccessTokens' : a \in AccessTokens \/ a = NoAccess
         /\ \A e \in Requests : request'[e] = request[e]
                                \/ request'[e].at \notin Renewing
<1>1. Idle.access = NoAccess /\ Idle.at \notin Renewing /\ Becomes(c, Idle)
  BY DEF Idle, Finish, Renewing
<1>2. /\ request'[c] = Idle
      /\ \A e \in Requests \ {c} : request'[e] = request[e]
  BY <1>1, OneRequest, TokenFields DEF Typed, TypeOK
<1> QED BY <1>1, <1>2, OneRequestTokens, TokenFields

LEMMA FinishEnding ==
  ASSUME Typed, Ending, NEW c \in Requests, Finish(c), UNCHANGED access,
         UNCHANGED <<now, keys, revoked, answered, shared>>
  PROVE  Ending'
<1>1. AccessIsRecent' /\ SessionEnds' /\ LogoutEndsSession'
  BY FinishTokens, AccessStep, TokenFields
<1>2. RevokedInTime' /\ KeyOrRevoked' /\ BeganBefore' /\ WasValid'
  BY FinishTokens, RestStep
<1> QED BY <1>1, <1>2 DEF Ending

LEMMA SendEnding ==
  ASSUME Typed, Ending, NEW b \in Browsers, NEW c \in Requests,
         NEW l \in {"login", "logout", "verify"}, NEW u \in Users \cup {Nobody},
         NEW a \in {NoAccess, access[b]}, NEW r \in Refreshes,
         Send(b, c, l, u, a, r)
  PROVE  Ending'
<1> DEFINE q == [at |-> l, browser |-> b, user |-> u, access |-> a,
                 refresh |-> r, spent |-> 0]
<1>1. a \in Accesses /\ (a = NoAccess \/ a \in AccessTokens)
  BY TokenFields DEF Typed, TypeOK, AccessTokens
<1>2. q \in RequestStates /\ q.access = a /\ q.at \notin Renewing
  BY <1>1 DEF RequestStates, Renewing
<1>3. Becomes(c, q) /\ UNCHANGED <<now, keys, access, revoked, answered, shared>>
  BY DEF Send, cookies, history
<1> HIDE DEF q
<1>4. AccessIsRecent' /\ SessionEnds' /\ LogoutEndsSession'
  BY <1>1, <1>2, <1>3, OneRequestTokens, AccessStep, TokenFields
<1>5. RevokedInTime' /\ KeyOrRevoked' /\ BeganBefore' /\ WasValid'
  BY <1>2, <1>3, OneRequest, RestStep DEF Typed, TypeOK
<1> QED BY <1>4, <1>5 DEF Ending

LEMMA GenerateTokensEnding ==
  ASSUME Typed, Out, Ending, NEW c \in Requests, GenerateTokens(c)
  PROVE  Ending'
<1> DEFINE u == request[c].user
           t == RefreshToken(u)
           n == AccessToken(u, t)
           q == [request[c] EXCEPT !.at = "store", !.access = n, !.refresh = t]
<1>1. UNCHANGED <<now, keys, access, revoked, answered>> /\ shared \subseteq shared'
  BY DEF GenerateTokens, cookies
<1>2. CASE /\ u \in accounts /\ Becomes(c, q)
           /\ shared' = shared \cup (made \cap {t})
  <2>1. u \in Users
    BY <1>2 DEF Typed, TypeOK
  <2>2. t \in Refreshes /\ n \in Accesses /\ t.exp = now + RefreshTtl
    BY <2>1, TokenTypes, TokenFields DEF Typed, TypeOK, RefreshToken
  <2>3. n.exp = now + AccessTtl /\ n.session = t
    BY DEF AccessToken
  <2>4. q \in RequestStates
    BY <2>2, StateTypes
  <2>5. q.at \notin Renewing /\ q.access = n
    BY DEF Typed, TypeOK, RequestStates, Renewing
  <2> HIDE DEF q, n, t, u
  <2>6. MayBeMade(n)
    <3>1. now < t.exp + MaxSpent
      BY <2>2, EndingTypes
    <3>2. ASSUME NEW d \in revoked, t = d.token PROVE now <= d.when + MaxSpent
      <4>1. now + RefreshTtl <= d.when + RefreshTtl /\ d.when \in Nat
        BY <2>2, <3>2, EndingTypes DEF Ending, RevokedInTime
      <4> QED BY <4>1, EndingTypes
    <3>3. ASSUME NEW d \in answered, t = d.token PROVE d.token \in shared'
      BY <1>2, <2>2, <3>3 DEF Out, OutFresh
    <3> QED BY <2>3, <3>1, <3>2, <3>3 DEF MayBeMade
  <2>7. AccessIsRecent' /\ SessionEnds' /\ LogoutEndsSession'
    BY <1>1, <1>2, <2>2, <2>4, <2>5, <2>6, OneRequestTokens, AccessStep
  <2>8. RevokedInTime' /\ KeyOrRevoked' /\ BeganBefore' /\ WasValid'
    BY <1>1, <1>2, <2>4, <2>5, OneRequest, RestStep DEF Typed, TypeOK
  <2> QED BY <2>7, <2>8 DEF Ending
<1>3. CASE Finish(c) /\ UNCHANGED <<logins, made, shared>>
  BY <1>1, <1>3, FinishEnding
<1> QED BY <1>2, <1>3 DEF GenerateTokens

LEMMA StoreRefreshTokenEnding ==
  ASSUME Typed, Ending, NEW c \in Requests, StoreRefreshToken(c)
  PROVE  Ending'
<1> DEFINE t == request[c].refresh
           q == [request[c] EXCEPT !.at = "set"]
<1>1. UNCHANGED <<now, access, answered, shared>>
  BY DEF StoreRefreshToken, cookies
<1>2. /\ \A a \in AccessTokens' : a \in AccessTokens \/ a = NoAccess
      /\ \A e \in Requests :
           request'[e] = request[e] \/ request'[e].at \notin Renewing
  <2>1. CASE Becomes(c, q)
    <3>1. q \in RequestStates
      BY StateTypes
    <3>2. q.at \notin Renewing /\ q.access = request[c].access
      BY DEF Typed, TypeOK, RequestStates, Renewing
    <3>3. request[c].access \in AccessTokens
      BY DEF AccessTokens
    <3> HIDE DEF q
    <3> QED BY <1>1, <2>1, <3>1, <3>2, <3>3, OneRequestTokens, OneRequest
            DEF Typed, TypeOK
  <2>2. CASE Finish(c)
    BY <1>1, <2>2, FinishTokens
  <2> QED BY <2>1, <2>2 DEF StoreRefreshToken
<1>3. CASE UNCHANGED <<keys, revoked>>
  <2>1. AccessIsRecent' /\ SessionEnds' /\ LogoutEndsSession'
    BY <1>1, <1>2, <1>3, AccessStep, TokenFields
  <2>2. RevokedInTime' /\ KeyOrRevoked' /\ BeganBefore' /\ WasValid'
    BY <1>1, <1>2, <1>3, RestStep
  <2> QED BY <2>1, <2>2 DEF Ending
<1>4. CASE Store(t)
  <2>1. \A d \in revoked' : d \in revoked /\ d.token # t
    BY <1>4 DEF Store
  <2>2. AccessIsRecent' /\ SessionEnds' /\ LogoutEndsSession'
    BY <1>1, <1>2, <2>1, AccessStep, TokenFields
  <2>3. RevokedInTime'
    BY <1>1, <2>1 DEF Ending, RevokedInTime
  <2>4. KeyOrRevoked'
    <3>1. \A k \in keys' : k \in keys \/ k.token = t
      BY <1>4 DEF Store
    <3> QED BY <2>1, <3>1 DEF Ending, KeyOrRevoked
  <2>5. BeganBefore' /\ WasValid'
    BY <1>1, <1>2, <2>1 DEF Ending, BeganBefore, WasValid, Renewing
  <2> QED BY <2>2, <2>3, <2>4, <2>5 DEF Ending
<1> QED BY <1>3, <1>4 DEF StoreRefreshToken

LEMMA RevokeTokenEnding ==
  ASSUME Typed, Separate, Ending, NEW c \in Requests, RevokeToken(c)
  PROVE  Ending'
<1> DEFINE t == request[c].refresh
           q == [request[c] EXCEPT !.at = "clear"]
           n == [token |-> t, when |-> now, browser |-> request[c].browser]
<1>1. Becomes(c, q) /\ UNCHANGED <<now, access, answered, shared>>
  BY DEF RevokeToken, cookies
<1>2. q \in RequestStates /\ q.at \notin Renewing /\ q.access = request[c].access
  <2>1. request[c] \in RequestStates
    BY DEF Typed, TypeOK
  <2>2. q \in RequestStates
    BY StateTypes
  <2>3. q.at = "clear" /\ q.access = request[c].access
    BY <2>1 DEF RequestStates
  <2> QED BY <2>2, <2>3 DEF Renewing
<1>3. request[c].access \in AccessTokens
  BY DEF AccessTokens
<1> HIDE DEF q
<1>4. /\ \A a \in AccessTokens' : a \in AccessTokens \/ a = NoAccess
      /\ \A e \in Requests :
           request'[e] = request[e] \/ request'[e].at \notin Renewing
  BY <1>1, <1>2, <1>3, OneRequestTokens, OneRequest DEF Typed, TypeOK
<1>5. CASE UNCHANGED <<keys, revoked>>
  <2>1. AccessIsRecent' /\ SessionEnds' /\ LogoutEndsSession'
    BY <1>1, <1>4, <1>5, AccessStep, TokenFields
  <2>2. RevokedInTime' /\ KeyOrRevoked' /\ BeganBefore' /\ WasValid'
    BY <1>1, <1>4, <1>5, RestStep
  <2> QED BY <2>1, <2>2 DEF Ending
<1>6. CASE keys' = {k \in keys : k.token # t} /\ revoked' = revoked \cup {n}
  <2>1. n.when = now /\ n.token = t
    OBVIOUS
  <2>2. t.exp <= now + RefreshTtl
    <3>1. Carried(c) \in Held /\ Carried(c).token = t
      BY DEF Held, Carried
    <3> QED BY <3>1 DEF Separate, Fresh
  <2> HIDE DEF n, t
  <2>3. AccessIsRecent' /\ SessionEnds' /\ LogoutEndsSession'
    BY <1>1, <1>4, <1>6, <2>1, AccessStep, TokenFields
  <2>4. RevokedInTime'
    BY <1>1, <1>6, <2>1, <2>2, EndingTypes DEF Ending, RevokedInTime
  <2>5. KeyOrRevoked'
    BY <1>6, <2>1 DEF Ending, KeyOrRevoked
  <2>6. BeganBefore'
    <3> SUFFICES ASSUME NEW e \in Requests, NEW d \in revoked',
                        request'[e] = request[e], request[e].at \in Renewing,
                        request[e].refresh = d.token
                 PROVE  now <= d.when + request[e].spent
      BY <1>1, <1>4 DEF BeganBefore
    <3>1. CASE d \in revoked
      BY <3>1 DEF Ending, BeganBefore
    <3>2. CASE d = n
      BY <2>1, <3>2, EndingTypes
    <3> QED BY <1>6, <3>1, <3>2
  <2>7. WasValid'
    BY <1>1, <1>4 DEF Ending, WasValid, Renewing
  <2> QED BY <2>3, <2>4, <2>5, <2>6, <2>7 DEF Ending
<1> QED BY <1>5, <1>6 DEF RevokeToken, Delete

\* A request that goes on with the tokens it has.
LEMMA LookUpEnding ==
  ASSUME Typed, Ending, NEW c \in Requests, NEW l \in Renewing,
         Becomes(c, [request[c] EXCEPT !.at = l]),
         UNCHANGED <<now, keys, access, revoked, answered, shared>>,
         \A d \in revoked : request[c].refresh = d.token
           => now <= d.when + request[c].spent,
         l = "renew" => now < request[c].refresh.exp + request[c].spent
  PROVE  Ending'
<1> DEFINE q == [request[c] EXCEPT !.at = l]
<1>1. q \in RequestStates
  BY StateTypes DEF Renewing
<1>2. /\ q.access = request[c].access /\ q.refresh = request[c].refresh
      /\ q.spent = request[c].spent /\ q.at = l
  BY DEF Typed, TypeOK, RequestStates
<1>3. request[c].access \in AccessTokens /\ Becomes(c, q)
  BY DEF AccessTokens
<1> HIDE DEF q
<1>4. AccessIsRecent' /\ SessionEnds' /\ LogoutEndsSession'
  BY <1>1, <1>2, <1>3, OneRequestTokens, AccessStep, TokenFields
<1>5. RevokedInTime' /\ KeyOrRevoked' /\ BeganBefore' /\ WasValid'
  BY <1>1, <1>2, <1>3, OneRequest, RestStep DEF Typed, TypeOK
<1> QED BY <1>4, <1>5 DEF Ending

LEMMA GetRefreshTokenEnding ==
  ASSUME Typed, Ending, NEW c \in Requests, GetRefreshToken(c)
  PROVE  Ending'
<1>1. UNCHANGED <<now, keys, access, revoked, answered, shared>>
  BY DEF GetRefreshToken, cookies, history
<1>2. CASE Stored(request[c].refresh)
           /\ Becomes(c, [request[c] EXCEPT !.at = "check"])
  <2>1. \A d \in revoked : request[c].refresh # d.token
    BY <1>2 DEF Stored, Ending, KeyOrRevoked
  <2> QED BY <1>1, <1>2, <2>1, LookUpEnding DEF Renewing
<1>3. CASE Finish(c)
  BY <1>1, <1>3, FinishEnding
<1> QED BY <1>2, <1>3 DEF GetRefreshToken

LEMMA ValidateTokenEnding ==
  ASSUME Typed, Ending, NEW c \in Requests, ValidateToken(c)
  PROVE  Ending'
<1>1. UNCHANGED <<now, keys, access, revoked, answered, shared>>
      /\ request[c].at \in Renewing
  BY DEF ValidateToken, At, Renewing, cookies, history
<1>2. CASE Valid(request[c].refresh)
           /\ Becomes(c, [request[c] EXCEPT !.at = "renew"])
  <2>1. \A d \in revoked : request[c].refresh = d.token
          => now <= d.when + request[c].spent
    BY <1>1 DEF Ending, BeganBefore
  <2>2. now < request[c].refresh.exp + request[c].spent
    <3>1. request[c].refresh \in Refreshes /\ request[c].spent \in Nat
      BY DEF Typed, TypeOK, RequestStates
    <3> QED BY <1>2, <3>1, EndingTypes, TokenFields DEF Valid
  <2> QED BY <1>1, <1>2, <2>1, <2>2, LookUpEnding DEF Renewing
<1>3. CASE Finish(c)
  BY <1>1, <1>3, FinishEnding
<1> QED BY <1>2, <1>3 DEF ValidateToken

LEMMA RenewEnding ==
  ASSUME Typed, Out, Ending, NEW c \in Requests, Renew(c)
  PROVE  Ending'
<1> DEFINE s == request[c].refresh
           n == AccessToken(s.user, s)
           q == [request[c] EXCEPT !.at = "renewed", !.access = n,
                                   !.refresh = NoRefresh]
<1>1. /\ UNCHANGED <<now, keys, access, revoked, answered, shared>>
      /\ request[c].at = "renew" /\ Becomes(c, q)
  BY DEF Renew, At, cookies, history
<1>2. s \in Refreshes /\ s.user \in Users
  BY <1>1, TokenFields DEF Typed, TypeOK, Genuine, RequestStates
<1>3. n \in Accesses /\ n.exp = now + AccessTtl /\ n.session = s
  BY <1>2, TokenTypes DEF Typed, TypeOK, AccessToken
<1>4. q \in RequestStates
  BY <1>3, StateTypes, TokenFields
<1>5. q.at \notin Renewing /\ q.access = n
  BY DEF Typed, TypeOK, RequestStates, Renewing
<1>6. MayBeMade(n)
  <2>1. ASSUME NEW d \in revoked, s = d.token PROVE now <= d.when + MaxSpent
    <3>1. now <= d.when + request[c].spent
      BY <1>1, <2>1 DEF Ending, BeganBefore, Renewing
    <3> QED BY <3>1, EndingTypes
  <2>2. ASSUME NEW d \in answered, s = d.token, d.token \notin shared
        PROVE  now <= d.when + MaxSpent
    <3>1. now <= d.when + request[c].spent
      BY <2>2 DEF Out, OutOfUse
    <3> QED BY <3>1, EndingTypes
  <2>3. now < s.exp + MaxSpent
    <3>1. now < s.exp + request[c].spent
      BY <1>1 DEF Ending, WasValid
    <3> QED BY <1>2, <3>1, EndingTypes, TokenFields
  <2> QED BY <1>1, <1>3, <2>1, <2>2, <2>3 DEF MayBeMade
<1> HIDE DEF q, n, s
<1>7. AccessIsRecent' /\ SessionEnds' /\ LogoutEndsSession'
  BY <1>1, <1>3, <1>4, <1>5, <1>6, OneRequestTokens, AccessStep
<1>8. RevokedInTime' /\ KeyOrRevoked' /\ BeganBefore' /\ WasValid'
  BY <1>1, <1>4, <1>5, OneRequest, RestStep DEF Typed, TypeOK
<1> QED BY <1>7, <1>8 DEF Ending

LEMMA SetCookiesEnding ==
  ASSUME Typed, Ending, NEW c \in Requests, NEW a \in AccessTokens \cup {NoAccess},
         NEW r, SetCookies(c, a, r),
         \A d \in answered' : d \in answered \/ d.when = now
  PROVE  Ending'
<1>1. /\ request'[c] = Idle
      /\ \A e \in Requests \ {c} : request'[e] = request[e]
  BY OneRequest, TokenFields DEF SetCookies, Finish, Typed, TypeOK
<1>2. \A b \in Browsers : access'[b] \in {access[b], a}
  BY DEF SetCookies, Typed, TypeOK
<1>3. \A x \in AccessTokens' : x \in AccessTokens \/ x = NoAccess
  BY <1>1, <1>2 DEF AccessTokens, Idle
<1>4. UNCHANGED <<now, keys, revoked, shared>>
  BY DEF SetCookies
<1>5. AccessIsRecent' /\ SessionEnds' /\ LogoutEndsSession'
  BY <1>3, <1>4, AccessStep, TokenFields
<1>6. Idle.at \notin Renewing
  BY DEF Idle, Renewing
<1>7. RevokedInTime' /\ KeyOrRevoked' /\ BeganBefore' /\ WasValid'
  BY <1>1, <1>4, <1>6, RestStep
<1> QED BY <1>5, <1>7 DEF Ending

LEMMA AnswerEnding ==
  ASSUME Typed, Ending, NEW c \in Requests,
         AnswerLogin(c) \/ AnswerVerify(c) \/ AnswerLogout(c) \/ LoseAnswer(c)
  PROVE  Ending'
<1>1. request[c].access \in AccessTokens
  BY DEF AccessTokens
<1>2. CASE LoseAnswer(c)
  BY <1>2, FinishEnding DEF LoseAnswer, cookies, history
<1>3. CASE AnswerLogout(c)
  <2>1. \A d \in answered' : d \in answered \/ d.when = now
    BY <1>3 DEF AnswerLogout
  <2> QED BY <1>3, <2>1, SetCookiesEnding DEF AnswerLogout
<1> QED BY <1>1, <1>2, <1>3, SetCookiesEnding DEF AnswerLogin, AnswerVerify

LEMMA TickEnding == ASSUME Typed, Ending, Tick PROVE Ending'
<1>1. now \in Nat /\ now' = now + 1
  BY EndingTypes DEF Tick
<1>2. \A b \in Browsers : access'[b] \in {access[b], NoAccess}
  BY LiveTypes DEF Tick, Typed, TypeOK
<1>3. \A a \in AccessTokens' : a \in AccessTokens \/ a = NoAccess
  BY <1>2, TickRequest DEF AccessTokens
<1>4. /\ keys' \subseteq keys /\ revoked' \subseteq revoked
      /\ answered' \subseteq answered /\ UNCHANGED shared
  BY DEF Tick
<1>5. AccessIsRecent'
  <2> SUFFICES ASSUME NEW a \in AccessTokens' PROVE a.exp <= now' + AccessTtl
    BY DEF AccessIsRecent
  <2>1. CASE a \in AccessTokens
    <3>1. a.exp <= now + AccessTtl /\ a.exp \in Nat
      BY <2>1, EndingTypes, TokenFields DEF Ending, AccessIsRecent
    <3> QED BY <1>1, <3>1
  <2>2. CASE a = NoAccess
    BY <1>1, <2>2, TokenFields
  <2> QED BY <1>3, <2>1, <2>2
<1>6. SessionEnds'
  BY <1>3 DEF Ending, SessionEnds
<1>7. LogoutEndsSession'
  <2> SUFFICES ASSUME NEW a \in AccessTokens', NEW d \in revoked \cup answered,
                      a.session = d.token,
                      d \in revoked \/ d.token \notin shared
               PROVE  a.exp <= d.when + MaxSpent + AccessTtl
    BY <1>4 DEF LogoutEndsSession
  <2>1. CASE a \in AccessTokens
    BY <2>1 DEF Ending, LogoutEndsSession
  <2>2. CASE a = NoAccess
    BY <2>2, TokenFields, EndingTypes
  <2> QED BY <1>3, <2>1, <2>2
<1>8. RevokedInTime' /\ KeyOrRevoked'
  <2>1. \A d \in revoked : d.when <= now' /\ d.token.exp <= d.when + RefreshTtl
    BY <1>1, EndingTypes DEF Ending, RevokedInTime
  <2> QED BY <1>4, <2>1 DEF Ending, RevokedInTime, KeyOrRevoked
<1>9. BeganBefore'
  <2> SUFFICES ASSUME NEW c \in Requests, NEW d \in revoked,
                      request[c].at \in Renewing, request[c].refresh = d.token
               PROVE  now' <= d.when + request'[c].spent
    BY <1>4, TickRequest DEF BeganBefore
  <2>1. now <= d.when + request[c].spent
    BY DEF Ending, BeganBefore
  <2>2. request'[c].spent = request[c].spent + 1
    BY TickRequest DEF Renewing
  <2> QED BY <1>1, <2>1, <2>2, EndingTypes
<1>10. WasValid'
  <2> SUFFICES ASSUME NEW c \in Requests, request[c].at = "renew"
               PROVE  now' < request[c].refresh.exp + request'[c].spent
    BY TickRequest DEF WasValid
  <2>1. now < request[c].refresh.exp + request[c].spent
    BY DEF Ending, WasValid
  <2>2. request'[c].spent = request[c].spent + 1
    BY TickRequest
  <2>3. request[c].refresh \in Refreshes
    BY DEF Typed, TypeOK, RequestStates
  <2> QED BY <1>1, <2>1, <2>2, <2>3, EndingTypes, TokenFields
<1> QED BY <1>5, <1>6, <1>7, <1>8, <1>9, <1>10 DEF Ending

LEMMA EndingStep == Typed /\ Separate /\ Out /\ Ending /\ [Next]_vars => Ending'
<1> SUFFICES ASSUME Typed, Separate, Out, Ending, [Next]_vars PROVE Ending'
  OBVIOUS
<1>1. CASE Tick
  BY <1>1, TickEnding
<1>2. CASE UNCHANGED <<now, keys, access, request, revoked, answered, shared>>
  BY <1>2 DEF Ending, AccessIsRecent, SessionEnds, LogoutEndsSession,
              RevokedInTime, KeyOrRevoked, BeganBefore, WasValid, AccessTokens
<1>3. ASSUME NEW u \in Users, Register(u) PROVE Ending'
  BY <1>2, <1>3 DEF Register, cookies, history
<1>4. ASSUME NEW b \in Browsers, NEW c \in Requests,
             \/ \E u \in Users : Send(b, c, "login", u, NoAccess, NoRefresh)
             \/ Send(b, c, "logout", Nobody, NoAccess, refresh[b])
             \/ Send(b, c, "verify", Nobody, access[b], refresh[b])
      PROVE  Ending'
  <2>1. refresh[b] \in Refreshes
    BY DEF Typed, TypeOK
  <2> QED BY <1>4, <2>1, SendEnding, TokenFields
<1>5. ASSUME NEW c \in Requests,
             Login(c) \/ Logout(c) \/ Verify(c) \/ LoseAnswer(c)
      PROVE  Ending'
  BY <1>5, GenerateTokensEnding, StoreRefreshTokenEnding, RevokeTokenEnding,
     GetRefreshTokenEnding, ValidateTokenEnding, RenewEnding, AnswerEnding
     DEF Login, Logout, Verify
<1>6. CASE UNCHANGED vars
  BY <1>2, <1>6 DEF vars, cookies, history
<1> QED BY <1>1, <1>3, <1>4, <1>5, <1>6 DEF Next

LEMMA EndingAlways == Spec => []Ending
BY InitTyped, InitSeparate, InitOut, InitEnding, TypedStep, SeparateStep, OutStep,
   EndingStep, PTL DEF Spec

(* After the key of a session was deleted, or its logout was answered although  *)
(* the deletion failed, no access token of it is valid for longer than a        *)
(* request and an access token last, whoever renews it at the same time; of the *)
(* answered ones this excepts the tokens that two logins have made.             *)
THEOREM LogoutEnds == Spec => []LogoutEndsSession
BY EndingAlways, PTL DEF Ending

(* No access token outlives the refresh token of its session by more than a     *)
(* request and an access token last, although the key in Redis may outlive it.  *)
THEOREM SessionsEnd == Spec => []SessionEnds
BY EndingAlways, PTL DEF Ending
=============================================================================
