---------------------------- MODULE AuthSessions ----------------------------
(***************************************************************************)
(* Accounts and sessions: the handlers of /auth, the cookies of browsers    *)
(* and the refresh keys in Redis.  A session is a refresh token; access     *)
(* tokens come with it or are made from it by Verify.                       *)
(*                                                                         *)
(* A tick is a second, to which the expiry of a token is cut.  A token is   *)
(* its claims, so two logins of a user within a second make the same one.   *)
(* A browser may have several requests under way.  A request that answers   *)
(* without Set-Cookie is over when it is decided.                           *)
(***************************************************************************)
EXTENDS Integers

CONSTANTS Users,
          Browsers,    \* each with a cookie jar
          Requests,    \* goroutines that answer requests
          AccessTtl, RefreshTtl,
          MaxSpent,    \* seconds a request may take
          MaxTime,     \* bound on the clock
          MaxLogins,   \* bound on the logins that get tokens
          Faults

(***************************************************************************)
(* The failures:                                                            *)
(*   redis   a command fails, or its reply is lost                          *)
(*   answer  the connection is lost and the browser gets no answer          *)
(* An error of MySQL ends Register or Login like a wrong password does.     *)
(* The code sets no time-out.  That a request takes at most MaxSpent        *)
(* seconds is an assumption about the network, MySQL and Redis.             *)
(***************************************************************************)
FaultKinds == {"redis", "answer"}

ASSUME FaultsAssumption == Faults \subseteq FaultKinds
ASSUME TimesAssumption ==
  /\ AccessTtl \in Nat \ {0} /\ RefreshTtl \in Nat \ {0}
  /\ MaxSpent \in Nat /\ MaxTime \in Nat /\ MaxLogins \in Nat

Nobody == "nobody"
ASSUME UsersAssumption == Nobody \notin Users

VARIABLES
  now,
  accounts,  \* the users with a row
  keys,      \* Redis: the refresh tokens stored, and until when
  access,    \* access[b], refresh[b]: the cookies of browser b
  refresh,
  request,   \* request[c]: what c is at, with what it has
  logins,    \* how many logins have got tokens
  made,      \* history: the refresh tokens made in this second,
  shared,    \* those made by more than one login,
  revoked,   \* those deleted and not stored again, when and by which browser,
  answered   \* those whose logout was answered, deleted or not, and when

cookies == <<access, refresh>>
history == <<made, shared, revoked, answered>>
vars == <<now, accounts, keys, cookies, request, logins, history>>

NoRefresh == [user |-> Nobody, exp |-> 0]
NoAccess == [user |-> Nobody, exp |-> 0, session |-> NoRefresh]

RefreshToken(u) == [user |-> u, exp |-> now + RefreshTtl]

\* Not the code: an access token that lives as long as a refresh token.
AccessTokenLong(u, session) ==
  [user |-> u, exp |-> now + RefreshTtl, session |-> session]

\* The session that an access token was made in is not in the token: it is
\* recorded here for the properties.
AccessToken(u, session) ==
  [user |-> u, exp |-> now + AccessTtl, session |-> session]

\* ValidateToken, for either kind.  Nobody has a token that is valid.
Valid(token) == now < token.exp

Idle == [at |-> "idle", browser |-> Nobody, user |-> Nobody, access |-> NoAccess,
         refresh |-> NoRefresh, spent |-> 0]

Init ==
  /\ now = 0
  /\ accounts = {}
  /\ keys = {}
  /\ access = [b \in Browsers |-> NoAccess]
  /\ refresh = [b \in Browsers |-> NoRefresh]
  /\ request = [c \in Requests |-> Idle]
  /\ logins = 0
  /\ made = {}
  /\ shared = {}
  /\ revoked = {}
  /\ answered = {}

At(c, label) == request[c].at = label
Becomes(c, r) == request' = [request EXCEPT ![c] = r]
Finish(c) == Becomes(c, Idle)

\* A browser sends a request, with the cookies it has.
Send(b, c, handler, u, a, r) ==
  /\ At(c, "idle")
  /\ Becomes(c, [at |-> handler, browser |-> b, user |-> u, access |-> a,
                 refresh |-> r, spent |-> 0])
  /\ UNCHANGED <<now, accounts, keys, cookies, logins, history>>

-----------------------------------------------------------------------------
(* Register: the INSERT, which the unique columns refuse a second time.  The  *)
(* answer says whether it was done, unless its reply is lost.                 *)

Register(u) ==
  /\ u \notin accounts
  /\ accounts' = accounts \cup {u}
  /\ UNCHANGED <<now, keys, cookies, request, logins, history>>

-----------------------------------------------------------------------------
(* Login *)

\* The user is known and the password right, or the login is over.
GenerateTokens(c) ==
  LET u == request[c].user IN
  /\ At(c, "login")
  /\ \/ /\ u \in accounts
        /\ logins < MaxLogins
        /\ logins' = logins + 1
        /\ Becomes(c, [request[c] EXCEPT !.at = "store",
                                        !.access = AccessToken(u, RefreshToken(u)),
                                        !.refresh = RefreshToken(u)])
        /\ made' = made \cup {RefreshToken(u)}
        /\ shared' = shared \cup (made \cap {RefreshToken(u)})
     \/ Finish(c) /\ UNCHANGED <<logins, made, shared>>
  /\ UNCHANGED <<now, accounts, keys, cookies, revoked, answered>>

\* The time to live counts from here, not from GenerateTokens.
Store(token) ==
  /\ keys' = {k \in keys : k.token # token}
               \cup {[token |-> token, until |-> now + RefreshTtl]}
  /\ revoked' = {d \in revoked : d.token # token}

\* An error of Redis ends the login, whether the key was stored or not.
StoreRefreshToken(c) ==
  /\ At(c, "store")
  /\ \/ Store(request[c].refresh) /\ Becomes(c, [request[c] EXCEPT !.at = "set"])
     \/ /\ "redis" \in Faults
        /\ Store(request[c].refresh) \/ UNCHANGED <<keys, revoked>>
        /\ Finish(c)
  /\ UNCHANGED <<now, accounts, cookies, logins, made, shared, answered>>

-----------------------------------------------------------------------------
(* Logout *)

\* Not the code: a key for the user, not for the token.
DeleteAll(c) ==
  LET token == request[c].refresh IN
  /\ keys' = {k \in keys : k.token.user # token.user}
  /\ revoked' = revoked \cup
       {[token |-> token, when |-> now, browser |-> request[c].browser]}

Delete(c) ==
  LET token == request[c].refresh IN
  /\ keys' = {k \in keys : k.token # token}
  /\ revoked' = revoked \cup
       {[token |-> token, when |-> now, browser |-> request[c].browser]}

\* Without a refresh cookie there is nothing to delete.  The error of Redis is
\* dropped.
RevokeToken(c) ==
  /\ At(c, "logout")
  /\ \/ request[c].refresh # NoRefresh /\ Delete(c)
     \/ /\ request[c].refresh = NoRefresh \/ "redis" \in Faults
        /\ UNCHANGED <<keys, revoked>>
  /\ Becomes(c, [request[c] EXCEPT !.at = "clear"])
  /\ UNCHANGED <<now, accounts, cookies, logins, made, shared, answered>>

-----------------------------------------------------------------------------
(* Verify *)

Stored(token) == \E k \in keys : k.token = token

\* Not the code: the signature of the refresh token is enough.
GetRefreshTokenSigned(c) ==
  /\ At(c, "verify")
  /\ \/ /\ ~Valid(request[c].access)
        /\ Valid(request[c].refresh)
        /\ Becomes(c, [request[c] EXCEPT !.at = "check"])
     \/ /\ Valid(request[c].access) \/ ~Valid(request[c].refresh)
        /\ Finish(c)
  /\ UNCHANGED <<now, accounts, keys, cookies, logins, history>>

\* An access token that is valid is enough; otherwise the key of the refresh
\* token is looked up.
GetRefreshToken(c) ==
  /\ At(c, "verify")
  /\ \/ /\ ~Valid(request[c].access)
        /\ Stored(request[c].refresh)
        /\ Becomes(c, [request[c] EXCEPT !.at = "check"])
     \/ /\ \/ Valid(request[c].access)
           \/ ~Stored(request[c].refresh)
           \/ "redis" \in Faults
        /\ Finish(c)
  /\ UNCHANGED <<now, accounts, keys, cookies, logins, history>>

\* Not the code: that the key is there is enough.
ValidateTokenUnchecked(c) ==
  /\ At(c, "check")
  /\ Becomes(c, [request[c] EXCEPT !.at = "renew"])
  /\ UNCHANGED <<now, accounts, keys, cookies, logins, history>>

\* The refresh token must be valid when the clock is read here.
ValidateToken(c) ==
  /\ At(c, "check")
  /\ \/ Valid(request[c].refresh) /\ Becomes(c, [request[c] EXCEPT !.at = "renew"])
     \/ ~Valid(request[c].refresh) /\ Finish(c)
  /\ UNCHANGED <<now, accounts, keys, cookies, logins, history>>

\* A new access token counts from a second reading of the clock.  The refresh
\* token stays as it is.
Renew(c) ==
  LET session == request[c].refresh IN
  /\ At(c, "renew")
  /\ Becomes(c, [request[c] EXCEPT !.at = "renewed",
                                  !.access = AccessToken(session.user, session),
                                  !.refresh = NoRefresh])
  /\ UNCHANGED <<now, accounts, keys, cookies, logins, history>>

-----------------------------------------------------------------------------
(* Answers with cookies.                                                       *)

SetCookies(c, a, r) ==
  /\ access' = [access EXCEPT ![request[c].browser] = a]
  /\ refresh' = [refresh EXCEPT ![request[c].browser] = r]
  /\ Finish(c)
  /\ UNCHANGED <<now, accounts, keys, logins, made, shared, revoked>>

AnswerLogin(c) ==
  /\ At(c, "set")
  /\ SetCookies(c, request[c].access, request[c].refresh)
  /\ UNCHANGED answered

AnswerVerify(c) ==
  /\ At(c, "renewed")
  /\ SetCookies(c, request[c].access, refresh[request[c].browser])
  /\ UNCHANGED answered

\* The client is told that it is logged out, whether the key was deleted or not.
AnswerLogout(c) ==
  LET token == request[c].refresh IN
  /\ At(c, "clear")
  /\ SetCookies(c, NoAccess, NoRefresh)
  /\ answered' = answered \cup
       {[token |-> r, when |-> now] : r \in {token} \ {NoRefresh}}

LoseAnswer(c) ==
  /\ "answer" \in Faults
  /\ request[c].at \in {"set", "renewed", "clear"}
  /\ Finish(c)
  /\ UNCHANGED <<now, accounts, keys, cookies, logins, history>>

\* A cookie lives at least as long as its token.  An access token that has expired
\* is as good as none, and so is a refresh token that has and has no key either.
LiveAccess(token) == IF now' < token.exp THEN token ELSE NoAccess
LiveRefresh(token) ==
  IF now' < token.exp \/ \E k \in keys' : k.token = token THEN token ELSE NoRefresh

\* A second passes: Redis drops keys, the history what can no longer matter.
Tick ==
  /\ now < MaxTime
  /\ \A c \in Requests : At(c, "idle") \/ request[c].spent < MaxSpent
  /\ now' = now + 1
  /\ keys' = {k \in keys : now' < k.until}
  /\ request' = [c \in Requests |->
       IF At(c, "idle") THEN request[c]
       ELSE [request[c] EXCEPT !.spent = @ + 1, !.access = LiveAccess(@)]]
  /\ access' = [b \in Browsers |-> LiveAccess(access[b])]
  /\ refresh' = [b \in Browsers |-> LiveRefresh(refresh[b])]
  /\ made' = {}
  /\ revoked' = {d \in revoked : now' < d.token.exp + MaxSpent}
  /\ answered' = {d \in answered : now' < d.token.exp + MaxSpent}
  /\ UNCHANGED <<accounts, logins, shared>>

Login(c) == GenerateTokens(c) \/ StoreRefreshToken(c) \/ AnswerLogin(c)
Logout(c) == RevokeToken(c) \/ AnswerLogout(c)
Verify(c) ==
  GetRefreshToken(c) \/ ValidateToken(c) \/ Renew(c) \/ AnswerVerify(c)

Next ==
  \/ Tick
  \/ \E u \in Users : Register(u)
  \/ \E b \in Browsers, c \in Requests :
       \/ \E u \in Users : Send(b, c, "login", u, NoAccess, NoRefresh)
       \/ Send(b, c, "logout", Nobody, NoAccess, refresh[b])
       \/ Send(b, c, "verify", Nobody, access[b], refresh[b])
  \/ \E c \in Requests : Login(c) \/ Logout(c) \/ Verify(c) \/ LoseAnswer(c)

Spec == Init /\ [][Next]_vars

-----------------------------------------------------------------------------
(* Properties *)

Refreshes == {NoRefresh} \cup
  [user : Users, exp : RefreshTtl .. (MaxTime + RefreshTtl)]

Accesses == {NoAccess} \cup
  [user : Users, exp : AccessTtl .. (MaxTime + AccessTtl), session : Refreshes]

RequestStates ==
  [at : {"idle", "login", "store", "set", "logout", "clear", "verify", "check",
         "renew", "renewed"},
   browser : Browsers \cup {Nobody}, user : Users \cup {Nobody},
   access : Accesses, refresh : Refreshes, spent : 0 .. MaxSpent]

\* Types: every token about is a user's, and has the life its kind has.
TypeOK ==
  /\ now \in 0 .. MaxTime /\ logins \in 0 .. MaxLogins
  /\ accounts \subseteq Users
  /\ keys \subseteq [token : Refreshes \ {NoRefresh}, until : Nat]
  /\ access \in [Browsers -> Accesses]
  /\ refresh \in [Browsers -> Refreshes]
  /\ request \in [Requests -> RequestStates]
  /\ made \subseteq Refreshes /\ shared \subseteq Refreshes
  /\ revoked \subseteq [token : Refreshes \ {NoRefresh}, when : 0 .. MaxTime,
                        browser : Browsers]
  /\ answered \subseteq [token : Refreshes \ {NoRefresh}, when : 0 .. MaxTime]

\* The access tokens that are about: in cookies, in requests and in answers.
AccessTokens ==
  {access[b] : b \in Browsers} \cup {request[c].access : c \in Requests}

\* A session that was logged out ends: no access token made in it, whether by the
\* login, by a Verify that was under way or by one that comes later, is valid for
\* longer than a request and an access token last, counted from the deletion of
\* its key or from the answer to its logout.  The answer ends it although the key
\* is still in Redis (the error of DEL is dropped), because the browser has lost
\* its cookies; not so a token that two logins have made within a second.  A
\* logout whose DEL failed and whose answer was lost ends nothing.
\* (handlers/user.go: Logout deletes the refresh key only.)
LogoutEndsSession ==
  \A a \in AccessTokens :
    /\ \A d \in revoked :
         a.session = d.token => a.exp <= d.when + MaxSpent + AccessTtl
    /\ \A d \in answered :
         a.session = d.token /\ d.token \notin shared
           => a.exp <= d.when + MaxSpent + AccessTtl

\* Whoever goes on asking for new access tokens, a session ends with the refresh
\* token of its login: the last access token is made by a request that found the
\* refresh token valid.  (handlers/user.go: Verify checks key, signature and
\* expiry, then reads the clock again.)
SessionEnds ==
  \A a \in AccessTokens : a # NoAccess =>
    a.exp < a.session.exp + MaxSpent + AccessTtl

\* A session that its browser has not logged out goes on until it expires, whatever
\* other browsers of the user do: its key is in Redis.  A token that two logins
\* have made within a second is the exception.
\* (repositories/user.go: one key for a token, not for a user)
SessionsAreSeparate ==
  \A b \in Browsers :
    Valid(refresh[b]) /\ refresh[b] \notin shared =>
      \/ Stored(refresh[b])
      \/ \E d \in revoked : d.token = refresh[b] /\ d.browser = b
=============================================================================
