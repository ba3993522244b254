------------------------------ MODULE Session ------------------------------
(***************************************************************************)
(* Logins and sessions: SendCode, Login and RefreshSession of              *)
(* internal/service/auth.go, TokenRefresh and LoginAuth of                 *)
(* internal/middleware/auth.go, PUT /user/profile, and the browser side of *)
(* js/common.js and login.html.  A session is a Redis hash                 *)
(* login:token:{token} with the fields id, nickName and icon and a sliding *)
(* TTL.  Every request that carries a token reads the hash, then extends   *)
(* it, then works; a change of the nickname goes to tb_user first and to   *)
(* the hash afterwards, and HSET makes the hash anew when it has expired   *)
(* meanwhile.                                                              *)
(***************************************************************************)
EXTENDS Integers, FiniteSets

CONSTANTS
    Phones,         \* users, one row of tb_user at most by its unique index
    Nicks,          \* nicknames
    FirstNick,      \* the random one of a new user
    Tabs,           \* browser tabs, each with a token of its own
    Tokens,         \* every login makes a new one
    Requests,       \* requests under way
    Life,           \* LoginUserTTL in ticks
    CodeLife,       \* LoginCodeTTL in ticks
    MaxAge,         \* ticks a request may take
    SkipCode,       \* login.skip_code of the configuration
    MaxTicks,       \* bound
    MaxRequests,    \* bound
    MaxSessionFaults \* bound: failed or cut Redis calls

ASSUME SessionNicks == FirstNick \in Nicks
ASSUME SessionTimes ==
    /\ Life \in Nat /\ CodeLife \in Nat /\ MaxAge \in Nat
    /\ MaxAge < Life
ASSUME SkipCodeAssumption == SkipCode \in BOOLEAN
ASSUME SessionBounds == MaxTicks \in Nat /\ MaxRequests \in Nat /\ MaxSessionFaults \in Nat

None == "none"
ASSUME NoneAssumption == None \notin Phones \cup Nicks \cup Tokens

VARIABLES
    users,      \* [Phones -> nickname in tb_user, None when not registered]
    code,       \* [Phones -> ticks the code still lives]
    session,    \* [Tokens -> hash, or NoSession]
    tab,        \* [Tabs -> page and token of a browser tab, login under way]
    request,    \* [Requests -> where the request is]
    spent,      \* tokens of earlier logins
    missed,     \* observation: tokens that were not extended by a request that
                \* had read them, or whose login was cut before its EXPIRE
    mixed,      \* observation: users whose nickname was changed while another
                \* session or request of theirs was there, or half changed
    ticks, requests, sessionFaults

sessionVars == <<users, code, session, tab, request, spent, missed, mixed,
                 ticks, requests, sessionFaults>>

Forever == Life + 1
NoSession == [owner |-> None, nick |-> None, ttl |-> 0]
Live(t) == session[t].ttl > 0
LoginPage == [page |-> "login", step |-> "idle", phone |-> None, nick |-> None, token |-> None]
AppPage(t) == [LoginPage EXCEPT !.page = "app", !.token = t]
Idle == [pc |-> "idle", token |-> None, owner |-> None, nick |-> None, age |-> 0, hit |-> FALSE]

HashType == [owner : Phones \cup {None}, nick : Nicks \cup {None}, ttl : 0..Forever]
TabType == [page : {"login", "app"}, step : {"idle", "register", "write"},
            phone : Phones \cup {None}, nick : Nicks \cup {None}, token : Tokens \cup {None}]
RequestType == [pc : {"idle", "extend", "table", "hash"}, token : Tokens \cup {None},
                owner : Phones \cup {None}, nick : Nicks \cup {None}, age : 0..MaxAge,
                hit : BOOLEAN]

SessionTypeOK ==
    /\ users \in [Phones -> Nicks \cup {None}]
    /\ code \in [Phones -> 0..CodeLife]
    /\ session \in [Tokens -> HashType]
    /\ tab \in [Tabs -> TabType]
    /\ request \in [Requests -> RequestType]
    /\ spent \subseteq Tokens /\ missed \subseteq Tokens /\ mixed \subseteq Phones
    /\ ticks \in 0..MaxTicks /\ requests \in 0..MaxRequests
    /\ sessionFaults \in 0..MaxSessionFaults

SessionInit ==
    /\ users = [p \in Phones |-> None]
    /\ code = [p \in Phones |-> 0]
    /\ session = [t \in Tokens |-> NoSession]
    /\ tab = [b \in Tabs |-> LoginPage]
    /\ request = [r \in Requests |-> Idle]
    /\ spent = {} /\ missed = {} /\ mixed = {}
    /\ ticks = 0 /\ requests = 0 /\ sessionFaults = 0

\* Keys expire; no request outlives MaxAge, which is far below half an hour.
SessionTick ==
    /\ ticks < MaxTicks
    /\ \A r \in Requests : request[r].pc # "idle" => request[r].age < MaxAge
    /\ ticks' = ticks + 1
    /\ code' = [p \in Phones |-> IF code[p] > 0 THEN code[p] - 1 ELSE 0]
    /\ session' = [t \in Tokens |->
         IF session[t].ttl = 1 THEN NoSession
         ELSE IF session[t].ttl \in 2..Life THEN [session[t] EXCEPT !.ttl = @ - 1]
         ELSE session[t]]
    /\ request' = [r \in Requests |->
         IF request[r].pc = "idle" THEN Idle ELSE [request[r] EXCEPT !.age = @ + 1]]
    /\ UNCHANGED <<users, tab, spent, missed, mixed, requests, sessionFaults>>

-----------------------------------------------------------------------------
(* Login *)

\* SET login:code:{phone} with its TTL.
SendCode(p) ==
    /\ ~SkipCode
    /\ code' = [code EXCEPT ![p] = CodeLife]
    /\ UNCHANGED <<users, session, tab, request, spent, missed, mixed,
                   ticks, requests, sessionFaults>>

\* The code fits, and the row of the phone is looked up.
FindUser(b, p) ==
    /\ tab[b].page = "login"
    /\ tab[b].step = "idle"
    /\ SkipCode \/ code[p] > 0
    /\ tab' = [tab EXCEPT ![b].phone = p, ![b].nick = users[p],
                          ![b].step = IF users[p] = None THEN "register" ELSE "write"]
    /\ UNCHANGED <<users, code, session, request, spent, missed, mixed,
                   ticks, requests, sessionFaults>>

\* INSERT of a new user; the unique index refuses a second row of the phone.
Register(b) ==
    LET p == tab[b].phone
    IN  /\ tab[b].step = "register"
        /\ IF users[p] = None
           THEN /\ users' = [users EXCEPT ![p] = FirstNick]
                /\ tab' = [tab EXCEPT ![b].step = "write", ![b].nick = FirstNick]
           ELSE /\ UNCHANGED users
                /\ tab' = [tab EXCEPT ![b] = LoginPage]
        /\ UNCHANGED <<code, session, request, spent, missed, mixed,
                       ticks, requests, sessionFaults>>

\* Mutant: HSET without EXPIRE.
WriteForever(b) ==
    \E t \in Tokens \ spent :
        /\ tab[b].step = "write"
        /\ session' = [session EXCEPT ![t] =
                         [owner |-> tab[b].phone, nick |-> tab[b].nick, ttl |-> Forever]]
        /\ tab' = [tab EXCEPT ![b] = AppPage(t)]
        /\ spent' = spent \cup {t}
        /\ UNCHANGED <<users, code, request, missed, mixed, ticks, requests, sessionFaults>>

\* HSET and EXPIRE of a new token; login.html keeps it and opens index.html.
WriteSession(b) ==
    \E t \in Tokens \ spent :
        /\ tab[b].step = "write"
        /\ session' = [session EXCEPT ![t] =
                         [owner |-> tab[b].phone, nick |-> tab[b].nick, ttl |-> Life]]
        /\ tab' = [tab EXCEPT ![b] = AppPage(t)]
        /\ spent' = spent \cup {t}
        /\ UNCHANGED <<users, code, request, missed, mixed, ticks, requests, sessionFaults>>

\* The pipeline stops after HSET and the login reports a failure.
CutLogin(b) ==
    /\ sessionFaults < MaxSessionFaults
    /\ tab[b].step = "write"
    /\ \E t \in Tokens \ spent :
        /\ session' = [session EXCEPT ![t] =
                         [owner |-> tab[b].phone, nick |-> tab[b].nick, ttl |-> Forever]]
        /\ spent' = spent \cup {t}
        /\ missed' = missed \cup {t}
    /\ tab' = [tab EXCEPT ![b] = LoginPage]
    /\ sessionFaults' = sessionFaults + 1
    /\ UNCHANGED <<users, code, request, mixed, ticks, requests>>

-----------------------------------------------------------------------------
(* Requests with a token *)

\* HGETALL finds the hash.  `nick` is the new nickname of PUT /user/profile,
\* None for any other request.
ReadSession(r, b, nick) ==
    LET t == tab[b].token
    IN  /\ tab[b].page = "app"
        /\ request[r].pc = "idle"
        /\ requests < MaxRequests
        /\ Live(t)
        /\ request' = [request EXCEPT ![r] =
             [pc |-> "extend", token |-> t, owner |-> session[t].owner, nick |-> nick,
              age |-> 0, hit |-> FALSE]]
        /\ requests' = requests + 1
        /\ UNCHANGED <<users, code, session, tab, spent, missed, mixed, ticks, sessionFaults>>

\* HGETALL finds nothing: LoginAuth answers 401, common.js opens login.html.
Refuse(b) ==
    /\ tab[b].page = "app"
    /\ ~Live(tab[b].token)
    /\ tab' = [tab EXCEPT ![b] = LoginPage]
    /\ UNCHANGED <<users, code, session, request, spent, missed, mixed,
                   ticks, requests, sessionFaults>>

\* What comes after EXPIRE: only PUT /user/profile goes on, and its handler
\* needs the id of the user.
Handle(r, hit) ==
    request' = [request EXCEPT ![r] =
        IF request[r].nick = None \/ request[r].owner = None THEN Idle
        ELSE [@ EXCEPT !.pc = "table", !.hit = hit]]

\* Mutant: the middleware only reads.
ExtendNothing(r) ==
    LET t == request[r].token
    IN  /\ request[r].pc = "extend"
        /\ missed' = IF Live(t) THEN missed ELSE missed \cup {t}
        /\ Handle(r, Live(t))
        /\ UNCHANGED <<users, code, session, tab, spent, mixed, ticks, requests, sessionFaults>>

\* EXPIRE: nothing happens when the hash has gone since HGETALL.
Extend(r) ==
    LET t == request[r].token
    IN  /\ request[r].pc = "extend"
        /\ session' = IF Live(t) THEN [session EXCEPT ![t].ttl = Life] ELSE session
        /\ missed' = IF Live(t) THEN missed ELSE missed \cup {t}
        /\ Handle(r, Live(t))
        /\ UNCHANGED <<users, code, tab, spent, mixed, ticks, requests, sessionFaults>>

\* EXPIRE fails, which the code does not look at.
FailExtend(r) ==
    /\ sessionFaults < MaxSessionFaults
    /\ request[r].pc = "extend"
    /\ missed' = missed \cup {request[r].token}
    /\ Handle(r, FALSE)
    /\ sessionFaults' = sessionFaults + 1
    /\ UNCHANGED <<users, code, session, tab, spent, mixed, ticks, requests>>

\* Somebody else has, or is about to store, the nickname of p as it was.
Elsewhere(r, p) ==
    \/ \E t \in Tokens \ {request[r].token} : Live(t) /\ session[t].owner = p
    \/ \E b \in Tabs : tab[b].step = "write" /\ tab[b].phone = p
    \/ \E q \in Requests \ {r} : request[q].pc = "hash" /\ request[q].owner = p

\* UPDATE tb_user.
UpdateUser(r) ==
    LET p == request[r].owner
    IN  /\ request[r].pc = "table"
        /\ users' = [users EXCEPT ![p] = request[r].nick]
        /\ mixed' = IF Elsewhere(r, p) THEN mixed \cup {p} ELSE mixed
        /\ request' = [request EXCEPT ![r].pc = "hash"]
        /\ UNCHANGED <<code, session, tab, spent, missed, ticks, requests, sessionFaults>>

\* Mutant: the hash keeps the old nickname.
RefreshNothing(r) ==
    /\ request[r].pc = "hash"
    /\ request' = [request EXCEPT ![r] = Idle]
    /\ UNCHANGED <<users, code, session, tab, spent, missed, mixed,
                   ticks, requests, sessionFaults>>

\* RefreshSession: HSET changes the hash, or makes one without id and TTL.
RefreshSession(r) ==
    LET t == request[r].token
    IN  /\ request[r].pc = "hash"
        /\ session' = [session EXCEPT ![t] =
             IF Live(t) THEN [@ EXCEPT !.nick = request[r].nick]
             ELSE [owner |-> None, nick |-> request[r].nick, ttl |-> Forever]]
        /\ request' = [request EXCEPT ![r] = Idle]
        /\ UNCHANGED <<users, code, tab, spent, missed, mixed, ticks, requests, sessionFaults>>

\* HSET fails, which is logged, or the pod goes between the two stores.
CutRefresh(r) ==
    /\ sessionFaults < MaxSessionFaults
    /\ request[r].pc = "hash"
    /\ request' = [request EXCEPT ![r] = Idle]
    /\ mixed' = mixed \cup {request[r].owner}
    /\ sessionFaults' = sessionFaults + 1
    /\ UNCHANGED <<users, code, session, tab, spent, missed, ticks, requests>>

-----------------------------------------------------------------------------
Login(b) ==
    \/ \E p \in Phones : FindUser(b, p)
    \/ Register(b) \/ WriteSession(b) \/ CutLogin(b)

Serve(r) ==
    \/ \E b \in Tabs, nick \in Nicks \cup {None} : ReadSession(r, b, nick)
    \/ Extend(r) \/ FailExtend(r) \/ UpdateUser(r) \/ RefreshSession(r) \/ CutRefresh(r)

SessionNext ==
    \/ SessionTick
    \/ \E p \in Phones : SendCode(p)
    \/ \E b \in Tabs : Login(b) \/ Refuse(b)
    \/ \E r \in Requests : Serve(r)

SessionSpec == SessionInit /\ [][SessionNext]_sessionVars

-----------------------------------------------------------------------------
\* Every session has an id and an end.  The hash is written field by field and
\* extended by other calls; only a request that came so late that it read the
\* hash but could not extend it, or a login cut before its EXPIRE, can leave a
\* hash without an id, or one that Redis keeps for ever.
SessionsAreWhole ==
    \A t \in Tokens \ missed :
        Live(t) => session[t].owner # None /\ session[t].ttl <= Life

\* A request whose EXPIRE was in time still finds the session it began with
\* when it writes the nickname, however the ticks fall: so HSET changes the
\* hash of a user and never makes one up.
ExtendedSessionsLast ==
    \A r \in Requests :
        request[r].pc \in {"table", "hash"} /\ request[r].hit =>
            Live(request[r].token) /\ session[request[r].token].ttl >= Life - request[r].age

\* GET /user/me answers from the hash.  It shows the nickname of tb_user,
\* unless the user was changing it from several places or the change stopped
\* half way; the request that changes it is about to write the hash.
SessionShowsNick ==
    \A t \in Tokens :
        Live(t) /\ session[t].owner \in Phones \ mixed =>
            \/ session[t].nick = users[session[t].owner]
            \/ \E r \in Requests : request[r].pc = "hash" /\ request[r].token = t

=============================================================================
