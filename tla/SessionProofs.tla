--------------------------- MODULE SessionProofs ---------------------------
(***************************************************************************)
(* Sessions are whole, last as long as the requests that extended them,    *)
(* and show the user's nickname, for any number of users, tabs, tokens,    *)
(* requests and faults and any lifetimes.                                  *)
(***************************************************************************)
EXTENDS Session, TLAPS

\* A tab with a token has one that a login made, and a tab that is about to
\* write a session carries the user's present nickname.
TabOK(b) ==
    /\ tab[b].page = "app" => tab[b].token \in spent
    /\ tab[b].step # "idle" => tab[b].page = "login" /\ tab[b].phone \in Phones
    /\ tab[b].step = "write" =>
         /\ users[tab[b].phone] # None
         /\ tab[b].phone \notin mixed => tab[b].nick = users[tab[b].phone]

TabInv == \A b \in Tabs : TabOK(b)

\* A request belongs to the user of its session.  Past its EXPIRE it either has
\* extended the session, which then outlives it, or has missed it.
RequestOK(r) ==
    /\ request[r].pc # "idle" =>
         /\ request[r].token \in spent
         /\ request[r].owner # None => users[request[r].owner] # None
         /\ Live(request[r].token) => session[request[r].token].owner \in {request[r].owner, None}
    /\ request[r].pc \in {"table", "hash"} =>
         /\ request[r].owner # None /\ request[r].nick # None
         /\ request[r].hit => session[request[r].token].ttl >= Life - request[r].age
         /\ ~request[r].hit => request[r].token \in missed
    /\ request[r].pc = "hash" /\ request[r].owner \notin mixed =>
         request[r].nick = users[request[r].owner]

RequestInv == \A r \in Requests : RequestOK(r)

\* A hash stands for a login of a registered user.
HashOK(t) ==
    Live(t) => /\ t \in spent
               /\ session[t].owner # None => users[session[t].owner] # None
               /\ t \notin missed => session[t].owner # None /\ session[t].ttl <= Life

HashInv == \A t \in Tokens : HashOK(t)

\* A hash shows the nickname of its user, or is about to.
ShowsOK(t) ==
    Live(t) /\ session[t].owner \in Phones \ mixed =>
        \/ session[t].nick = users[session[t].owner]
        \/ \E r \in Requests : request[r].pc = "hash" /\ request[r].token = t

ShowsInv == \A t \in Tokens : ShowsOK(t)

SessionInv == SessionTypeOK /\ TabInv /\ RequestInv /\ HashInv /\ ShowsInv

-----------------------------------------------------------------------------
\* The types of what a tab, a request and a hash carry.
LEMMA SessionFields ==
    ASSUME SessionTypeOK
    PROVE  /\ \A b \in Tabs :
                /\ tab[b].page \in {"login", "app"} /\ tab[b].step \in {"idle", "register", "write"}
                /\ tab[b].phone \in Phones \cup {None} /\ tab[b].nick \in Nicks \cup {None}
                /\ tab[b].token \in Tokens \cup {None}
           /\ \A r \in Requests :
                /\ request[r].pc \in {"idle", "extend", "table", "hash"}
                /\ request[r].token \in Tokens \cup {None}
                /\ request[r].owner \in Phones \cup {None} /\ request[r].nick \in Nicks \cup {None}
                /\ request[r].age \in 0..MaxAge /\ request[r].hit \in BOOLEAN
           /\ \A t \in Tokens :
                /\ session[t].owner \in Phones \cup {None} /\ session[t].nick \in Nicks \cup {None}
                /\ session[t].ttl \in 0..Forever
    BY DEF SessionTypeOK, HashType, TabType, RequestType

-----------------------------------------------------------------------------
\* At first nobody is logged in.
LEMMA InvInit == SessionInit => SessionInv
<1> SUFFICES ASSUME SessionInit PROVE SessionInv
    OBVIOUS
<1>1. /\ \A b \in Tabs : tab[b] = LoginPage
      /\ \A r \in Requests : request[r] = Idle
      /\ \A t \in Tokens : session[t] = NoSession
    BY DEF SessionInit
<1>2. SessionTypeOK
    BY SessionTimes, SessionBounds DEF SessionInit, SessionTypeOK, HashType, TabType, RequestType,
                                       LoginPage, Idle, NoSession, Forever
<1>3. TabInv /\ RequestInv
    BY <1>1 DEF TabInv, TabOK, RequestInv, RequestOK, LoginPage, Idle
<1>4. HashInv /\ ShowsInv
    BY <1>1 DEF HashInv, HashOK, ShowsInv, ShowsOK, Live, NoSession
<1> QED
    BY <1>2, <1>3, <1>4 DEF SessionInv

\* Time takes one tick from every session and gives one to every request.
LEMMA TickKeeps ==
    ASSUME SessionInv, SessionTick
    PROVE  SessionInv'
<1>1. SessionTypeOK /\ TabInv /\ RequestInv /\ HashInv /\ ShowsInv
    BY DEF SessionInv
<1>2. users' = users /\ tab' = tab /\ spent' = spent /\ missed' = missed /\ mixed' = mixed
    BY DEF SessionTick
<1>3. \A t \in Tokens :
         /\ session'[t].ttl \in 0..Forever /\ session'[t].ttl <= session[t].ttl
         /\ session[t].ttl > 1 => session'[t].ttl >= session[t].ttl - 1
         /\ Live(t)' => /\ Live(t) /\ session'[t].owner = session[t].owner
                        /\ session'[t].nick = session[t].nick
         /\ session'[t] \in HashType
  <2> SUFFICES ASSUME NEW t \in Tokens
               PROVE  /\ session'[t].ttl \in 0..Forever /\ session'[t].ttl <= session[t].ttl
                      /\ session[t].ttl > 1 => session'[t].ttl >= session[t].ttl - 1
                      /\ Live(t)' => /\ Live(t) /\ session'[t].owner = session[t].owner
                                     /\ session'[t].nick = session[t].nick
                      /\ session'[t] \in HashType
    OBVIOUS
  <2>1. /\ session[t] \in HashType
        /\ Life \in Nat /\ Forever = Life + 1
    BY <1>1, SessionTimes DEF SessionTypeOK, Forever
  <2>2. session'[t] = IF session[t].ttl = 1 THEN NoSession
                      ELSE IF session[t].ttl \in 2..Life THEN [session[t] EXCEPT !.ttl = @ - 1]
                      ELSE session[t]
    BY DEF SessionTick
  <2>3. CASE session[t].ttl = 1
    BY <2>1, <2>2, <2>3 DEF NoSession, Live, HashType
  <2>4. CASE session[t].ttl \in 2..Life
    <3>1. session'[t] = [session[t] EXCEPT !.ttl = session[t].ttl - 1]
      BY <2>2, <2>4
    <3> QED
      BY <2>1, <2>4, <3>1 DEF Live, HashType
  <2>5. CASE session[t].ttl # 1 /\ session[t].ttl \notin 2..Life
    <3>1. session'[t] = session[t]
      BY <2>2, <2>5
    <3> QED
      BY <2>1, <3>1 DEF Live, HashType
  <2> QED
    BY <2>3, <2>4, <2>5
<1>4. \A r \in Requests :
         /\ request'[r].pc = request[r].pc
         /\ request[r].pc # "idle" =>
              /\ request'[r].token = request[r].token /\ request'[r].owner = request[r].owner
              /\ request'[r].nick = request[r].nick /\ request'[r].hit = request[r].hit
              /\ request'[r].age = request[r].age + 1 /\ request[r].age < MaxAge
         /\ request'[r] \in RequestType
  <2> SUFFICES ASSUME NEW r \in Requests
               PROVE  /\ request'[r].pc = request[r].pc
                      /\ request[r].pc # "idle" =>
                           /\ request'[r].token = request[r].token
                           /\ request'[r].owner = request[r].owner
                           /\ request'[r].nick = request[r].nick /\ request'[r].hit = request[r].hit
                           /\ request'[r].age = request[r].age + 1 /\ request[r].age < MaxAge
                      /\ request'[r] \in RequestType
    OBVIOUS
  <2>1. request[r] \in RequestType
    BY <1>1 DEF SessionTypeOK
  <2>2. CASE request[r].pc = "idle"
    <3>1. request'[r] = Idle
      BY <2>2 DEF SessionTick
    <3> QED
      BY <2>2, <3>1, SessionTimes DEF Idle, RequestType
  <2>3. CASE request[r].pc # "idle"
    <3>1. request'[r] = [request[r] EXCEPT !.age = request[r].age + 1] /\ request[r].age < MaxAge
      BY <2>3 DEF SessionTick
    <3>2. request[r].age + 1 \in 0..MaxAge
      BY <2>1, <3>1, SessionTimes DEF RequestType
    <3> QED
      BY <2>1, <3>1, <3>2 DEF RequestType
  <2> QED
    BY <2>2, <2>3
<1>5. SessionTypeOK'
  <2>1. session' \in [Tokens -> HashType]
    BY <1>3 DEF SessionTick
  <2>2. request' \in [Requests -> RequestType]
    BY <1>4 DEF SessionTick
  <2>3. code' \in [Phones -> 0..CodeLife]
    BY <1>1, SessionTimes DEF SessionTick, SessionTypeOK
  <2>4. ticks' \in 0..MaxTicks
    BY <1>1, SessionBounds DEF SessionTick, SessionTypeOK
  <2> QED
    BY <1>1, <2>1, <2>2, <2>3, <2>4 DEF SessionTick, SessionTypeOK
<1>6. TabInv'
    BY <1>1, <1>2 DEF TabInv, TabOK
<1>7. \A r \in Requests : request[r].pc # "idle" => request[r].token \in Tokens
    BY <1>1 DEF RequestInv, RequestOK, SessionTypeOK
<1>8. ASSUME NEW r \in Requests PROVE RequestOK(r)'
  <2> DEFINE t == request[r].token
  <2>1. RequestOK(r)
    BY <1>1 DEF RequestInv
  <2>2. CASE request[r].pc = "idle"
    BY <1>4, <2>2 DEF RequestOK
  <2>3. CASE request[r].pc # "idle"
    <3>1. t \in Tokens /\ request'[r].token = t
      BY <1>4, <1>7, <2>3
    <3>2. ASSUME request[r].pc \in {"table", "hash"}, request[r].hit
          PROVE  session'[t].ttl >= Life - request'[r].age
      <4>1. session[t].ttl >= Life - request[r].age
        BY <2>1, <3>2 DEF RequestOK
      <4>2. session[t].ttl \in Nat /\ session'[t].ttl \in Nat /\ request[r].age \in Nat
        BY <1>1, <1>3, <3>1, SessionTimes DEF SessionTypeOK, HashType, RequestType, Forever
      <4>3. request'[r].age = request[r].age + 1 /\ request[r].age < MaxAge
        BY <1>4, <2>3
      <4>4. session[t].ttl > 1
        BY <4>1, <4>2, <4>3, SessionTimes
      <4> QED
        BY <1>3, <3>1, <4>1, <4>2, <4>3, <4>4, SessionTimes
    <3> HIDE DEF t
    <3> QED
      BY <1>2, <1>3, <1>4, <2>1, <2>3, <3>1, <3>2 DEF RequestOK, Live, t
  <2> QED
    BY <2>2, <2>3
<1>9. ASSUME NEW t \in Tokens PROVE HashOK(t)' /\ ShowsOK(t)'
  <2>1. HashOK(t) /\ ShowsOK(t)
    BY <1>1 DEF HashInv, ShowsInv
  <2>2. session[t].ttl \in Int /\ session'[t].ttl \in Int /\ Life \in Int
    BY <1>1, <1>3, SessionTimes DEF SessionTypeOK, HashType, Forever
  <2>3. HashOK(t)'
    BY <1>2, <1>3, <2>1, <2>2 DEF HashOK, Live
  <2>4. ShowsOK(t)'
    BY <1>2, <1>3, <1>4, <2>1 DEF ShowsOK, Live
  <2> QED
    BY <2>3, <2>4
<1> QED
    BY <1>5, <1>6, <1>8, <1>9 DEF SessionInv, RequestInv, HashInv, ShowsInv

\* A code is only looked at by a login.
LEMMA SendCodeKeeps ==
    ASSUME SessionInv, NEW p \in Phones, SendCode(p)
    PROVE  SessionInv'
<1>1. SessionTypeOK'
    BY SessionTimes DEF SessionInv, SessionTypeOK, SendCode
<1>2. TabInv' /\ RequestInv' /\ HashInv' /\ ShowsInv'
    BY DEF SendCode, SessionInv, TabInv, TabOK, RequestInv, RequestOK, HashInv, HashOK,
           ShowsInv, ShowsOK, Live
<1> QED
    BY <1>1, <1>2 DEF SessionInv

\* A tab may move when what it carries is right: the rest does not change.
LEMMA TabMoves ==
    ASSUME SessionInv, NEW b \in Tabs, NEW moved \in TabType,
           tab' = [tab EXCEPT ![b] = moved],
           moved.page = "app" => moved.token \in spent,
           moved.step # "idle" => moved.page = "login" /\ moved.phone \in Phones,
           moved.step = "write" => /\ users[moved.phone] # None
                                   /\ moved.phone \notin mixed => moved.nick = users[moved.phone],
           UNCHANGED <<users, code, session, request, spent, missed, mixed,
                       ticks, requests, sessionFaults>>
    PROVE  SessionInv'
<1>1. SessionTypeOK'
    BY DEF SessionInv, SessionTypeOK
<1>2. tab'[b] = moved /\ \A c \in Tabs \ {b} : tab'[c] = tab[c]
    BY DEF SessionInv, SessionTypeOK
<1>3. TabInv'
    BY <1>2 DEF SessionInv, TabInv, TabOK
<1>4. RequestInv' /\ HashInv' /\ ShowsInv'
    BY DEF SessionInv, RequestInv, RequestOK, HashInv, HashOK, ShowsInv, ShowsOK, Live
<1> QED
    BY <1>1, <1>3, <1>4 DEF SessionInv

\* The tab reads the nickname of a registered user, or goes on to register.
LEMMA FindUserKeeps ==
    ASSUME SessionInv, NEW b \in Tabs, NEW p \in Phones, FindUser(b, p)
    PROVE  SessionInv'
<1> DEFINE step == IF users[p] = None THEN "register" ELSE "write"
           moved == [tab[b] EXCEPT !.phone = p, !.nick = users[p], !.step = step]
<1>1. tab[b] \in TabType /\ users[p] \in Nicks \cup {None}
    BY DEF SessionInv, SessionTypeOK
<1>2. tab' = [tab EXCEPT ![b] = moved]
    BY DEF FindUser, SessionInv, SessionTypeOK
<1>3. step \in {"register", "write"} /\ (step = "write" => users[p] # None)
    OBVIOUS
<1> HIDE DEF step
<1>4. /\ moved \in TabType /\ moved.page = "login" /\ moved.phone = p
      /\ moved.nick = users[p] /\ moved.step = step
    BY <1>1, <1>3 DEF TabType, FindUser
<1> HIDE DEF moved
<1>5. /\ UNCHANGED <<users, code, session, request, spent, missed, mixed,
                     ticks, requests, sessionFaults>>
      /\ moved.page = "app" => moved.token \in spent
      /\ moved.step # "idle" => moved.page = "login" /\ moved.phone \in Phones
      /\ moved.step = "write" => /\ users[moved.phone] # None
                                 /\ moved.phone \notin mixed => moved.nick = users[moved.phone]
    BY <1>3, <1>4 DEF FindUser
<1> QED
    BY <1>2, <1>4, <1>5, TabMoves

\* A tab that goes back to the login page carries nothing.
LEMMA BackToLogin ==
    ASSUME SessionInv, NEW b \in Tabs, tab' = [tab EXCEPT ![b] = LoginPage],
           UNCHANGED <<users, code, session, request, spent, missed, mixed,
                       ticks, requests, sessionFaults>>
    PROVE  SessionInv'
<1> DEFINE moved == LoginPage
<1>1. moved \in TabType /\ moved.page = "login" /\ moved.step = "idle"
    BY DEF LoginPage, TabType
<1>2. tab' = [tab EXCEPT ![b] = moved]
    OBVIOUS
<1> HIDE DEF moved
<1>3. /\ moved.page = "app" => moved.token \in spent
      /\ moved.step # "idle" => moved.page = "login" /\ moved.phone \in Phones
      /\ moved.step = "write" => /\ users[moved.phone] # None
                                 /\ moved.phone \notin mixed => moved.nick = users[moved.phone]
    BY <1>1
<1> QED
    BY <1>1, <1>2, <1>3, TabMoves

\* A user without a row has no session, no request and no other login that
\* carries a nickname, so the new row contradicts none of them.
LEMMA RegisterKeeps ==
    ASSUME SessionInv, NEW b \in Tabs, Register(b)
    PROVE  SessionInv'
<1> DEFINE p == tab[b].phone
<1>1. CASE users[p] # None
    BY <1>1, BackToLogin DEF Register
<1>2. CASE users[p] = None
  <2> DEFINE moved == [tab[b] EXCEPT !.step = "write", !.nick = FirstNick]
  <2>1. /\ tab[b] \in TabType /\ p \in Phones /\ tab[b].page = "login"
        /\ FirstNick \in Nicks /\ FirstNick # None
    BY SessionNicks, NoneAssumption
    DEF Register, SessionInv, SessionTypeOK, TabInv, TabOK
  <2>2. /\ tab' = [tab EXCEPT ![b] = moved] /\ users' = [users EXCEPT ![p] = FirstNick]
        /\ UNCHANGED <<code, session, request, spent, missed, mixed, ticks, requests, sessionFaults>>
    BY <1>2 DEF Register, SessionInv, SessionTypeOK
  <2>3. /\ moved \in TabType /\ moved.page = "login" /\ moved.phone = p
        /\ moved.nick = FirstNick /\ moved.step = "write"
    BY <2>1 DEF TabType
  <2> HIDE DEF moved, p
  <2>4. /\ tab'[b] = moved /\ \A c \in Tabs \ {b} : tab'[c] = tab[c]
        /\ users'[p] = FirstNick /\ \A q \in Phones \ {p} : users'[q] = users[q]
    BY <2>1, <2>2 DEF SessionInv, SessionTypeOK
  <2>5. SessionTypeOK'
    BY <2>1, <2>2, <2>3 DEF SessionInv, SessionTypeOK
  <2>6. TabInv'
    <3> SUFFICES ASSUME NEW c \in Tabs PROVE TabOK(c)'
      BY DEF TabInv
    <3>1. TabOK(c)
      BY DEF SessionInv, TabInv
    <3> QED
      BY <3>1, <1>2, <2>1, <2>2, <2>3, <2>4 DEF TabOK, p
  <2>7. ASSUME NEW r \in Requests PROVE RequestOK(r)'
    <3>1. RequestOK(r) /\ request[r].owner \in Phones \cup {None}
      BY SessionFields DEF SessionInv, RequestInv
    <3> QED
      BY <3>1, <1>2, <2>1, <2>2, <2>4 DEF RequestOK, Live, p
  <2>8. ASSUME NEW t \in Tokens PROVE HashOK(t)' /\ ShowsOK(t)'
    <3>1. HashOK(t) /\ ShowsOK(t) /\ session[t].owner \in Phones \cup {None}
      BY SessionFields DEF SessionInv, HashInv, ShowsInv
    <3>2. HashOK(t)'
      BY <3>1, <1>2, <2>1, <2>2, <2>4 DEF HashOK, Live, p
    <3>3. ShowsOK(t)'
      BY <3>1, <1>2, <2>1, <2>2, <2>4, NoneAssumption DEF HashOK, ShowsOK, Live, p
    <3> QED
      BY <3>2, <3>3
  <2> QED
    BY <2>5, <2>6, <2>7, <2>8 DEF SessionInv, RequestInv, HashInv, ShowsInv
<1> QED
    BY <1>1, <1>2

\* A hash under a new token: no tab and no request knows the token yet.
LEMMA NewHash ==
    ASSUME SessionInv, NEW t \in Tokens \ spent, NEW h \in HashType,
           session' = [session EXCEPT ![t] = h], spent' = spent \cup {t},
           NEW b \in Tabs, NEW moved \in TabType, tab' = [tab EXCEPT ![b] = moved],
           moved.page = "app" => moved.token = t, moved.step = "idle",
           h.owner \in Phones, users[h.owner] # None,
           h.owner \notin mixed => h.nick = users[h.owner],
           missed \subseteq missed', missed' \subseteq Tokens, t \notin missed' => h.ttl <= Life,
           sessionFaults' \in 0..MaxSessionFaults,
           UNCHANGED <<users, code, request, mixed, ticks, requests>>
    PROVE  SessionInv'
<1>1. SessionTypeOK'
    BY DEF SessionInv, SessionTypeOK
<1>2. /\ tab'[b] = moved /\ \A c \in Tabs \ {b} : tab'[c] = tab[c]
      /\ session'[t] = h /\ \A u \in Tokens \ {t} : session'[u] = session[u]
    BY DEF SessionInv, SessionTypeOK
<1>3. TabInv'
  <2> SUFFICES ASSUME NEW c \in Tabs PROVE TabOK(c)'
    BY DEF TabInv
  <2> QED
    BY <1>2 DEF SessionInv, TabInv, TabOK
<1>4. ASSUME NEW r \in Requests PROVE RequestOK(r)'
  <2>1. RequestOK(r) /\ request[r].pc \in {"idle", "extend", "table", "hash"}
    BY SessionFields DEF SessionInv, RequestInv
  <2>2. CASE request[r].pc = "idle"
    BY <2>2 DEF RequestOK
  <2>3. CASE request[r].pc # "idle"
    <3>1. request[r].token \in Tokens \ {t}
      BY <2>1, <2>3 DEF RequestOK, SessionInv, SessionTypeOK
    <3>2. session'[request[r].token] = session[request[r].token]
      BY <1>2, <3>1
    <3> QED
      BY <2>1, <3>2 DEF RequestOK, Live
  <2> QED
    BY <2>2, <2>3
<1>5. ASSUME NEW u \in Tokens PROVE HashOK(u)' /\ ShowsOK(u)'
  <2>1. HashOK(u) /\ ShowsOK(u)
    BY DEF SessionInv, HashInv, ShowsInv
  <2>2. CASE u = t
    BY <1>2, <2>2, NoneAssumption DEF HashOK, ShowsOK, Live
  <2>3. CASE u # t
    BY <1>2, <2>1, <2>3 DEF HashOK, ShowsOK, Live
  <2> QED
    BY <2>2, <2>3
<1> QED
    BY <1>1, <1>3, <1>4, <1>5 DEF SessionInv, RequestInv, HashInv, ShowsInv

\* The hash of a login has its owner, the nickname of the table and a TTL.
LEMMA WriteSessionKeeps ==
    ASSUME SessionInv, NEW b \in Tabs, WriteSession(b)
    PROVE  SessionInv'
<1>1. PICK t \in Tokens \ spent :
         /\ session' = [session EXCEPT ![t] =
                          [owner |-> tab[b].phone, nick |-> tab[b].nick, ttl |-> Life]]
         /\ tab' = [tab EXCEPT ![b] = AppPage(t)]
         /\ spent' = spent \cup {t}
         /\ UNCHANGED <<users, code, request, missed, mixed, ticks, requests, sessionFaults>>
    BY DEF WriteSession
<1> DEFINE h == [owner |-> tab[b].phone, nick |-> tab[b].nick, ttl |-> Life]
           moved == AppPage(t)
<1>2. /\ tab[b].phone \in Phones /\ tab[b].nick \in Nicks \cup {None}
      /\ users[tab[b].phone] # None
      /\ tab[b].phone \notin mixed => tab[b].nick = users[tab[b].phone]
    BY SessionFields DEF WriteSession, SessionInv, TabInv, TabOK
<1>3. h \in HashType /\ h.owner = tab[b].phone /\ h.nick = tab[b].nick /\ h.ttl = Life
    BY <1>2, SessionTimes DEF HashType, Forever
<1>4. moved \in TabType /\ moved.token = t /\ moved.step = "idle"
    BY DEF AppPage, LoginPage, TabType
<1>5. session' = [session EXCEPT ![t] = h] /\ tab' = [tab EXCEPT ![b] = moved]
    BY <1>1
<1> HIDE DEF h, moved
<1>6. /\ missed \subseteq missed' /\ missed' \subseteq Tokens /\ (t \notin missed' => h.ttl <= Life)
      /\ sessionFaults' \in 0..MaxSessionFaults
    BY <1>1, <1>3, SessionTimes DEF SessionInv, SessionTypeOK
<1>7. UNCHANGED <<users, code, request, mixed, ticks, requests>> /\ spent' = spent \cup {t}
    BY <1>1
<1> QED
    BY <1>2, <1>3, <1>4, <1>5, <1>6, <1>7, NewHash

\* A login that is cut leaves a hash whose token nobody has.
LEMMA CutLoginKeeps ==
    ASSUME SessionInv, NEW b \in Tabs, CutLogin(b)
    PROVE  SessionInv'
<1>1. PICK t \in Tokens \ spent :
         /\ session' = [session EXCEPT ![t] =
                          [owner |-> tab[b].phone, nick |-> tab[b].nick, ttl |-> Forever]]
         /\ spent' = spent \cup {t}
         /\ missed' = missed \cup {t}
    BY DEF CutLogin
<1> DEFINE h == [owner |-> tab[b].phone, nick |-> tab[b].nick, ttl |-> Forever]
           moved == LoginPage
<1>2. /\ tab[b].phone \in Phones /\ tab[b].nick \in Nicks \cup {None}
      /\ users[tab[b].phone] # None
      /\ tab[b].phone \notin mixed => tab[b].nick = users[tab[b].phone]
    BY SessionFields DEF CutLogin, SessionInv, TabInv, TabOK
<1>3. h \in HashType /\ h.owner = tab[b].phone /\ h.nick = tab[b].nick
    BY <1>2, SessionTimes DEF HashType, Forever
<1>4. moved \in TabType /\ moved.page = "login" /\ moved.step = "idle"
    BY DEF LoginPage, TabType
<1>5. session' = [session EXCEPT ![t] = h] /\ tab' = [tab EXCEPT ![b] = moved]
    BY <1>1 DEF CutLogin
<1> HIDE DEF h, moved
<1>6. /\ missed \subseteq missed' /\ missed' \subseteq Tokens /\ (t \notin missed' => h.ttl <= Life)
      /\ sessionFaults' \in 0..MaxSessionFaults
    BY <1>1, SessionBounds DEF SessionInv, SessionTypeOK, CutLogin
<1>7. UNCHANGED <<users, code, request, mixed, ticks, requests>> /\ spent' = spent \cup {t}
    BY <1>1 DEF CutLogin
<1> QED
    BY <1>2, <1>3, <1>4, <1>5, <1>6, <1>7, NewHash

\* Who is refused goes to the login page.
LEMMA RefuseKeeps ==
    ASSUME SessionInv, NEW b \in Tabs, Refuse(b)
    PROVE  SessionInv'
    BY BackToLogin DEF Refuse

\* Requests may move when they are not about to write a hash: what a hash
\* shows does not rest on them, before or after.
LEMMA RequestMoves ==
    ASSUME SessionInv, NEW r \in Requests, NEW moved \in RequestType,
           request' = [request EXCEPT ![r] = moved],
           request[r].pc # "hash", RequestOK(r)',
           \A t \in Tokens : /\ session'[t] \in HashType
                             /\ Live(t)' <=> Live(t)
                             /\ session'[t].owner = session[t].owner
                             /\ session'[t].nick = session[t].nick
                             /\ \/ session'[t].ttl = session[t].ttl
                                \/ session'[t].ttl = Life,
           session' \in [Tokens -> HashType],
           missed \subseteq missed', missed' \subseteq Tokens,
           requests' \in 0..MaxRequests, sessionFaults' \in 0..MaxSessionFaults,
           UNCHANGED <<users, code, tab, spent, mixed, ticks>>
    PROVE  SessionInv'
<1>1. SessionTypeOK'
    BY DEF SessionInv, SessionTypeOK
<1>2. request'[r] = moved /\ \A q \in Requests \ {r} : request'[q] = request[q]
    BY DEF SessionInv, SessionTypeOK
<1>3. TabInv'
    BY DEF SessionInv, TabInv, TabOK
<1>4. ASSUME NEW q \in Requests, q # r PROVE RequestOK(q)'
  <2>1. RequestOK(q) /\ request'[q] = request[q]
    BY <1>2, <1>4 DEF SessionInv, RequestInv
  <2>2. CASE request[q].pc = "idle"
    BY <2>1, <2>2 DEF RequestOK
  <2>3. CASE request[q].pc # "idle"
    <3>1. request[q].token \in Tokens /\ request[q].age \in 0..MaxAge
      BY <2>1, <2>3, SessionFields DEF RequestOK, SessionInv, SessionTypeOK
    <3> PICK t \in Tokens : t = request[q].token
      BY <3>1
    <3>2. /\ Live(t)' <=> Live(t)
          /\ session'[t].owner = session[t].owner
          /\ session[t].ttl \in Int
          /\ session'[t].ttl = session[t].ttl \/ session'[t].ttl = Life
      BY SessionFields DEF SessionInv, Forever
    <3>3. session[t].ttl >= Life - request[q].age => session'[t].ttl >= Life - request[q].age
      BY <3>1, <3>2, SessionTimes
    <3>4. request'[q].token = t /\ request[q].token = t
      BY <2>1
    <3> QED
      BY <2>1, <2>3, <3>2, <3>3, <3>4 DEF RequestOK, Live
  <2> QED
    BY <2>2, <2>3
<1>5. ASSUME NEW t \in Tokens PROVE HashOK(t)' /\ ShowsOK(t)'
  <2>1. HashOK(t) /\ ShowsOK(t)
    BY DEF SessionInv, HashInv, ShowsInv
  <2>2. HashOK(t)'
    BY <2>1, SessionTimes DEF HashOK, Live
  <2>3. (\E q \in Requests : request[q].pc = "hash" /\ request[q].token = t) =>
            (\E q \in Requests : request'[q].pc = "hash" /\ request'[q].token = t)
    BY <1>2
  <2>4. ShowsOK(t)'
    BY <2>1, <2>3 DEF ShowsOK, Live
  <2> QED
    BY <2>2, <2>4
<1> QED
    BY <1>1, <1>3, <1>4, <1>5 DEF SessionInv, RequestInv, HashInv, ShowsInv

\* A request begins with the owner of the hash it has read.
LEMMA ReadSessionKeeps ==
    ASSUME SessionInv, NEW r \in Requests, NEW b \in Tabs, NEW nick \in Nicks \cup {None},
           ReadSession(r, b, nick)
    PROVE  SessionInv'
<1> DEFINE t == tab[b].token
           moved == [pc |-> "extend", token |-> t, owner |-> session[t].owner, nick |-> nick,
                     age |-> 0, hit |-> FALSE]
<1>1. t \in spent /\ t \in Tokens /\ Live(t)
    BY DEF ReadSession, SessionInv, TabInv, TabOK, SessionTypeOK
<1>2. session[t].owner \in Phones \cup {None} /\ session[t] \in HashType
    BY <1>1, SessionFields DEF SessionInv, SessionTypeOK
<1>3. moved \in RequestType
    BY <1>1, <1>2, SessionTimes DEF RequestType
<1>4. request' = [request EXCEPT ![r] = moved]
    BY DEF ReadSession
<1>5. request'[r] = moved
    BY <1>4 DEF SessionInv, SessionTypeOK
<1>6. /\ UNCHANGED <<users, code, session, tab, spent, missed, mixed, ticks, sessionFaults>>
      /\ request[r].pc = "idle" /\ requests' = requests + 1 /\ requests < MaxRequests
    BY DEF ReadSession
<1>7. moved.pc = "extend" /\ moved.token = t /\ moved.owner = session[t].owner
    OBVIOUS
<1> HIDE DEF moved, t
<1>8. session[t].owner # None => users[session[t].owner] # None
    BY <1>1 DEF SessionInv, HashInv, HashOK
<1>9. RequestOK(r)'
    BY <1>1, <1>5, <1>6, <1>7, <1>8 DEF RequestOK, Live
<1>10. /\ session' \in [Tokens -> HashType] /\ missed \subseteq missed' /\ missed' \subseteq Tokens
       /\ requests' \in 0..MaxRequests /\ sessionFaults' \in 0..MaxSessionFaults
       /\ request[r].pc # "hash"
    BY <1>6, SessionBounds DEF SessionInv, SessionTypeOK
<1>11. \A u \in Tokens : /\ session'[u] \in HashType
                         /\ Live(u)' <=> Live(u)
                         /\ session'[u].owner = session[u].owner
                         /\ session'[u].nick = session[u].nick
                         /\ session'[u].ttl = session[u].ttl \/ session'[u].ttl = Life
    BY <1>6, <1>10 DEF Live
<1>12. UNCHANGED <<users, code, tab, spent, mixed, ticks>>
    BY <1>6
<1> QED
    BY <1>3, <1>4, <1>9, <1>10, <1>11, <1>12, RequestMoves

\* After EXPIRE the request has extended its session or is known to have
\* missed it.
LEMMA ExtendedKeeps ==
    ASSUME SessionInv, NEW r \in Requests, request[r].pc = "extend",
           NEW hit \in BOOLEAN, Handle(r, hit),
           NEW t, t = request[r].token,
           session' = IF hit THEN [session EXCEPT ![t].ttl = Life] ELSE session,
           hit => Live(t) /\ missed' = missed,
           ~hit => missed' = missed \cup {t},
           sessionFaults' \in 0..MaxSessionFaults,
           UNCHANGED <<users, code, tab, spent, mixed, ticks, requests>>
    PROVE  SessionInv'
<1> DEFINE going == [request[r] EXCEPT !.pc = "table", !.hit = hit]
           moved == IF request[r].nick = None \/ request[r].owner = None THEN Idle ELSE going
<1>1. request[r] \in RequestType /\ RequestOK(r)
    BY DEF SessionInv, SessionTypeOK, RequestInv
<1>2. t \in Tokens
    BY <1>1 DEF SessionInv, SessionTypeOK, RequestOK
<1>3. request' = [request EXCEPT ![r] = moved]
    BY DEF Handle, SessionInv, SessionTypeOK
<1>4. /\ going \in RequestType /\ going.pc = "table" /\ going.hit = hit /\ going.token = t
      /\ going.owner = request[r].owner /\ going.nick = request[r].nick
      /\ going.age = request[r].age
    BY <1>1 DEF RequestType
<1>5. Idle \in RequestType /\ Idle.pc = "idle"
    BY SessionTimes DEF Idle, RequestType
<1> HIDE DEF going
<1>6. moved \in RequestType
    BY <1>4, <1>5
<1>7. request'[r] = moved
    BY <1>3, <1>6 DEF SessionInv, SessionTypeOK
<1>8. session[t] \in HashType /\ Life \in Nat /\ Life > 0 /\ request[r].age \in 0..MaxAge
    BY <1>1, <1>2, SessionTimes DEF SessionInv, SessionTypeOK, RequestType
<1>9. hit => /\ session'[t] = [session[t] EXCEPT !.ttl = Life]
             /\ \A u \in Tokens \ {t} : session'[u] = session[u]
    BY <1>2 DEF SessionInv, SessionTypeOK
<1>10. \A u \in Tokens : /\ session'[u] \in HashType
                         /\ Live(u)' <=> Live(u)
                         /\ session'[u].owner = session[u].owner
                         /\ session'[u].nick = session[u].nick
                         /\ session'[u].ttl = session[u].ttl \/ session'[u].ttl = Life
  <2>1. CASE ~hit
    BY <2>1 DEF SessionInv, SessionTypeOK, Live
  <2>2. CASE hit
    <3>1. /\ session'[t] \in HashType /\ session'[t].ttl = Life
          /\ session'[t].owner = session[t].owner /\ session'[t].nick = session[t].nick
      BY <1>8, <1>9, <2>2 DEF HashType, Forever
    <3>2. Live(t) /\ Live(t)'
      BY <1>8, <2>2, <3>1 DEF Live
    <3>3. \A u \in Tokens \ {t} : session'[u] = session[u] /\ session[u] \in HashType
      BY <1>9, <2>2 DEF SessionInv, SessionTypeOK
    <3> QED
      BY <3>1, <3>2, <3>3 DEF Live
  <2> QED
    BY <2>1, <2>2
<1>11. session' \in [Tokens -> HashType]
    BY <1>10 DEF SessionInv, SessionTypeOK
<1>12. hit => session'[t].ttl >= Life - request[r].age
  <2>1. hit => session'[t].ttl = Life
    BY <1>8, <1>9 DEF HashType
  <2> QED
    BY <2>1, <1>8, SessionTimes
<1>13. RequestOK(r)'
  <2>1. CASE request[r].nick = None \/ request[r].owner = None
    BY <2>1, <1>5, <1>7 DEF RequestOK
  <2>2. CASE request[r].nick # None /\ request[r].owner # None
    <3>1. request'[r] = going
      BY <2>2, <1>7
    <3>2. Live(t) => session[t].owner \in {request[r].owner, None}
      BY <1>1 DEF RequestOK
    <3>3. t \in spent /\ users[request[r].owner] # None
      BY <1>1, <2>2 DEF RequestOK
    <3>4. session'[t].owner = session[t].owner /\ (Live(t)' <=> Live(t))
      BY <1>2, <1>10
    <3> QED
      BY <1>4, <1>12, <2>2, <3>1, <3>2, <3>3, <3>4 DEF RequestOK, Live
  <2> QED
    BY <2>1, <2>2
<1>14. missed \subseteq missed' /\ missed' \subseteq Tokens /\ requests' \in 0..MaxRequests
    BY <1>2 DEF SessionInv, SessionTypeOK
<1> HIDE DEF moved
<1>15. request[r].pc # "hash" /\ UNCHANGED <<users, code, tab, spent, mixed, ticks>>
    OBVIOUS
<1> QED
    BY <1>3, <1>6, <1>10, <1>11, <1>13, <1>14, <1>15, RequestMoves

\* EXPIRE, in time or too late.
LEMMA ExtendKeeps ==
    ASSUME SessionInv, NEW r \in Requests, Extend(r)
    PROVE  SessionInv'
<1> DEFINE t == request[r].token
           hit == Live(t)
<1>1. hit \in BOOLEAN
    BY DEF Live
<1>2. session' = IF hit THEN [session EXCEPT ![t].ttl = Life] ELSE session
    BY DEF Extend
<1>3. /\ hit => Live(t) /\ missed' = missed
      /\ ~hit => missed' = missed \cup {t}
    BY DEF Extend
<1>4. /\ request[r].pc = "extend" /\ Handle(r, hit)
      /\ UNCHANGED <<users, code, tab, spent, mixed, ticks, requests>>
      /\ sessionFaults' \in 0..MaxSessionFaults
    BY DEF Extend, SessionInv, SessionTypeOK
<1> HIDE DEF hit
<1>5. t = request[r].token
    OBVIOUS
<1> HIDE DEF t
<1> QED
    BY <1>1, <1>2, <1>3, <1>4, <1>5, ExtendedKeeps

\* EXPIRE fails.
LEMMA FailExtendKeeps ==
    ASSUME SessionInv, NEW r \in Requests, FailExtend(r)
    PROVE  SessionInv'
<1> DEFINE t == request[r].token
           hit == FALSE
<1>1. /\ session' = IF hit THEN [session EXCEPT ![t].ttl = Life] ELSE session
      /\ hit => Live(t) /\ missed' = missed
      /\ ~hit => missed' = missed \cup {t}
    BY DEF FailExtend
<1>2. /\ request[r].pc = "extend" /\ Handle(r, hit)
      /\ UNCHANGED <<users, code, tab, spent, mixed, ticks, requests>>
    BY DEF FailExtend
<1>3. sessionFaults' \in 0..MaxSessionFaults
    BY SessionBounds DEF FailExtend, SessionInv, SessionTypeOK
<1>4. hit \in BOOLEAN /\ t = request[r].token
    OBVIOUS
<1> HIDE DEF t, hit
<1> QED
    BY <1>1, <1>2, <1>3, <1>4, ExtendedKeeps

\* The table has the new nickname; who else knows the user makes it mixed.
LEMMA UpdateUserKeeps ==
    ASSUME SessionInv, NEW r \in Requests, UpdateUser(r)
    PROVE  SessionInv'
<1>1. RequestOK(r) /\ request[r] \in RequestType /\ request[r].pc = "table"
    BY DEF UpdateUser, SessionInv, SessionTypeOK, RequestInv
<1>2. request[r].owner \in Phones /\ request[r].nick \in Nicks
    BY <1>1, SessionFields DEF RequestOK, SessionInv
<1> PICK p \in Phones : p = request[r].owner
    BY <1>2
<1> DEFINE moved == [request[r] EXCEPT !.pc = "hash"]
<1>3. /\ users' = [users EXCEPT ![p] = request[r].nick]
      /\ mixed' = IF Elsewhere(r, p) THEN mixed \cup {p} ELSE mixed
      /\ UNCHANGED <<code, session, tab, spent, missed, ticks, requests, sessionFaults>>
    BY DEF UpdateUser
<1>4. request' = [request EXCEPT ![r] = moved]
    BY DEF UpdateUser, SessionInv, SessionTypeOK
<1>5. /\ moved \in RequestType /\ moved.pc = "hash" /\ moved.token = request[r].token
      /\ moved.owner = p /\ moved.nick = request[r].nick /\ moved.hit = request[r].hit
      /\ moved.age = request[r].age
    BY <1>1 DEF RequestType
<1> HIDE DEF moved
<1>6. /\ request'[r] = moved /\ \A q \in Requests \ {r} : request'[q] = request[q]
      /\ users'[p] = request[r].nick /\ \A q \in Phones \ {p} : users'[q] = users[q]
    BY <1>3, <1>4, <1>5 DEF SessionInv, SessionTypeOK
<1>7. users'[p] # None /\ mixed \subseteq mixed' /\ mixed' \subseteq mixed \cup {p}
    BY <1>2, <1>3, <1>6, NoneAssumption
<1>8. SessionTypeOK'
    BY <1>2, <1>3, <1>4, <1>5 DEF SessionInv, SessionTypeOK
<1>9. ASSUME NEW b \in Tabs PROVE TabOK(b)'
  <2>1. TabOK(b)
    BY DEF SessionInv, TabInv
  <2>2. tab[b].step = "write" /\ tab[b].phone = p => p \in mixed'
    BY <1>3 DEF Elsewhere
  <2> QED
    BY <2>1, <2>2, <1>3, <1>6, <1>7 DEF TabOK
<1>10. ASSUME NEW q \in Requests PROVE RequestOK(q)'
  <2>1. CASE q = r
    BY <2>1, <1>1, <1>3, <1>5, <1>6, <1>7 DEF RequestOK, Live
  <2>2. CASE q # r
    <3>1. RequestOK(q) /\ request'[q] = request[q] /\ request[q].owner \in Phones \cup {None}
      BY <1>6, <2>2, SessionFields DEF SessionInv, RequestInv
    <3>2. request[q].pc = "hash" /\ request[q].owner = p => p \in mixed'
      BY <1>3, <2>2 DEF Elsewhere
    <3>3. request[q].pc = "hash" => request[q].owner \in Phones
      BY <3>1 DEF RequestOK
    <3> QED
      BY <3>1, <3>2, <3>3, <1>3, <1>6, <1>7 DEF RequestOK, Live
  <2> QED
    BY <2>1, <2>2
<1>11. ASSUME NEW t \in Tokens PROVE HashOK(t)' /\ ShowsOK(t)'
  <2>1. HashOK(t) /\ ShowsOK(t) /\ session[t].owner \in Phones \cup {None} /\ session'[t] = session[t]
    BY <1>3, SessionFields DEF SessionInv, HashInv, ShowsInv
  <2>2. HashOK(t)'
    BY <2>1, <1>3, <1>6, <1>7 DEF HashOK, Live
  <2>3. CASE Live(t) /\ session[t].owner = p
    <3>1. t = request[r].token \/ p \in mixed'
      BY <2>3, <1>3 DEF Elsewhere
    <3>2. t = request[r].token => request'[r].pc = "hash" /\ request'[r].token = t
      BY <1>5, <1>6
    <3> QED
      BY <2>1, <2>2, <2>3, <3>1, <3>2 DEF ShowsOK
  <2>4. CASE ~(Live(t) /\ session[t].owner = p)
    <3>1. (\E q \in Requests : request[q].pc = "hash" /\ request[q].token = t) =>
              (\E q \in Requests : request'[q].pc = "hash" /\ request'[q].token = t)
      BY <1>1, <1>6
    <3>2. ShowsOK(t)'
      BY <2>1, <2>4, <3>1, <1>3, <1>6, <1>7 DEF ShowsOK, Live
    <3> QED
      BY <2>2, <3>2
  <2> QED
    BY <2>3, <2>4
<1> QED
    BY <1>8, <1>9, <1>10, <1>11 DEF SessionInv, TabInv, RequestInv, HashInv, ShowsInv

\* The hash of the request's session gets the nickname of the table; a hash
\* that HSET makes up belongs to nobody and to a missed token.
LEMMA RefreshSessionKeeps ==
    ASSUME SessionInv, NEW r \in Requests, RefreshSession(r)
    PROVE  SessionInv'
<1>1. RequestOK(r) /\ request[r] \in RequestType /\ request[r].pc = "hash"
    BY DEF RefreshSession, SessionInv, SessionTypeOK, RequestInv
<1>2. /\ request[r].owner \in Phones /\ request[r].nick \in Nicks /\ request[r].token \in spent
      /\ request[r].token \in Tokens
    BY <1>1, SessionFields DEF RequestOK, SessionInv, SessionTypeOK
<1> PICK t \in Tokens : t = request[r].token
    BY <1>2
<1> DEFINE kept == [session[t] EXCEPT !.nick = request[r].nick]
           made == [owner |-> None, nick |-> request[r].nick, ttl |-> Forever]
           h == IF Live(t) THEN kept ELSE made
<1>3. /\ session' = [session EXCEPT ![t] = h] /\ request' = [request EXCEPT ![r] = Idle]
      /\ UNCHANGED <<users, code, tab, spent, missed, mixed, ticks, requests, sessionFaults>>
    BY DEF RefreshSession, SessionInv, SessionTypeOK
<1>4. /\ kept \in HashType /\ kept.owner = session[t].owner /\ kept.ttl = session[t].ttl
      /\ kept.nick = request[r].nick
    BY <1>2 DEF SessionInv, SessionTypeOK, HashType
<1>5. /\ made \in HashType /\ made.owner = None /\ made.ttl = Forever
      /\ Forever > Life /\ Forever > 0 /\ Forever \in Nat
    BY <1>2, SessionTimes DEF HashType, Forever
<1> HIDE DEF kept, made
<1>6. h \in HashType
    BY <1>4, <1>5
<1>7. Live(t) => h = kept
    OBVIOUS
<1>8. ~Live(t) => h = made
    OBVIOUS
<1> HIDE DEF h
<1>9. /\ session'[t] = h /\ \A u \in Tokens \ {t} : session'[u] = session[u]
      /\ request'[r] = Idle /\ \A q \in Requests \ {r} : request'[q] = request[q]
      /\ Idle.pc = "idle" /\ Idle \in RequestType
    BY <1>3, <1>6, SessionTimes DEF SessionInv, SessionTypeOK, Idle, RequestType
<1>10. SessionTypeOK'
    BY <1>3, <1>6, <1>9 DEF SessionInv, SessionTypeOK
<1>11. TabInv'
    BY <1>3 DEF SessionInv, TabInv, TabOK
<1>12. session[t].ttl \in 0..Forever /\ (Live(t) <=> session[t].ttl > 0)
    BY SessionFields DEF SessionInv, Live
<1>13. ~Live(t) => t \in missed
  <2> SUFFICES ASSUME t \notin missed PROVE Live(t)
    OBVIOUS
  <2>1. request[r].hit /\ session[t].ttl >= Life - request[r].age
    BY <1>1 DEF RequestOK
  <2>2. request[r].age \in 0..MaxAge
    BY <1>1 DEF RequestType
  <2> QED
    BY <2>1, <2>2, <1>12, <1>5, SessionTimes
<1>14. ASSUME NEW q \in Requests PROVE RequestOK(q)'
  <2>1. CASE q = r \/ request[q].pc = "idle"
    BY <2>1, <1>9 DEF RequestOK
  <2>2. CASE q # r /\ request[q].pc # "idle"
    <3>1. RequestOK(q) /\ request'[q] = request[q] /\ request[q].token \in Tokens
      BY <1>9, <2>2 DEF SessionInv, SessionTypeOK, RequestInv, RequestOK
    <3>2. CASE request[q].token # t
      BY <3>1, <3>2, <1>3, <1>9 DEF RequestOK, Live
    <3>3. CASE request[q].token = t /\ Live(t)
      <4>1. session'[t].owner = session[t].owner /\ session'[t].ttl = session[t].ttl
        BY <3>3, <1>4, <1>7, <1>9
      <4> QED
        BY <3>1, <3>3, <4>1, <1>3 DEF RequestOK, Live
    <3>4. CASE request[q].token = t /\ ~Live(t)
      <4>1. session'[t].owner = None /\ session'[t].ttl = Forever
        BY <3>4, <1>5, <1>8, <1>9
      <4>2. request[q].age \in 0..MaxAge
        BY SessionFields DEF SessionInv
      <4>3. Forever >= Life - request[q].age
        BY <4>2, <1>5, SessionTimes
      <4> QED
        BY <3>1, <3>4, <4>1, <4>3, <1>3 DEF RequestOK, Live
    <3> QED
      BY <3>1, <3>2, <3>3, <3>4
  <2> QED
    BY <2>1, <2>2
<1>15. ASSUME NEW u \in Tokens, u # t PROVE HashOK(u)' /\ ShowsOK(u)'
  <2>1. HashOK(u) /\ ShowsOK(u) /\ session'[u] = session[u]
    BY <1>9, <1>15 DEF SessionInv, HashInv, ShowsInv
  <2>2. (\E q \in Requests : request[q].pc = "hash" /\ request[q].token = u) =>
            (\E q \in Requests : request'[q].pc = "hash" /\ request'[q].token = u)
    BY <1>9, <1>15
  <2> QED
    BY <2>1, <2>2, <1>3 DEF HashOK, ShowsOK, Live
<1>16. HashOK(t)' /\ ShowsOK(t)'
  <2>1. HashOK(t)
    BY DEF SessionInv, HashInv
  <2>2. CASE Live(t)
    <3>1. session'[t].owner = session[t].owner /\ session'[t].ttl = session[t].ttl
      BY <2>2, <1>4, <1>7, <1>9
    <3>2. session'[t].nick = request[r].nick
      BY <2>2, <1>4, <1>7, <1>9
    <3>3. session[t].owner \in Phones => session[t].owner = request[r].owner
      BY <1>1, <2>2, NoneAssumption DEF RequestOK
    <3>4. request[r].owner \notin mixed => request[r].nick = users[request[r].owner]
      BY <1>1 DEF RequestOK
    <3> QED
      BY <2>1, <3>1, <3>2, <3>3, <3>4, <1>3 DEF HashOK, ShowsOK, Live
  <2>3. CASE ~Live(t)
    <3>1. session'[t].owner = None /\ t \in missed /\ t \in spent
      BY <2>3, <1>2, <1>5, <1>8, <1>9, <1>13
    <3> QED
      BY <3>1, <1>3, NoneAssumption DEF HashOK, ShowsOK
  <2> QED
    BY <2>2, <2>3
<1> QED
    BY <1>10, <1>11, <1>14, <1>15, <1>16 DEF SessionInv, RequestInv, HashInv, ShowsInv

\* A change that stops half way makes its user mixed.
LEMMA CutRefreshKeeps ==
    ASSUME SessionInv, NEW r \in Requests, CutRefresh(r)
    PROVE  SessionInv'
<1>1. RequestOK(r) /\ request[r].owner \in Phones /\ request[r].pc = "hash"
    BY SessionFields DEF CutRefresh, SessionInv, RequestInv, RequestOK
<1> PICK p \in Phones : p = request[r].owner
    BY <1>1
<1>2. /\ mixed' = mixed \cup {p}
      /\ UNCHANGED <<users, code, session, tab, spent, missed, ticks, requests>>
    BY DEF CutRefresh
<1>3. /\ request'[r] = Idle /\ \A q \in Requests \ {r} : request'[q] = request[q]
      /\ Idle.pc = "idle" /\ Idle \in RequestType
    BY SessionTimes DEF CutRefresh, SessionInv, SessionTypeOK, Idle, RequestType
<1>4. SessionTypeOK'
    BY <1>2, <1>3, SessionBounds DEF CutRefresh, SessionInv, SessionTypeOK
<1>5. TabInv'
    BY <1>2 DEF SessionInv, TabInv, TabOK
<1>6. ASSUME NEW q \in Requests PROVE RequestOK(q)'
  <2>1. CASE q = r
    BY <2>1, <1>3 DEF RequestOK
  <2>2. CASE q # r
    BY <2>2, <1>2, <1>3 DEF SessionInv, RequestInv, RequestOK, Live
  <2> QED
    BY <2>1, <2>2
<1>7. ASSUME NEW t \in Tokens PROVE HashOK(t)' /\ ShowsOK(t)'
  <2>1. HashOK(t) /\ ShowsOK(t) /\ session'[t] = session[t]
    BY <1>2 DEF SessionInv, HashInv, ShowsInv
  <2>2. HashOK(t)'
    BY <2>1, <1>2 DEF HashOK, Live
  <2>3. CASE t = request[r].token /\ Live(t)
    <3>1. session[t].owner \in {p, None}
      BY <1>1, <2>3 DEF RequestOK
    <3> QED
      BY <2>1, <2>2, <3>1, <1>2, NoneAssumption DEF ShowsOK
  <2>4. CASE t # request[r].token
    <3>1. (\E q \in Requests : request[q].pc = "hash" /\ request[q].token = t) =>
              (\E q \in Requests : request'[q].pc = "hash" /\ request'[q].token = t)
      BY <2>4, <1>3
    <3> QED
      BY <2>1, <2>2, <3>1, <1>2 DEF ShowsOK, Live
  <2>5. CASE ~Live(t)
    BY <2>1, <2>2, <2>5 DEF ShowsOK, Live
  <2> QED
    BY <2>3, <2>4, <2>5
<1> QED
    BY <1>4, <1>5, <1>6, <1>7 DEF SessionInv, RequestInv, HashInv, ShowsInv

-----------------------------------------------------------------------------
\* Every step keeps the invariant.
LEMMA InvNext == SessionInv /\ [SessionNext]_sessionVars => SessionInv'
<1> SUFFICES ASSUME SessionInv, [SessionNext]_sessionVars PROVE SessionInv'
    OBVIOUS
<1>1. ASSUME SessionTick PROVE SessionInv'
    BY <1>1, TickKeeps
<1>2. ASSUME NEW p \in Phones, SendCode(p) PROVE SessionInv'
    BY <1>2, SendCodeKeeps
<1>3. ASSUME NEW b \in Tabs, Login(b) PROVE SessionInv'
    BY <1>3, FindUserKeeps, RegisterKeeps, WriteSessionKeeps, CutLoginKeeps DEF Login
<1>4. ASSUME NEW b \in Tabs, Refuse(b) PROVE SessionInv'
    BY <1>4, RefuseKeeps
<1>5. ASSUME NEW r \in Requests, Serve(r) PROVE SessionInv'
    BY <1>5, ReadSessionKeeps, ExtendKeeps, FailExtendKeeps, UpdateUserKeeps,
       RefreshSessionKeeps, CutRefreshKeeps DEF Serve
<1>6. ASSUME UNCHANGED sessionVars PROVE SessionInv'
    BY <1>6 DEF sessionVars, SessionInv, SessionTypeOK, TabInv, TabOK, RequestInv, RequestOK,
                HashInv, HashOK, ShowsInv, ShowsOK, Live
<1> QED
    BY <1>1, <1>2, <1>3, <1>4, <1>5, <1>6 DEF SessionNext

\* What the invariant says of hashes and requests is what the properties ask.
LEMMA InvImplies ==
    SessionInv => /\ SessionTypeOK /\ SessionsAreWhole
                  /\ ExtendedSessionsLast /\ SessionShowsNick
<1> SUFFICES ASSUME SessionInv
             PROVE  SessionTypeOK /\ SessionsAreWhole /\ ExtendedSessionsLast /\ SessionShowsNick
    OBVIOUS
<1>1. SessionTypeOK /\ SessionsAreWhole
    BY DEF SessionInv, HashInv, HashOK, SessionsAreWhole
<1>2. ExtendedSessionsLast
  <2> SUFFICES ASSUME NEW r \in Requests, request[r].pc \in {"table", "hash"}, request[r].hit
               PROVE  /\ Live(request[r].token)
                      /\ session[request[r].token].ttl >= Life - request[r].age
    BY DEF ExtendedSessionsLast
  <2>1. /\ session[request[r].token].ttl >= Life - request[r].age
        /\ request[r].token \in Tokens
    BY DEF SessionInv, SessionTypeOK, RequestInv, RequestOK
  <2>2. request[r].age \in 0..MaxAge /\ session[request[r].token].ttl \in 0..Forever
    BY <2>1, SessionFields DEF SessionInv
  <2> QED
    BY <2>1, <2>2, SessionTimes DEF Live, Forever
<1>3. SessionShowsNick
    BY DEF SessionInv, ShowsInv, ShowsOK, SessionShowsNick
<1> QED
    BY <1>1, <1>2, <1>3

\* The invariant holds in every reachable state.
LEMMA Invariant == SessionSpec => []SessionInv
<1>1. SessionInit => SessionInv
    BY InvInit
<1>2. SessionInv /\ [SessionNext]_sessionVars => SessionInv'
    BY InvNext
<1> QED
    BY <1>1, <1>2, PTL DEF SessionSpec

-----------------------------------------------------------------------------
\* Users, codes, hashes, tabs and requests keep their types: in particular no
\* request outlives MaxAge and no TTL exceeds what the code ever sets.
THEOREM SessionTypes == SessionSpec => []SessionTypeOK
<1>1. SessionInv => SessionTypeOK
    BY InvImplies
<1> QED
    BY <1>1, Invariant, PTL

\* HSET without id or without an end happens only after an EXPIRE that came
\* too late or never: every other hash has an owner and at most Life to live.
THEOREM HashesAreWhole == SessionSpec => []SessionsAreWhole
<1>1. SessionInv => SessionsAreWhole
    BY InvImplies
<1> QED
    BY <1>1, Invariant, PTL

\* TokenRefresh before the handler is enough: what it extended is still there
\* when UpdateProfile refreshes it.
THEOREM ExtensionLasts == SessionSpec => []ExtendedSessionsLast
<1>1. SessionInv => ExtendedSessionsLast
    BY InvImplies
<1> QED
    BY <1>1, Invariant, PTL

\* GET /user/me answers with the nickname of tb_user, unless it was changed
\* from several places or half way.
THEOREM MeIsCurrent == SessionSpec => []SessionShowsNick
<1>1. SessionInv => SessionShowsNick
    BY InvImplies
<1> QED
    BY <1>1, Invariant, PTL

=============================================================================
