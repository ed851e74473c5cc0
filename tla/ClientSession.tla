--------------------------- MODULE ClientSession ---------------------------
(***************************************************************************)
(* One browser tab of the web client and the server it talks to through    *)
(* the Gateway: AuthState (restore, silent refresh, login, logout, ...),   *)
(* the browser's storage, the TokenExpiryGuard, the 401 interceptor and    *)
(* the retry loop of the HTTP client.                                      *)
(*                                                                         *)
(* The tab is single threaded: a task runs from one await to the next.     *)
(* What each await waits for (the network, a timer, the poll of another    *)
(* task's refresh) is a step of its own.  A task spawned in a component is *)
(* dropped where it stands when the component is unmounted, and the guard's *)
(* resource is dropped and started again when a signal it read is set;     *)
(* both are what Dioxus does (external).                                   *)
(***************************************************************************)
EXTENDS Gateway

CONSTANTS
    JwtLife,        \* jwt_expiry_seconds
    RememberLife,   \* jwt_remember_expiry_seconds
    RefreshLife,    \* refresh_token_expiry_seconds
    MaxRetries,     \* ClientConfig::max_retries
    Polls,          \* how often a caller polls a refresh under way (60)
    TimerMax,       \* the longest delay the browser's timer can wait
    Framework,      \* "axum" or "salvo": how the server was built
    FailOpen,       \* RateLimitConfig::fail_open
    Role,           \* the role of the user
    Ip, Email,      \* the address of the browser, the user's email
    MaxNow,         \* bound on the clock
    MaxOps,         \* bound on what the user does
    MaxFaults       \* bound on the calls that meet a fault

ASSUME BrowserIsKnown == Ip # None /\ Email \notin {None, "none", "broken"}

ASSUME RefreshedTokensLast == RememberLife \in Nat /\ TimerMax \in Nat /\ Leeway < RememberLife

VARIABLES
    tab,            \* the signals of AuthState, the token of Client, whether a
                    \* resource tracks what it reads after an await (tracks),
                    \* and, as history, the expiry that was too far off when
                    \* the guard last set its timer (missed; 0 if none)
    store,          \* sessionStorage webshelf_jwt and the webshelf_exp cookie
    jar,            \* the httpOnly cookies: webshelf_jwt, webshelf_refresh
    server,         \* the user's token_version, refresh row, last row issued
    task,           \* the tasks of the tab
    dirty,          \* the guard's resource has been told to start again
    ops,            \* what the user has done so far
    faults,         \* the faults so far, those of a call's retries not counted
    served          \* history: admissions of each limiter key in a window

vars == <<now, hits, tab, store, jar, server, task, dirty, ops, faults, served>>

Tasks == {"restore", "guard", "page", "user"}

Max2(a, b) == IF a > b THEN a ELSE b

Idle == [pc |-> "idle", http |-> "none", ans |-> None, tries |-> 0, cont |-> "none",
         n |-> 0, exp |-> 0, remember |-> FALSE, bearer |-> None]

\* The endpoints of Client: path below /api, and method.
Endpoint(pc) ==
    LET auth(e) == [path |-> <<"public", "auth", e>>, method |-> "POST"]
    IN  CASE pc = "refresh" -> auth("refresh")
          [] pc = "login" -> auth("login")
          [] pc = "reset" -> auth("reset-password")
          [] pc \in {"logout", "interceptLogout", "guardLogout"} -> auth("logout")
          [] pc \in {"me", "meAgain", "loginMe", "persistMe"} ->
                 [path |-> <<"users", "me">>, method |-> "GET"]
          [] pc = "logoutAll" -> [path |-> <<"users", "me", "logout-all">>, method |-> "POST"]
          [] pc = "password" -> [path |-> <<"users", "me", "password">>, method |-> "POST"]
          [] pc = "page" -> [path |-> <<"users">>, method |-> "GET"]

\* request_no_auth and request_with_auth: a task calls the client.  The
\* header holds the token of that moment, in every retry too; the browser
\* adds the cookies when it sends.
Call(pc, tb) ==
    [Idle EXCEPT !.pc = pc, !.http = "sent",
                 !.bearer = IF Endpoint(pc).path[1] = "public" THEN None
                            ELSE tb.client]

----------------------------------------------------------------------------
(***************************************************************************)
(* Storage.                                                                *)
(***************************************************************************)
clear_token == [jwt |-> None, exp |-> 0, dies |-> 0]

save_token(s, exp, maxAge) == [s EXCEPT !.exp = exp, !.dies = now + maxAge]

save_jwt(s, token) == [s EXCEPT !.jwt = token]

load_token(s) == IF now < s.dies THEN s.exp ELSE 0

\* now + JWT_EXPIRY_LEEWAY_SECS >= exp
Expired(exp) == now + Leeway >= exp

\* AuthState::logout: local state only.
logout(tb) == [tb EXCEPT !.client = None, !.user = FALSE, !.expires = 0]

Result(tb, s, tk) == [tab |-> tb, store |-> s, task |-> tk]

----------------------------------------------------------------------------
(***************************************************************************)
(* try_refresh_async and what its callers do with its answer.              *)
(***************************************************************************)
try_refresh(tb, s, cont, exp) ==
    IF tb.refreshing
    THEN Result(tb, s, [Idle EXCEPT !.pc = "wait", !.cont = cont, !.n = Polls,
                                    !.exp = exp])
    ELSE Result([tb EXCEPT !.refreshing = TRUE], s,
                [Call("refresh", tb) EXCEPT !.cont = cont, !.exp = exp])

\* Mutant: restore returns from a failed refresh without initialized.set(true).
RefreshedForgets(tb, s, cont, exp, ok) ==
    CASE cont = "restore" /\ ok  -> Result(tb, s, [Call("me", tb) EXCEPT !.exp = exp])
      [] cont = "restore" /\ ~ok -> Result(tb, clear_token, Idle)
      [] cont = "again" /\ ok    -> Result(tb, s, Call("meAgain", tb))
      [] cont = "again" /\ ~ok   -> Result([logout(tb) EXCEPT !.initialized = TRUE],
                                           clear_token, Idle)
      [] cont = "guard" /\ ok    -> Result(tb, s, Idle)
      [] cont = "guard" /\ ~ok   -> Result(tb, s, Call("guardLogout", tb))

\* "restore": the first refresh of restore_from_storage_async; "again": the
\* one after get_me was refused; "guard": fire_expiry.
Refreshed(tb, s, cont, exp, ok) ==
    CASE cont = "restore" /\ ok  -> Result(tb, s, [Call("me", tb) EXCEPT !.exp = exp])
      [] cont = "restore" /\ ~ok -> Result([tb EXCEPT !.initialized = TRUE],
                                           clear_token, Idle)
      [] cont = "again" /\ ok    -> Result(tb, s, Call("meAgain", tb))
      [] cont = "again" /\ ~ok   -> Result([logout(tb) EXCEPT !.initialized = TRUE],
                                           clear_token, Idle)
      [] cont = "guard" /\ ok    -> Result(tb, s, Idle)
      [] cont = "guard" /\ ~ok   -> Result(tb, s, Call("guardLogout", tb))

\* The answer of POST /refresh reaches the task that sent it.
refresh_answered(tb, s, tk) ==
    IF tk.ans.st = "ok"
    THEN LET exp == now + RememberLife
         IN  Refreshed([tb EXCEPT !.client = tk.ans.token, !.expires = exp,
                                  !.refreshing = FALSE],
                       save_token(save_jwt(s, tk.ans.token), exp,
                                  Max2(RefreshLife, RememberLife)),
                       tk.cont, tk.exp, TRUE)
    ELSE Refreshed([tb EXCEPT !.refreshing = FALSE], s, tk.cont, tk.exp, FALSE)

----------------------------------------------------------------------------
(***************************************************************************)
(* The code that runs when an answer (after the retries) is at hand.       *)
(***************************************************************************)
is_auth_failure(ans) == ans.st \in {"401", "403"}

\* restore_from_storage_async after GET /users/me.
me_answered(tb, s, tk) ==
    CASE tk.ans.st = "ok" ->
             Result([tb EXCEPT !.user = TRUE, !.initialized = TRUE], s, Idle)
      [] is_auth_failure(tk.ans) /\ tk.pc = "me" -> try_refresh(tb, s, "again", 0)
      [] is_auth_failure(tk.ans) /\ tk.pc = "meAgain" ->
             Result([logout(tb) EXCEPT !.initialized = TRUE], clear_token, Idle)
      [] ~is_auth_failure(tk.ans) /\ tk.ans.st # "ok" /\ tk.pc = "me" ->
             Result([tb EXCEPT !.expires = tk.exp, !.initialized = TRUE], s, Idle)
      [] OTHER ->       \* the token itself names the user
             Result([tb EXCEPT !.user = @ \/ tb.client # None, !.initialized = TRUE],
                    s, Idle)

login_answered(tb, s, tk) ==
    IF tk.ans.st # "ok" THEN Result(tb, s, Idle)
    ELSE LET life == IF tk.remember THEN RememberLife ELSE JwtLife
             signed == [tb EXCEPT !.client = tk.ans.token, !.expires = now + life]
         IN  Result(signed,
                    save_token(save_jwt(s, tk.ans.token), now + life,
                               Max2(IF tk.remember THEN RefreshLife ELSE 0, life)),
                    Call("loginMe", signed))

login_me_answered(tb, s, tk) ==
    CASE tk.ans.st = "ok" -> Result([tb EXCEPT !.user = TRUE], s, Idle)
      [] is_auth_failure(tk.ans) -> Result(logout(tb), clear_token, Idle)
      [] OTHER -> Result(tb, s, Idle)

\* reset_password's submit, then persist_session_async; tk.remember is
\* whether there was a webshelf_exp cookie when the form was submitted.
reset_answered(tb, s, tk) ==
    LET signed == [tb EXCEPT !.client = tk.ans.token, !.expires = tk.ans.token.exp]
    IN  IF tk.ans.st # "ok" THEN Result(tb, s, Idle)
        ELSE Result(signed, s, [Call("persistMe", signed) EXCEPT !.remember = tk.remember])

\* persist_session_async after GET /users/me, called with tk.bearer.
persist_session(tb, s, tk) ==
    IF is_auth_failure(tk.ans) THEN Result(logout(tb), clear_token, Idle)
    ELSE Result([tb EXCEPT !.user = TRUE],
                IF tk.remember
                THEN save_token(save_jwt(s, tk.bearer), tk.bearer.exp,
                                Max2(tk.bearer.exp - now, 0))
                ELSE clear_token,
                Idle)

\* handle_unauth on the answer of a view's request.
handle_unauth(tb, s, tk) ==
    IF tk.ans.st = "401" THEN Result(tb, s, Call("interceptLogout", tb))
                         ELSE Result(tb, s, Idle)

\* change_password's submit: swap_token, or the interceptor, or an error.
swap_token(tb, s, tk) ==
    CASE tk.ans.st = "ok" /\ ~Expired(tk.ans.token.exp) ->
             Result([tb EXCEPT !.client = tk.ans.token, !.expires = tk.ans.token.exp],
                    IF load_token(s) # 0
                    THEN save_token(save_jwt(s, tk.ans.token), tk.ans.token.exp,
                                    tk.ans.token.exp - now)
                    ELSE clear_token,
                    Idle)
      [] tk.ans.st = "ok" /\ Expired(tk.ans.token.exp) ->
             Result(logout(tb), clear_token, Idle)
      [] OTHER -> handle_unauth(tb, s, tk)

Answered(tb, s, tk) ==
    CASE tk.pc = "refresh" -> refresh_answered(tb, s, tk)
      [] tk.pc \in {"me", "meAgain"} -> me_answered(tb, s, tk)
      [] tk.pc = "login" -> login_answered(tb, s, tk)
      [] tk.pc = "loginMe" -> login_me_answered(tb, s, tk)
      [] tk.pc = "reset" -> reset_answered(tb, s, tk)
      [] tk.pc = "persistMe" -> persist_session(tb, s, tk)
      [] tk.pc = "password" -> swap_token(tb, s, tk)
      [] tk.pc = "page" -> handle_unauth(tb, s, tk)
      [] OTHER -> Result(logout(tb), clear_token, Idle)     \* logout_async and its kin

----------------------------------------------------------------------------
(***************************************************************************)
(* The tab: a task's step, and what the framework then drops or restarts.  *)
(***************************************************************************)
\* A resource that has been told to start again does so before its task is
\* polled once more.
Runs(t) == t = "guard" => ~dirty

\* RequireAuth renders the shell, and with it the guard and the pages.
Mounted(tb) == tb.initialized /\ tb.user

Landing == {"login", "loginMe", "reset", "persistMe"}

\* Dioxus drops a task whose component is no longer rendered (external).
Alive(t, tk, tb) ==
    CASE t = "restore" -> TRUE
      [] t = "user" /\ tk.pc \in Landing -> ~Mounted(tb)
      [] OTHER -> Mounted(tb)

\* Task t of the tab takes the step that leaves r.  The guard's resource is
\* told of a new token_expires_at and, if it tracks what it reads after an
\* await, of the refreshing flag.
Step(t, result, pending) ==
    \E r \in {result} :
        LET after == [task EXCEPT ![t] = r.task]
        IN  /\ tab' = r.tab
            /\ store' = r.store
            /\ task' = [u \in Tasks |-> IF Alive(u, after[u], r.tab) THEN after[u] ELSE Idle]
            /\ dirty' = /\ Mounted(r.tab)
                        /\ \/ pending \/ ~Mounted(tab)
                           \/ r.tab.expires # tab.expires
                           \/ tab.tracks /\ r.tab.refreshing # tab.refreshing

Init ==
    /\ now = 0
    /\ hits = [k \in Keys({Ip}, {Email}) |-> NoHits]
    /\ served = [k \in Keys({Ip}, {Email}) |-> 0]
    /\ \/ /\ jar = [jwt |-> None, refresh |-> 0]          \* nothing is stored
          /\ store = clear_token
          /\ server = [ver |-> 0, row |-> 0, issued |-> 1]
       \/ \E exp \in {Leeway, JwtLife, RememberLife}, rem \in BOOLEAN, reload \in BOOLEAN, row \in {0, 1} :
             LET token == [exp |-> exp, ver |-> 0, rem |-> rem]
             IN  /\ rem \/ (reload /\ row = 0 /\ exp <= JwtLife)
                 /\ jar = [jwt |-> token, refresh |-> IF rem THEN 1 ELSE 0]
                 /\ store = [jwt |-> IF reload THEN token ELSE None, exp |-> exp,
                             dies |-> IF rem THEN RefreshLife ELSE exp]
                 /\ server = [ver |-> 0, row |-> row, issued |-> 1]
    /\ tab \in [client : {None}, expires : {0}, user : {FALSE}, initialized : {FALSE},
                refreshing : {FALSE}, tracks : BOOLEAN, missed : {0}]
    /\ task = [t \in Tasks |-> IF t = "restore" THEN [Idle EXCEPT !.pc = "boot"] ELSE Idle]
    /\ dirty = FALSE
    /\ ops = 0
    /\ faults = 0

\* restore_from_storage_async up to its first await.
Boot ==
    /\ task["restore"].pc = "boot"
    /\ LET tb == [tab EXCEPT !.client = FirstOf(store.jwt, @)]
           exp == load_token(store)
       IN  Step("restore",
                CASE exp = 0 -> Result([tb EXCEPT !.initialized = TRUE], store, Idle)
                  [] exp # 0 /\ Expired(exp) -> try_refresh(tb, store, "restore", exp)
                  [] OTHER -> Result([tb EXCEPT !.expires = exp], store,
                                     [Call("me", tb) EXCEPT !.exp = exp]),
                dirty)
    /\ UNCHANGED <<now, hits, jar, server, ops, faults, served>>

\* Mutant: the guard leaves a refresh under way to whoever started it.
FireExpiryOnce(tb) ==
    IF tb.expires # 0 /\ Expired(tb.expires) /\ ~tb.refreshing
    THEN try_refresh(tb, store, "guard", 0)
    ELSE Result(tb, store, Idle)

\* fire_expiry up to its first await.
fire_expiry(tb) ==
    IF tb.expires # 0 /\ Expired(tb.expires)
    THEN try_refresh(tb, store, "guard", 0)
    ELSE Result(tb, store, Idle)

\* The guard's resource starts again; the task it had is dropped where it
\* stands, refreshing or not.  A delay the browser's timer cannot hold makes
\* it fire at once (external), long before the token expires.
GuardRestart ==
    /\ dirty
    /\ LET long == tab.expires - now > TimerMax
           wake == IF long THEN now ELSE tab.expires
           tb == [tab EXCEPT !.missed = IF long THEN tab.expires ELSE 0]
       IN  Step("guard",
                IF tab.expires = 0 \/ Expired(tab.expires) THEN fire_expiry(tb)
                ELSE Result(tb, store, [Idle EXCEPT !.pc = "sleep", !.n = wake]),
                FALSE)
    /\ UNCHANGED <<now, hits, jar, server, ops, faults, served>>

GuardTimer ==
    /\ Runs("guard")
    /\ task["guard"].pc = "sleep"
    /\ now >= task["guard"].n
    /\ Step("guard", fire_expiry(tab), dirty)
    /\ UNCHANGED <<now, hits, jar, server, ops, faults, served>>

\* try_refresh_async while another refresh is under way: one sleep of the poll.
WaitPoll(t) ==
    LET tk == task[t]
    IN  /\ Runs(t)
        /\ tk.pc = "wait"
        /\ Step(t,
                CASE ~tab.refreshing ->
                       Refreshed(tab, store, tk.cont, tk.exp,
                                 tab.expires # 0 /\ ~Expired(tab.expires))
                  [] tab.refreshing /\ tk.n > 1 ->
                       Result(tab, store, [tk EXCEPT !.n = @ - 1])
                  [] OTHER -> Refreshed(tab, store, tk.cont, tk.exp, FALSE),
                dirty)
        /\ UNCHANGED <<now, hits, jar, server, ops, faults, served>>

----------------------------------------------------------------------------
(***************************************************************************)
(* The handlers, as the tab sees them: an answer, with the cookies it sets *)
(* and what it leaves of the user's session in the database (Sessions and  *)
(* ResetCodes model them in full).                                         *)
(***************************************************************************)
Fail(st) == [ans |-> [st |-> st, token |-> None, set |-> None], server |-> server]

clear_auth_cookies == [jwt |-> None, refresh |-> 0, exp |-> 0, age |-> 0]

token_cookies(token, row, age) == [jwt |-> token, refresh |-> row, exp |-> token.exp,
                                   age |-> age]

\* An answer that signs the browser in.
Grant(life, rem, row, sv) ==
    LET token == [exp |-> now + life, ver |-> sv.ver, rem |-> rem]
    IN  [ans |-> [st |-> "ok", token |-> token,
                  set |-> token_cookies(token, row,
                                        Max2(IF row = 0 THEN 0 ELSE RefreshLife, life))],
         server |-> sv]

Revoked == [server EXCEPT !.ver = @ + 1, !.row = 0]

\* What the handler of e may answer to the request of tk.
Handle(e, tk) ==
    LET new == server.issued + 1
        reissued == [server EXCEPT !.row = new, !.issued = new]
        life(rem) == IF rem THEN RememberLife ELSE JwtLife
    IN  CASE e = "refresh" ->
               IF jar.refresh # 0 /\ jar.refresh = server.row
               THEN {Grant(RememberLife, TRUE, new, reissued)} ELSE {Fail("401")}
          [] e = "login" ->
               {Fail("401"), IF tk.remember THEN Grant(life(TRUE), TRUE, new, reissued)
                                            ELSE Grant(life(FALSE), FALSE, 0, server)}
          [] e = "logout" ->
               {[ans |-> [st |-> "ok", token |-> None, set |-> clear_auth_cookies],
                 server |-> IF jar.refresh # 0 /\ jar.refresh = server.row
                            THEN [server EXCEPT !.row = 0] ELSE server]}
          [] e = "logout_all" ->
               {[ans |-> [st |-> "ok", token |-> None, set |-> clear_auth_cookies],
                 server |-> Revoked]}
          [] e = "change_my_password" ->
               LET rem == FirstOf(tk.bearer, jar.jwt).rem
               IN  {Fail("400"), Grant(life(rem), rem, 0, Revoked)}
          [] e = "reset-password" -> {Fail("400"), Grant(JwtLife, FALSE, 0, Revoked)}
          [] OTHER -> {[ans |-> [st |-> "ok", token |-> None, set |-> None],
                        server |-> server]}

\* What the browser sends for tk; its address may come from a proxy's header.
Request(tk) ==
    [bearer |-> tk.bearer,
     cookie |-> IF jar.jwt # None /\ (jar.jwt # None => now < jar.jwt.exp)
                THEN jar.jwt ELSE None,
     forwarded |-> None, real |-> None, peer |-> Ip,
     body |-> IF tk.pc = "login" THEN Email ELSE "none",
     path |-> Endpoint(tk.pc).path, method |-> Endpoint(tk.pc).method]

Chain(route, r, redis) ==
    LET lim == Limiter(TRUE, redis, FailOpen)
    IN  IF Framework = "axum" THEN AxumChain(route, r, server.ver, Role, lim, hits)
                              ELSE SalvoChain(route, r, server.ver, Role, lim, hits)

RouteOf(r) == IF Framework = "axum" THEN AxumRoute(r) ELSE SalvoRoute(r)

\* The limiter's keys of a request to e.
KeysOf(e) == {k \in DOMAIN hits : k[1] = e}

\* A fault strikes a call, and may last as long as its retries.
Fault(tk) == /\ faults' = IF tk.tries = 0 THEN faults + 1 ELSE faults
             /\ faults' <= MaxFaults

\* The request of t reaches the server, which answers; the answer may be
\* lost on its way back, and Redis may be unreachable.
Serve(t) ==
    LET tk == task[t]
    IN  /\ tk.http = "sent"
        /\ \E r \in {Request(tk)} : \E route \in {RouteOf(r)}, lost \in BOOLEAN :
             LET e == route.handler
             IN  \E redis \in IF e \in Public THEN BOOLEAN ELSE {TRUE} :
                 \E c \in {Chain(route, r, redis)} :
                 \E o \in IF c.verdict = "next" THEN Handle(e, tk) ELSE {Fail(c.verdict)} :
                  /\ IF redis /\ ~lost THEN faults' = faults ELSE Fault(tk)
                  /\ hits' = c.hits
                  /\ served' = [k \in DOMAIN served |->
                        IF k \in KeysOf(e) /\ redis /\ c.verdict = "next"
                        THEN served[k] + 1 ELSE served[k]]
                  /\ server' = o.server
                  /\ task' = [task EXCEPT ![t].http = "answered",
                                          ![t].ans = IF lost THEN Fail("net").ans ELSE o.ans]
        /\ UNCHANGED <<now, tab, store, jar, dirty, ops>>

\* The request never reaches the server, or the server fails.
LoseRequest(t) ==
    /\ task[t].http = "sent"
    /\ Fault(task[t])
    /\ task' = [task EXCEPT ![t].http = "answered", ![t].ans = Fail("net").ans]
    /\ UNCHANGED <<now, hits, tab, store, jar, server, dirty, ops, served>>

should_retry(ans) == ans.st \in {"net", "429", "500"}

\* send_and_parse sends again after its backoff.
Retry(t) ==
    /\ Runs(t)
    /\ task[t].http = "answered"
    /\ should_retry(task[t].ans)
    /\ task[t].tries < MaxRetries
    /\ task' = [task EXCEPT ![t].http = "sent", ![t].ans = None, ![t].tries = @ + 1]
    /\ UNCHANGED <<now, hits, tab, store, jar, server, dirty, ops, faults, served>>

\* The browser stores the answer's cookies, and the task goes on.
Deliver(t) ==
    LET tk == task[t]
        set == tk.ans.set
    IN  /\ Runs(t)
        /\ tk.http = "answered"
        /\ ~(should_retry(tk.ans) /\ tk.tries < MaxRetries)
        /\ IF set = None
           THEN jar' = jar /\ Step(t, Answered(tab, store, tk), dirty)
           ELSE /\ jar' = [jwt |-> set.jwt, refresh |-> set.refresh]
                /\ Step(t, Answered(tab, save_token(store, set.exp, set.age), tk), dirty)
        /\ UNCHANGED <<now, hits, server, ops, faults, served>>

----------------------------------------------------------------------------
(***************************************************************************)
(* The user, the user's other devices, and the clock.                      *)
(***************************************************************************)
UserCalls(pc, remember) ==
    /\ ops < MaxOps
    /\ task["user"].pc = "idle"
    /\ ops' = ops + 1
    /\ task' = [task EXCEPT !["user"] = [Call(pc, tab) EXCEPT !.remember = remember]]
    /\ UNCHANGED <<now, hits, tab, store, jar, server, dirty, faults, served>>

SubmitLogin == \E remember \in BOOLEAN : /\ tab.initialized /\ ~tab.user
                                         /\ UserCalls("login", remember)

SubmitReset == /\ tab.initialized /\ ~tab.user
               /\ UserCalls("reset", load_token(store) # 0)

ClickLogout == Mounted(tab) /\ UserCalls("logout", FALSE)

ClickLogoutAll == Mounted(tab) /\ UserCalls("logoutAll", FALSE)

SubmitPassword == Mounted(tab) /\ UserCalls("password", FALSE)

\* A view loads its data.
LoadPage ==
    /\ ops < MaxOps
    /\ Mounted(tab)
    /\ task["page"].pc = "idle"
    /\ ops' = ops + 1
    /\ task' = [task EXCEPT !["page"] = Call("page", tab)]
    /\ UNCHANGED <<now, hits, tab, store, jar, server, dirty, faults, served>>

\* The sessions are revoked from another device, once.
RevokedElsewhere ==
    /\ server.ver = 0
    /\ server' = Revoked
    /\ UNCHANGED <<now, hits, tab, store, jar, task, dirty, ops, faults, served>>

Tick ==
    /\ now < MaxNow
    /\ now' = now + 1
    /\ hits' = Expire(hits, now + 1)
    /\ served' = [k \in DOMAIN served |-> IF hits[k].until <= now + 1 THEN 0 ELSE served[k]]
    /\ UNCHANGED <<tab, store, jar, server, task, dirty, ops, faults>>

\* What the tab, the network and the server do by themselves.
System ==
    \/ Boot \/ GuardRestart \/ GuardTimer
    \/ \E t \in Tasks : WaitPoll(t) \/ Serve(t) \/ LoseRequest(t) \/ Retry(t) \/ Deliver(t)

Environment ==
    \/ SubmitLogin \/ SubmitReset \/ ClickLogout \/ ClickLogoutAll \/ SubmitPassword
    \/ LoadPage \/ RevokedElsewhere \/ Tick

Next == System \/ Environment

Spec == Init /\ [][Next]_vars

(***************************************************************************)
(* Some request is answered or fails, or the tab's event loop runs some    *)
(* task, as long as there is one: no task is promised its turn.  Nothing   *)
(* is assumed of the user, of the other devices and of the clock.          *)
(***************************************************************************)
FairSpec == Spec /\ WF_vars(System)

----------------------------------------------------------------------------
(***************************************************************************)
(* Properties.                                                             *)
(***************************************************************************)

\* Whatever is stored, whatever the network loses and whatever the server
\* answers, the restoring of the session ends: RequireAuth and the login
\* page render nothing until initialized is set.
RestoreFinishes == <>(tab.initialized)

\* A signed-in tab whose token has run out is either renewed or signed out:
\* no dropped guard, stuck refreshing flag or lost answer leaves the shell
\* open on an expired session.  Except a session that had more than TimerMax
\* to go when the guard last set its timer, as a remembered or refreshed one
\* has (30 days are more than 2^31 - 1 ms): the timer fires at once, the
\* guard finds nothing expired and is not started again, and the shell stays
\* open until a request is answered 401.
ExpiredSessionIsSettled ==
    (Mounted(tab) /\ tab.expires \notin {0, tab.missed} /\ now >= tab.expires)
        ~> (~tab.user \/ now < tab.expires)

\* No more requests than the limit reach a handler in one window of a
\* limiter key, retries included, as long as Redis answers.
LimiterBudget ==
    \A k \in DOMAIN served :
        served[k] <= IF k[2] = "ip" THEN IpMax[k[1]] ELSE LoginEmailMax

\* Where the frameworks' CORS differ: exactly when an origin is a header
\* value without a scheme, or has a scheme and is no header value.
OriginsAgree ==
    \A allowed \in SUBSET Origin, env \in {"development", "production"} :
        configure_cors(allowed, env) = CorsConfig(allowed, env)
            <=> \A o \in allowed : o.header = o.scheme

\* The limiters and the roles a request to the route may meet: fail_open
\* matters only while Redis does not answer.
Meets(route) ==
    IF route.handler \in Public
    THEN {Limiter(TRUE, TRUE, TRUE), Limiter(FALSE, TRUE, TRUE),
          Limiter(TRUE, FALSE, TRUE), Limiter(TRUE, FALSE, FALSE)} \X {Role}
    ELSE {Limiter(TRUE, TRUE, TRUE)} \X {"user", "admin", "system"}

\* The two frameworks' middlewares are one gateway: for every request under
\* way, whatever the proxy's headers, the body, the role in the token, the
\* state of the limiter and of Redis, failing open or closed, they find the
\* same handler, give the same verdict and leave the same counters.  They let
\* the same origins in, unless the configuration names an origin that has no
\* scheme but is a header value (axum lets it in, salvo does not) or that has
\* a scheme and is no header value (salvo lets it in, axum does not).
FrameworksAgree ==
    /\ \A t \in {u \in Tasks : task[u].http = "sent" /\ task[u].tries = 0} :
        \A sent \in {Request(task[t])} :
        \A axum \in {AxumRoute(sent)}, salvo \in {SalvoRoute(sent)} :
            /\ axum = salvo
            /\ \A ip \in {None, Ip}, body \in {"none", "broken", Email}, m \in Meets(axum) :
                LET r == [sent EXCEPT !.forwarded = ip, !.peer = None, !.body = body]
                IN  AxumChain(axum, r, server.ver, m[2], m[1], hits)
                        = SalvoChain(salvo, r, server.ver, m[2], m[1], hits)
    /\ OriginsAgree
=============================================================================
