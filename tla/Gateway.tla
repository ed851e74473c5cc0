------------------------------ MODULE Gateway ------------------------------
(***************************************************************************)
(* What stands between a request and its handler: the route table, the     *)
(* Redis fixed-window rate limiter, JWT authentication and the admin       *)
(* guard.  The server is built on axum or on salvo, and each framework has *)
(* its own translation of these middlewares; both are modelled, each from  *)
(* its own crate, so that they can be compared.                            *)
(*                                                                         *)
(* A middleware is an operator from a request and the limiter's counters   *)
(* to a verdict ("next" or a status) and the counters it leaves.           *)
(***************************************************************************)
EXTENDS Integers, FiniteSets, Sequences

CONSTANTS
    None,           \* an absent value
    IpMax,          \* ip_max_requests of each public endpoint
    LoginEmailMax,  \* email_max_requests of /login, the only one that has it
    Window,         \* ip_window_seconds and email_window_seconds
    Leeway          \* Validation::leeway of the server

ASSUME LimitsAreNatural == /\ \A e \in DOMAIN IpMax : IpMax[e] \in Nat
                           /\ "login" \in DOMAIN IpMax
                           /\ LoginEmailMax \in Nat
                           /\ Window \in Nat \ {0}
                           /\ Leeway \in Nat

VARIABLES
    now,            \* the clock, in ticks
    hits            \* the limiter's Redis keys: [n, until] of each counter

Public == DOMAIN IpMax

\* make_guard: the limits of an endpoint under /api/public/auth.
make_guard(e) ==
    [key_prefix |-> e, ip_max_requests |-> IpMax[e],
     email_max_requests |-> IF e = "login" THEN LoginEmailMax ELSE None]

ASSUME NoneIsAbsent == None \notin Nat /\ \A e \in Public : make_guard(e) # None

Route(path, method, handler, admin) ==
    [path |-> path, method |-> method, handler |-> handler, admin |-> admin]

Id == "{id}"

\* The routes below /api, in the order they are registered; the last seven
\* are behind apply_admin_guard.
api_routes ==
    << Route(<<"health">>, "GET", "health_check", FALSE),
       Route(<<"users", "me">>, "GET", "get_me", FALSE),
       Route(<<"users", "me", "password">>, "POST", "change_my_password", FALSE),
       Route(<<"users", "me", "logout-all">>, "POST", "logout_all", FALSE),
       Route(<<"users">>, "GET", "list_users", TRUE),
       Route(<<"users">>, "POST", "create_user", TRUE),
       Route(<<"users", Id>>, "GET", "get_user", TRUE),
       Route(<<"users", Id>>, "PUT", "update_user", TRUE),
       Route(<<"users", Id>>, "DELETE", "delete_user", TRUE),
       Route(<<"users", Id, "balance">>, "PUT", "set_balance", TRUE),
       Route(<<"users", Id, "balance", "adjust">>, "POST", "adjust_balance", TRUE) >>

Routes == {api_routes[i] : i \in DOMAIN api_routes}

Matches(pattern, path) ==
    /\ Len(pattern) = Len(path)
    /\ \A i \in DOMAIN path : pattern[i] \in {path[i], Id}

NotFound == Route(<<>>, "GET", "none", FALSE)

\* An endpoint under /api/public/auth, which has a router of its own.
PublicRoute(r) == Route(r.path, r.method, r.path[3], FALSE)

\* axum looks for the most literal pattern first, then for the method.
AxumRoute(r) ==
    LET found == {a \in Routes : Matches(a.path, r.path)}
        literal == {a \in found : r.path = a.path}
        best == {a \in (IF literal # {} THEN literal ELSE found) : a.method = r.method}
    IN  IF r.path[1] = "public" THEN PublicRoute(r)
        ELSE IF best = {} THEN NotFound ELSE CHOOSE a \in best : TRUE

\* salvo takes the first route that was pushed whose path and method match.
SalvoRoute(r) ==
    LET found == {i \in DOMAIN api_routes : /\ Matches(api_routes[i].path, r.path)
                                            /\ api_routes[i].method = r.method}
    IN  CASE r.path[1] = "public" -> PublicRoute(r)
          [] r.path[1] # "public" /\ found = {} -> NotFound
          [] OTHER -> api_routes[CHOOSE i \in found : \A k \in found : i <= k]

Keys(ips, emails) ==
    {<<e, "ip", i>> : e \in Public, i \in ips}
        \union {<<"login", "email", m>> : m \in emails}

NoHits == [n |-> 0, until |-> 0]

(***************************************************************************)
(* RedisRateLimiter::check: one Lua script increments the counter and sets *)
(* its expiry when it was just created.                                    *)
(***************************************************************************)

\* Mutant: the counter is compared before it is incremented.
CheckOffByOne(k, max, h) ==
    [ok |-> h[k].n <= max,
     hits |-> [h EXCEPT ![k] = [n |-> @.n + 1,
                                until |-> IF @.n = 0 THEN now + Window
                                                     ELSE @.until]]]

check(k, max, h) ==
    LET n == h[k].n + 1
    IN  [ok |-> n <= max,
         hits |-> [h EXCEPT ![k] = [n |-> n, until |-> IF n = 1 THEN now + Window
                                                                 ELSE @.until]]]

Verdict(v, h) == [verdict |-> v, hits |-> h]

\* The limiter a server was started with: whether it has one (available),
\* whether Redis answers it now, and RateLimitConfig::fail_open.
Limiter(available, redis, failOpen) ==
    [available |-> available, redis |-> redis, fail_open |-> failOpen]

\* A check and what either middleware does with its three outcomes.
Charge(k, max, lim, h) ==
    IF lim.redis THEN LET c == check(k, max, h)
                      IN  Verdict(IF c.ok THEN "next" ELSE "429", c.hits)
                 ELSE Verdict(IF lim.fail_open THEN "next" ELSE "500", h)

(***************************************************************************)
(* What the middlewares read of a request r.  r.body is the email that a   *)
(* JSON or form body names, "none" for a body that names none, or          *)
(* "broken" for one that cannot be read.                                   *)
(***************************************************************************)
FirstOf(a, b) == IF a # None THEN a ELSE b

extract_client_ip(r) == FirstOf(r.forwarded, r.real)

extract_email_from_body(r) == IF r.body = "none" THEN None ELSE r.body

AxumToken(r) == FirstOf(r.bearer, r.cookie)

\* validate_jwt: signature, issuer and audience are those of issued tokens;
\* the expiry is checked with the leeway.
validate_jwt(token) == now <= token.exp + Leeway

(***************************************************************************)
(* axum.                                                                   *)
(***************************************************************************)
rate_limit_middleware(g, r, lim, h) ==
    LET ip == FirstOf(extract_client_ip(r), r.peer)
        byIp == IF ip = None THEN Verdict("next", h)
                ELSE Charge(<<g.key_prefix, "ip", ip>>, g.ip_max_requests, lim, h)
        email == extract_email_from_body(r)
    IN  IF ~lim.available THEN Verdict("next", h)
        ELSE IF byIp.verdict # "next" \/ g.email_max_requests = None THEN byIp
        ELSE IF r.body = "broken" THEN Verdict("500", byIp.hits)
        ELSE IF email = None THEN byIp
        ELSE Charge(<<g.key_prefix, "email", email>>, g.email_max_requests,
                    lim, byIp.hits)

auth_middleware(e, r, version) ==
    LET token == AxumToken(r)
    IN  IF e = "health_check" THEN "next"
        ELSE IF token = None THEN "401"
        ELSE IF validate_jwt(token) /\ token.ver = version THEN "next" ELSE "401"

require_admin(u) == IF u = None THEN "401"
                    ELSE IF u \notin {"admin", "system"} THEN "403" ELSE "next"

\* UnifiedRequest::from_request: the body is read before the handler runs.
from_request(r) == IF r.method # "GET" /\ r.body = "broken" THEN "400" ELSE "next"

(***************************************************************************)
(* salvo.  The limiter leaves the body it read in the Depot (CachedBody),  *)
(* where the handler finds it.                                             *)
(***************************************************************************)
SalvoToken(r) == IF r.bearer # None THEN r.bearer ELSE r.cookie

RateLimitMiddleware(g, r, lim, h) ==
    LET header == extract_client_ip(r)
        ip == IF header # None THEN header ELSE r.peer
        step1 == IF ip # None
                 THEN Charge(<<g.key_prefix, "ip", ip>>, g.ip_max_requests, lim, h)
                 ELSE Verdict("next", h)
        step2 == LET email == extract_email_from_body(r)
                 IN  CASE r.body = "broken" -> Verdict("500", step1.hits)
                       [] r.body # "broken" /\ email # None ->
                            Charge(<<g.key_prefix, "email", email>>,
                                   g.email_max_requests, lim, step1.hits)
                       [] OTHER -> step1
    IN  CASE ~lim.available -> Verdict("next", h)
          [] lim.available /\ step1.verdict = "next" /\ g.email_max_requests # None -> step2
          [] OTHER -> step1

\* Mutant: the salvo middleware consults the cookie before the header.
SalvoCookieFirst(e, r, version) ==
    LET token == FirstOf(r.cookie, r.bearer)
    IN  IF e # "health_check" /\ (token # None => ~(validate_jwt(token) /\ token.ver = version))
        THEN "401" ELSE "next"

AuthMiddleware(e, r, version) ==
    LET token == SalvoToken(r)
    IN  IF e # "health_check" /\ (token # None => ~(validate_jwt(token) /\ token.ver = version))
        THEN "401" ELSE "next"

RequireAdmin(u) == CASE u = None -> "401"
                     [] u # None /\ u # "admin" /\ u # "system" -> "403"
                     [] OTHER -> "next"

\* UnifiedHandler::handle: a body cached by the limiter is not read again.
UnifiedHandler(g, r, available) ==
    LET cached == available /\ g # None /\ g.email_max_requests # None
    IN  IF r.method # "GET" /\ ~cached /\ r.body = "broken" THEN "400" ELSE "next"

(***************************************************************************)
(* The chain of an endpoint, in the order build_app_router composes it.    *)
(***************************************************************************)
\* The role of a JWT that passed, as its claims have it.
AuthUser(v, role) == IF v = "next" THEN role ELSE None

AxumChain(route, r, version, role, lim, h) ==
    LET e == route.handler
    IN  IF e \in Public
        THEN LET l == rate_limit_middleware(make_guard(e), r, lim, h)
             IN  IF l.verdict = "next" THEN Verdict(from_request(r), l.hits) ELSE l
        ELSE LET a == auth_middleware(e, r, version)
                 b == IF route.admin THEN require_admin(AuthUser(a, role)) ELSE "next"
             IN  Verdict(IF e = "none" THEN "404"
                         ELSE IF a # "next" THEN a
                         ELSE IF b # "next" THEN b ELSE from_request(r), h)

SalvoChain(route, r, version, role, lim, h) ==
    LET e == route.handler
    IN  IF e \in Public
        THEN LET l == RateLimitMiddleware(make_guard(e), r, lim, h)
             IN  IF l.verdict # "next" THEN l
                 ELSE Verdict(UnifiedHandler(make_guard(e), r, lim.available), l.hits)
        ELSE LET a == AuthMiddleware(e, r, version)
                 b == IF route.admin THEN RequireAdmin(AuthUser(a, role)) ELSE "next"
             IN  Verdict(CASE e = "none" -> "404"
                           [] e # "none" /\ a # "next" -> a
                           [] e # "none" /\ a = "next" /\ b # "next" -> b
                           [] OTHER -> UnifiedHandler(None, r, lim.available), h)

(***************************************************************************)
(* CORS: the origins a browser may call from.  Of an origin of the         *)
(* configuration the frameworks look at different things: axum at whether  *)
(* it parses as a header value, salvo at whether it starts with http://    *)
(* or https://.                                                            *)
(***************************************************************************)
Origin == [header : BOOLEAN, scheme : BOOLEAN]

Cors(any, origins) == [any |-> any, origins |-> origins,
                       methods |-> IF any \/ origins # {} THEN "all" ELSE "OPTIONS"]

configure_cors(allowed, env) ==
    LET origins == {o \in allowed : o.header}
    IN  IF allowed = {} \/ origins = {}
        THEN IF env # "development" THEN Cors(FALSE, {}) ELSE Cors(TRUE, {})
        ELSE Cors(FALSE, origins)

CorsConfig(allowed, env) ==
    LET valid == {o \in allowed : o.scheme}
    IN  CASE allowed = {} -> Cors(env = "development", {})
          [] allowed # {} /\ valid = {} /\ env = "development" -> Cors(TRUE, {})
          [] OTHER -> Cors(FALSE, valid)

\* A counter whose time has come is gone.
Expire(h, t) == [k \in DOMAIN h |-> IF h[k].until <= t THEN NoHits ELSE h[k]]
=============================================================================
