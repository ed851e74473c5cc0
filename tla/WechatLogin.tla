----------------------------- MODULE WechatLogin -----------------------------
(***************************************************************************)
(* Captcha login with a WeChat official account.  A user's message makes   *)
(* the callback handler generate a captcha in Redis and tell it to the     *)
(* user; wx_login and login present a code, which the reverse index turns  *)
(* into an openid, verify_for_openid compares and consumes, and the users  *)
(* table turns into an account.  One step is one Redis command or script,  *)
(* one SQL statement or one call of the WeChat API; each may fail.         *)
(***************************************************************************)
EXTENDS Integers, FiniteSets

CONSTANTS OpenIds,     \* WeChat users
          Users,       \* accounts
          Codes,       \* captcha codes; two captchas may get the same one
          Messages,    \* callbacks that WeChat delivers, retries included
          Logins,      \* login requests
          MaxFailed,   \* max_failed_attempts
          WxOpenid,    \* WxOpenid[u]: users.wx_openid, which no operation of the server changes
          None

(* A stored captcha, with the message that made it and its sender, and     *)
(* what a login has read                                                   *)
Captcha == [code : Codes, by : Messages, of : OpenIds]
Reading == [of : OpenIds, code : Codes, captcha : Captcha \cup {None}]

ASSUME WechatAssumption ==
  /\ MaxFailed \in Nat \ {0}
  /\ Messages \cap Logins = {}
  /\ None \notin OpenIds \cup Users \cup Codes \cup Messages \cup Logins
  /\ None \notin Captcha /\ None \notin Reading
  /\ None \notin Users \X (Users \cup {None})
  /\ WxOpenid \in [Users -> OpenIds \cup {None}]
  /\ \A u, v \in Users : u # v /\ WxOpenid[u] # None => WxOpenid[u] # WxOpenid[v]

VARIABLES
  enabled,    \* whether init_wechat_components built the components
  captcha,    \* captcha[o]: wechat:{account}:captcha:{openid}, with the message it is for
  index,      \* index[c]: wechat:{account}:code:{code}
  attempts,   \* attempts[o]: the failed-attempts counter, 0 when absent
  access,     \* whether an access token for the WeChat API is cached
  pc,         \* where each request is
  new,        \* new[m]: the captcha a message stored
  told,       \* told[m]: the code its sender was shown
  seen,       \* seen[l]: the openid the index gave, the code presented, the captcha read
  took,       \* took[l]: the captcha it consumed
  user,       \* user[l]: the account bound to the openid, and the one that logs in
  row,        \* row[u]: the login whose refresh token is stored, if any
  session     \* session[l]: the account whose cookies the login answered

redis == <<captcha, index, attempts>>
message == <<access, new, told>>
login == <<seen, took, user, row, session>>
vars == <<enabled, redis, message, pc, login>>

Requests == Messages \cup Logins
Labels == {"start", "index", "clear", "tell", "token", "send", "peek", "incr",
           "find_index", "del_index", "del_key", "del_attempts", "consume",
           "reset", "bound", "password", "match", "issue", "refused", "busy", "done"}

TypeOK ==
  /\ enabled \in BOOLEAN
  /\ captcha \in [OpenIds -> Captcha \cup {None}]
  /\ index \in [Codes -> OpenIds \cup {None}]
  /\ attempts \in [OpenIds -> Nat]
  /\ access \in BOOLEAN
  /\ pc \in [Requests -> Labels]
  /\ new \in [Messages -> Captcha \cup {None}]
  /\ told \in [Messages -> Codes \cup {None}]
  /\ seen \in [Logins -> Reading \cup {None}]
  /\ took \in [Logins -> Captcha \cup {None}]
  /\ user \in [Logins -> (Users \X (Users \cup {None})) \cup {None}]
  /\ row \in [Users -> Logins \cup {None}]
  /\ session \in [Logins -> Users \cup {None}]

Init ==
  /\ enabled \in BOOLEAN
  /\ captcha = [o \in OpenIds |-> None] /\ index = [c \in Codes |-> None]
  /\ attempts = [o \in OpenIds |-> 0] /\ access = FALSE
  /\ pc = [p \in Requests |-> "start"]
  /\ new = [m \in Messages |-> None] /\ told = [m \in Messages |-> None]
  /\ seen = [l \in Logins |-> None] /\ took = [l \in Logins |-> None]
  /\ user = [l \in Logins |-> None] /\ row = [u \in Users |-> None]
  /\ session = [l \in Logins |-> None]

Goto(p, l) == pc' = [pc EXCEPT ![p] = l]

-----------------------------------------------------------------------------
(* wechat_callback_post: a message                                         *)

Answered(m) == pc[m] = "start" /\ Goto(m, "done") /\ UNCHANGED <<redis, message, login>>

(* parse_callback fails, on the signature or the body: answered all the same *)
Unparsed(m) == Answered(m)

(* matches_trigger is false, or it is no text: a help message *)
NoTrigger(m) == enabled /\ Answered(m)

(* generate finds an unconsumed captcha of the sender: CooldownActive *)
Cooldown(m) == enabled /\ (\E o \in OpenIds : captcha[o] # None) /\ Answered(m)

(* SET NX EX, which may fail, and may have stored the captcha all the same *)
GenStore(m) ==
  /\ enabled /\ pc[m] = "start"
  /\ \/ \E o \in OpenIds, c \in Codes :
          /\ captcha[o] = None
          /\ captcha' = [captcha EXCEPT ![o] = [code |-> c, by |-> m, of |-> o]]
          /\ new' = [new EXCEPT ![m] = captcha'[o]]
          /\ Goto(m, "index") \/ Goto(m, "busy")
     \/ Goto(m, "busy") /\ UNCHANGED <<captcha, new>>
  /\ UNCHANGED <<index, attempts, access, told, login>>

(* SETEX of the reverse index, best effort *)
GenIndex(m) ==
  /\ pc[m] = "index"
  /\ index' \in {index, [index EXCEPT ![new[m].code] = new[m].of]}
  /\ Goto(m, "clear")
  /\ UNCHANGED <<captcha, attempts, message, login>>

(* DEL of the counter; its failure fails generate, and the user learns     *)
(* nothing.  The server replies with the code; a host that plugs in        *)
(* CaptchaTriggerHandler pushes it.                                        *)
GenClear(m) ==
  /\ pc[m] = "clear"
  /\ \/ /\ attempts' = [attempts EXCEPT ![new[m].of] = 0]
        /\ Goto(m, "tell") \/ Goto(m, "token")
     \/ UNCHANGED attempts /\ Goto(m, "busy")
  /\ UNCHANGED <<captcha, index, message, login>>

Told(m) == told' = [told EXCEPT ![m] = new[m].code] /\ Goto(m, "done")

(* The passive reply carries the code *)
Reply(m) ==
  /\ pc[m] = "tell" /\ Told(m)
  /\ UNCHANGED <<redis, access, new, login>>

(* access_token: the cached one, or a new one that is cached; a failure is *)
(* a failure of send_text_message                                          *)
AccessToken(m) ==
  /\ pc[m] = "token"
  /\ access' \in {access, TRUE}
  /\ Goto(m, IF access' THEN "send" ELSE "tell")
  /\ UNCHANGED <<redis, new, told, login>>

(* Mutant: a failed push is answered like a successful one *)
SendUnchecked(m) ==
  /\ pc[m] = "send"
  /\ Told(m) \/ (Goto(m, "done") /\ UNCHANGED told)
  /\ UNCHANGED <<redis, access, new, login>>

(* send_text_message; when it fails the reply carries the code instead *)
Send(m) ==
  /\ pc[m] = "send"
  /\ \/ Told(m)
     \/ Goto(m, "tell") /\ UNCHANGED told
  /\ UNCHANGED <<redis, access, new, login>>

-----------------------------------------------------------------------------
(* wx_login and login: the captcha                                         *)

(* Without the components wx_login is refused and login asks for no captcha *)
NoCaptcha(l) ==
  /\ ~enabled /\ pc[l] = "start"
  /\ Goto(l, "refused") \/ Goto(l, "password")
  /\ UNCHANGED <<redis, message, login>>

(* get_opt of the reverse index *)
LookUp(l) ==
  /\ enabled /\ pc[l] = "start"
  /\ \/ \E c \in Codes :
          /\ index[c] # None /\ Goto(l, "peek")
          /\ seen' = [seen EXCEPT ![l] = [of |-> index[c], code |-> c, captcha |-> None]]
     \/ Goto(l, "refused") /\ UNCHANGED seen
  /\ UNCHANGED <<redis, message, took, user, row, session>>

Whose(l) == seen[l].of

(* verify_for_openid: peek and compare *)
Peek(l) ==
  LET k == captcha[Whose(l)] IN
  /\ pc[l] = "peek"
  /\ \/ /\ k # None /\ seen' = [seen EXCEPT ![l].captcha = k]
        /\ Goto(l, IF k.code = seen[l].code THEN "consume" ELSE "incr")
     \/ Goto(l, "refused") /\ UNCHANGED seen
  /\ UNCHANGED <<redis, message, took, user, row, session>>

(* INCR, then EXPIRE; a failure of either refuses the login *)
Incr(l) ==
  LET o == Whose(l) IN
  /\ pc[l] = "incr"
  /\ \/ /\ attempts' = [attempts EXCEPT ![o] = @ + 1]
        /\ Goto(l, IF attempts'[o] >= MaxFailed THEN "find_index" ELSE "refused")
     \/ attempts' \in {attempts, [attempts EXCEPT ![o] = @ + 1]} /\ Goto(l, "refused")
  /\ UNCHANGED <<captcha, index, message, login>>

(* delete_captcha: GET, DEL of the index of the code found, of the captcha *)
(* and of the counter, four commands                                       *)
DeleteCaptcha(l) ==
  LET o == Whose(l) IN
  /\ \/ /\ pc[l] = "find_index" /\ seen' = [seen EXCEPT ![l].captcha = captcha[o]]
        /\ Goto(l, IF captcha[o] = None THEN "del_key" ELSE "del_index")
        /\ UNCHANGED redis
     \/ /\ pc[l] = "del_index" /\ index' = [index EXCEPT ![seen[l].captcha.code] = None]
        /\ Goto(l, "del_key") /\ UNCHANGED <<captcha, attempts, seen>>
     \/ /\ pc[l] = "del_key" /\ captcha' = [captcha EXCEPT ![o] = None]
        /\ Goto(l, "del_attempts") /\ UNCHANGED <<index, attempts, seen>>
     \/ /\ pc[l] = "del_attempts" /\ attempts' = [attempts EXCEPT ![o] = 0]
        /\ Goto(l, "refused") /\ UNCHANGED <<captcha, index, seen>>
     \/ /\ pc[l] \in {"find_index", "del_index", "del_key", "del_attempts"}
        /\ Goto(l, "refused") /\ UNCHANGED <<redis, seen>>
  /\ UNCHANGED <<message, took, user, row, session>>

(* Mutant: whether the script found a captcha is not looked at *)
ConsumeUnchecked(l) ==
  LET o == Whose(l) IN
  /\ pc[l] = "consume"
  /\ captcha' = [captcha EXCEPT ![o] = None]
  /\ attempts' = [attempts EXCEPT ![o] = 0]
  /\ took' = [took EXCEPT ![l] = seen[l].captcha]
  /\ Goto(l, "reset")
  /\ UNCHANGED <<index, message, seen, user, row, session>>

(* CONSUME_CAPTCHA_SCRIPT takes whatever captcha is stored by now, with the *)
(* counter and the index of its code; nothing stored means another request *)
(* was faster                                                              *)
Consume(l) ==
  LET o == Whose(l)
      k == captcha[o] IN
  /\ pc[l] = "consume"
  /\ \/ /\ k # None
        /\ captcha' = [captcha EXCEPT ![o] = None]
        /\ attempts' = [attempts EXCEPT ![o] = 0]
        /\ index' = [index EXCEPT ![k.code] = None]
        /\ took' = [took EXCEPT ![l] = k]
        /\ Goto(l, "reset")
     \/ Goto(l, "refused") /\ UNCHANGED <<redis, took>>
  /\ UNCHANGED <<message, seen, user, row, session>>

(* reset_failed_attempts *)
Reset(l) ==
  /\ pc[l] = "reset"
  /\ \/ attempts' = [attempts EXCEPT ![Whose(l)] = 0] /\ Goto(l, "bound")
     \/ UNCHANGED attempts /\ Goto(l, "refused")
  /\ UNCHANGED <<captcha, index, message, login>>

(* find_user_by_openid *)
FindUser(l) ==
  /\ pc[l] = "bound"
  /\ \/ \E u \in Users : /\ WxOpenid[u] = Whose(l)
                         /\ user' = [user EXCEPT ![l] = <<u, None>>]
                         /\ Goto(l, "issue") \/ Goto(l, "password")
     \/ Goto(l, "refused") /\ UNCHANGED user
  /\ UNCHANGED <<redis, message, seen, took, row, session>>

-----------------------------------------------------------------------------
(* The session                                                             *)

(* lookup_user_role_and_version and the JWT; no refresh token *)
WxIssue(l) ==
  /\ pc[l] = "issue"
  /\ \/ session' = [session EXCEPT ![l] = user[l][1]] /\ Goto(l, "done")
     \/ UNCHANGED session /\ Goto(l, "refused")
  /\ UNCHANGED <<redis, message, seen, took, user, row>>

(* AuthService::login: right or wrong password; a remembered login replaces *)
(* the account's refresh token                                             *)
Password(l) ==
  /\ pc[l] = "password"
  /\ \/ \E u \in Users, remember \in BOOLEAN :
          /\ row' = IF remember THEN [row EXCEPT ![u] = l] ELSE row
          /\ user' = [user EXCEPT ![l] = <<IF enabled THEN @[1] ELSE u, u>>] /\ Goto(l, "match")
     \/ UNCHANGED <<row, user>> /\ Goto(l, "refused")
  /\ UNCHANGED <<redis, message, seen, took, session>>

(* Mutant: the captcha's user is not compared with the account *)
NoMatch(l) ==
  /\ pc[l] = "match"
  /\ session' = [session EXCEPT ![l] = user[l][2]] /\ Goto(l, "done")
  /\ UNCHANGED <<redis, message, seen, took, user, row>>

(* The account must be the captcha's user; the stored token stays *)
Match(l) ==
  /\ pc[l] = "match"
  /\ IF user[l][1] = user[l][2]
     THEN session' = [session EXCEPT ![l] = user[l][1]] /\ Goto(l, "done")
     ELSE UNCHANGED session /\ Goto(l, "refused")
  /\ UNCHANGED <<redis, message, seen, took, user, row>>

-----------------------------------------------------------------------------
(* TTLs.  The index is written after the captcha and lives as long.        *)

CaptchaExpires(o) ==
  /\ captcha[o] # None /\ captcha' = [captcha EXCEPT ![o] = None]
  /\ UNCHANGED <<index, attempts, message, pc, login>>

IndexExpires(c) ==
  /\ index[c] # None
  /\ captcha[index[c]] # None => captcha[index[c]].code # c
  /\ index' = [index EXCEPT ![c] = None]
  /\ UNCHANGED <<captcha, attempts, message, pc, login>>

AttemptsExpire(o) ==
  /\ attempts[o] # 0 /\ attempts' = [attempts EXCEPT ![o] = 0]
  /\ UNCHANGED <<captcha, index, message, pc, login>>

AccessExpires ==
  /\ access /\ access' = FALSE
  /\ UNCHANGED <<redis, new, told, pc, login>>

generate(m) == Cooldown(m) \/ GenStore(m) \/ GenIndex(m) \/ GenClear(m)
wechat_process_callback(m) == Unparsed(m) \/ NoTrigger(m) \/ generate(m) \/ Reply(m)
CaptchaTriggerHandler(m) == AccessToken(m) \/ Send(m)
verify_for_openid(l) ==
  Peek(l) \/ Incr(l) \/ DeleteCaptcha(l) \/ Consume(l) \/ Reset(l)
verify_and_login(l) == verify_for_openid(l) \/ FindUser(l)
wx_login(l) == LookUp(l) \/ verify_and_login(l) \/ WxIssue(l)
login_inner(l) == NoCaptcha(l) \/ Password(l) \/ Match(l)

Next ==
  /\ \/ \E m \in Messages : wechat_process_callback(m) \/ CaptchaTriggerHandler(m)
     \/ \E l \in Logins : wx_login(l) \/ login_inner(l)
     \/ \E o \in OpenIds : CaptchaExpires(o) \/ AttemptsExpire(o)
     \/ \E c \in Codes : IndexExpires(c)
     \/ AccessExpires
  /\ UNCHANGED enabled

Spec == Init /\ [][Next]_vars

-----------------------------------------------------------------------------
(* "One-shot": a captcha that was generated lets one login pass, although  *)
(* comparing and consuming are separate commands and the captcha may be    *)
(* replaced, expire or be invalidated between them.                        *)
CaptchaOpensOneLogin ==
  \A l, m \in Logins : took[l] # None /\ took[l] = took[m] => l = m

(* With captchas, a session and a stored refresh token need a captcha; and *)
(* "The captcha-bound user must match the authenticated user": a session's *)
(* account is the one bound to the openid whose captcha the login took.    *)
SessionMatchesCaptcha ==
  enabled => \A l \in Logins :
    /\ session[l] # None => took[l] # None /\ WxOpenid[session[l]] = took[l].of
    /\ \A u \in Users : row[u] = l => took[l] # None

(* A message that stored a captcha and was not answered with an error text *)
(* has shown its user the stored code, by a pushed message or in the reply *)
(* that takes its place.  Where Redis failed after the captcha was stored  *)
(* the user is told to try again later and never learns the code (busy).   *)
CodeReachesItsUser ==
  \A m \in Messages : new[m] # None /\ pc[m] = "done" => told[m] = new[m].code
==============================================================================
