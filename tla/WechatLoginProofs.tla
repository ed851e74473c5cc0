-------------------------- MODULE WechatLoginProofs --------------------------
(* Proofs about WechatLogin, for any number of WeChat users, accounts,     *)
(* codes, messages and logins.                                             *)
EXTENDS WechatLogin, TLAPS

(* A captcha belongs to the message that made it: a message that has not   *)
(* begun made none.  A captcha that was taken is stored no more.           *)
CaptchasFit ==
  /\ \A o \in OpenIds : captcha[o] # None =>
       captcha[o].of = o /\ pc[captcha[o].by] # "start"
  /\ \A l \in Logins : took[l] # None =>
       pc[took[l].by] # "start" /\ \A o \in OpenIds : took[l] # captcha[o]

(* What a message that is on its way has stored and told *)
MessageOf(m) ==
  /\ pc[m] = "start" => new[m] = None
  /\ pc[m] \in {"index", "clear", "tell", "token", "send"} => new[m] # None
  /\ new[m] # None /\ pc[m] = "done" => told[m] = new[m].code

(* What a login has read, taken and found out *)
LoginOf(l) ==
  /\ pc[l] \in {"peek", "incr", "find_index", "del_index", "del_key",
                "del_attempts", "consume", "reset", "bound"} => seen[l] # None
  /\ pc[l] = "del_index" => seen[l].captcha # None
  /\ pc[l] \in {"reset", "bound"} => took[l] # None /\ took[l].of = seen[l].of
  /\ pc[l] \in {"issue", "match"} => user[l] # None
  /\ enabled /\ pc[l] \in {"issue", "password", "match"} =>
       took[l] # None /\ user[l] # None /\ WxOpenid[user[l][1]] = took[l].of
  /\ session[l] # None => pc[l] = "done"
  /\ enabled => /\ session[l] # None => took[l] # None /\ WxOpenid[session[l]] = took[l].of
                /\ \A u \in Users : row[u] = l => took[l] # None

WechatInv ==
  /\ TypeOK
  /\ CaptchasFit
  /\ CaptchaOpensOneLogin
  /\ \A m \in Messages : MessageOf(m)
  /\ \A l \in Logins : LoginOf(l)

LEMMA WechatInvInit == Init => WechatInv
<1> SUFFICES ASSUME Init PROVE WechatInv
  OBVIOUS
<1>1. TypeOK
  BY DEF Init, TypeOK, Labels
<1>2. \A l \in Logins : LoginOf(l)
  BY WechatAssumption DEF Init, LoginOf, Requests
<1>3. (\A m \in Messages : MessageOf(m)) /\ CaptchasFit /\ CaptchaOpensOneLogin
  BY DEF Init, MessageOf, CaptchasFit, CaptchaOpensOneLogin, Requests
<1> QED BY <1>1, <1>2, <1>3 DEF WechatInv

-----------------------------------------------------------------------------
LEMMA MessageTypes ==
  ASSUME WechatInv, NEW m \in Messages,
         wechat_process_callback(m) \/ CaptchaTriggerHandler(m), enabled' = enabled
  PROVE  TypeOK'
<1> USE WechatAssumption DEF redis, message, login, Requests, Goto
<1>1. TypeOK /\ MessageOf(m)
  BY DEF WechatInv
<1>2. CASE Unparsed(m) \/ NoTrigger(m) \/ Cooldown(m)
  BY <1>1, <1>2 DEF Unparsed, NoTrigger, Cooldown, Answered, TypeOK, Labels
<1>3. CASE GenStore(m)
  <2>1. CASE UNCHANGED <<captcha, new>>
    BY <1>1, <1>3, <2>1 DEF GenStore, TypeOK, Labels
  <2>2. ASSUME NEW o \in OpenIds, NEW c \in Codes,
               captcha' = [captcha EXCEPT ![o] = [code |-> c, by |-> m, of |-> o]],
               new' = [new EXCEPT ![m] = captcha'[o]]
        PROVE  TypeOK'
    <3>1. [code |-> c, by |-> m, of |-> o] \in Captcha
      BY DEF Captcha
    <3>2. captcha' \in [OpenIds -> Captcha \cup {None}] /\ new' \in [Messages -> Captcha \cup {None}]
      BY <1>1, <2>2, <3>1 DEF TypeOK
    <3> QED BY <1>1, <1>3, <3>2 DEF GenStore, TypeOK, Labels
  <2> QED BY <1>3, <2>1, <2>2 DEF GenStore
<1>4. CASE GenIndex(m)
  <2>1. new[m] \in Captcha
    BY <1>1, <1>4 DEF GenIndex, MessageOf, TypeOK
  <2>2. new[m].code \in Codes /\ new[m].of \in OpenIds
    BY <2>1 DEF Captcha
  <2>3. index' \in [Codes -> OpenIds \cup {None}]
    BY <1>1, <1>4, <2>2 DEF GenIndex, TypeOK
  <2> QED BY <1>1, <1>4, <2>3 DEF GenIndex, TypeOK, Labels
<1>5. CASE GenClear(m)
  <2>1. attempts' \in [OpenIds -> Nat]
    BY <1>1, <1>5 DEF GenClear, TypeOK
  <2> QED BY <1>1, <1>5, <2>1 DEF GenClear, TypeOK, Labels
<1>6. CASE Reply(m) \/ Send(m)
  <2>1. new[m] \in Captcha
    BY <1>1, <1>6 DEF Reply, Send, MessageOf, TypeOK
  <2>2. told' \in [Messages -> Codes \cup {None}]
    BY <1>1, <1>6, <2>1 DEF Reply, Send, Told, TypeOK, Captcha
  <2> QED BY <1>1, <1>6, <2>2 DEF Reply, Send, Told, TypeOK, Labels
<1>7. CASE AccessToken(m)
  BY <1>1, <1>7 DEF AccessToken, TypeOK, Labels
<1> QED
  BY <1>2, <1>3, <1>4, <1>5, <1>6, <1>7
     DEF wechat_process_callback, CaptchaTriggerHandler, generate

(* Storing what a login read keeps it a reading *)
LEMMA ReadingWritten ==
  ASSUME seen \in [Logins -> Reading \cup {None}], NEW l \in Logins, seen[l] \in Reading,
         NEW k \in Captcha \cup {None}
  PROVE  /\ [seen EXCEPT ![l].captcha = k] \in [Logins -> Reading \cup {None}]
         /\ [seen EXCEPT ![l].captcha = k][l].of = seen[l].of
         /\ [seen EXCEPT ![l].captcha = k][l].captcha = k
         /\ [seen EXCEPT ![l].captcha = k][l] # None
         /\ \A m \in Logins : m # l => [seen EXCEPT ![l].captcha = k][m] = seen[m]
<1>1. [seen[l] EXCEPT !.captcha = k] \in Reading
  BY DEF Reading
<1>2. [seen EXCEPT ![l].captcha = k][l] = [seen[l] EXCEPT !.captcha = k]
  OBVIOUS
<1> QED BY <1>1, <1>2, WechatAssumption DEF Reading

LEMMA LoginTypes ==
  ASSUME WechatInv, NEW l \in Logins, wx_login(l) \/ login_inner(l), enabled' = enabled
  PROVE  TypeOK'
<1> USE WechatAssumption DEF redis, message, login, Requests, Goto
<1>1. TypeOK /\ LoginOf(l)
  BY DEF WechatInv
<1>2. CASE NoCaptcha(l) \/ WxIssue(l) \/ Match(l)
  <2>1. CASE NoCaptcha(l)
    BY <1>1, <2>1 DEF NoCaptcha, TypeOK, Labels
  <2>2. CASE WxIssue(l) \/ Match(l)
    <3>1. user[l] \in Users \X (Users \cup {None})
      BY <1>1, <2>2 DEF WxIssue, Match, LoginOf, TypeOK
    <3>2. session' \in [Logins -> Users \cup {None}]
      BY <1>1, <2>2, <3>1 DEF WxIssue, Match, TypeOK
    <3> QED BY <1>1, <2>2, <3>2 DEF WxIssue, Match, TypeOK, Labels
  <2> QED BY <1>2, <2>1, <2>2
<1>3. CASE LookUp(l)
  <2>1. seen' \in [Logins -> Reading \cup {None}]
    <3>1. CASE UNCHANGED seen
      BY <1>1, <3>1 DEF TypeOK
    <3>2. ASSUME NEW c \in Codes, index[c] # None,
                 seen' = [seen EXCEPT ![l] = [of |-> index[c], code |-> c, captcha |-> None]]
          PROVE  seen' \in [Logins -> Reading \cup {None}]
      <4>1. [of |-> index[c], code |-> c, captcha |-> None] \in Reading
        BY <1>1, <3>2 DEF TypeOK, Reading
      <4> QED BY <1>1, <3>2, <4>1 DEF TypeOK
    <3> QED BY <1>3, <3>1, <3>2 DEF LookUp
  <2> QED BY <1>1, <1>3, <2>1 DEF LookUp, TypeOK, Labels
<1>4. CASE Peek(l)
  <2>1. seen[l] \in Reading
    BY <1>1, <1>4 DEF Peek, LoginOf, TypeOK
  <2>2. seen' \in [Logins -> Reading \cup {None}]
    BY <1>1, <1>4, <2>1, ReadingWritten DEF Peek, Whose, TypeOK, Reading
  <2> QED BY <1>1, <1>4, <2>2 DEF Peek, TypeOK, Labels
<1>5. CASE Incr(l)
  <2>1. attempts' \in [OpenIds -> Nat]
    BY <1>1, <1>5 DEF Incr, TypeOK
  <2> QED BY <1>1, <1>5, <2>1 DEF Incr, TypeOK, Labels
<1>6. CASE DeleteCaptcha(l)
  <2>1. seen[l] \in Reading /\ seen[l].of \in OpenIds
    BY <1>1, <1>6 DEF DeleteCaptcha, LoginOf, TypeOK, Reading
  <2>2. seen' \in [Logins -> Reading \cup {None}]
    BY <1>1, <1>6, <2>1, ReadingWritten DEF DeleteCaptcha, Whose, TypeOK
  <2>3. /\ captcha' \in [OpenIds -> Captcha \cup {None}]
        /\ index' \in [Codes -> OpenIds \cup {None}]
        /\ attempts' \in [OpenIds -> Nat]
    BY <1>1, <1>6 DEF DeleteCaptcha, TypeOK
  <2>4. pc' \in [Requests -> Labels]
    BY <1>1, <1>6 DEF DeleteCaptcha, TypeOK, Labels
  <2> QED BY <1>1, <1>6, <2>2, <2>3, <2>4 DEF DeleteCaptcha, TypeOK
<1>7. CASE Consume(l)
  <2>1. seen[l].of \in OpenIds
    BY <1>1, <1>7 DEF Consume, LoginOf, TypeOK, Reading
  <2>2. /\ captcha' \in [OpenIds -> Captcha \cup {None}]
        /\ index' \in [Codes -> OpenIds \cup {None}]
        /\ attempts' \in [OpenIds -> Nat]
        /\ took' \in [Logins -> Captcha \cup {None}]
    BY <1>1, <1>7, <2>1 DEF Consume, Whose, TypeOK
  <2> QED BY <1>1, <1>7, <2>2 DEF Consume, TypeOK, Labels
<1>8. CASE Reset(l)
  <2>1. attempts' \in [OpenIds -> Nat]
    BY <1>1, <1>8 DEF Reset, TypeOK
  <2> QED BY <1>1, <1>8, <2>1 DEF Reset, TypeOK, Labels
<1>9. CASE FindUser(l)
  <2>1. user' \in [Logins -> (Users \X (Users \cup {None})) \cup {None}]
    BY <1>1, <1>9 DEF FindUser, TypeOK
  <2> QED BY <1>1, <1>9, <2>1 DEF FindUser, TypeOK, Labels
<1>10. CASE Password(l)
  <2>1. enabled => user[l] \in Users \X (Users \cup {None})
    BY <1>1, <1>10 DEF Password, LoginOf, TypeOK
  <2>2. user' \in [Logins -> (Users \X (Users \cup {None})) \cup {None}]
    BY <1>1, <1>10, <2>1 DEF Password, TypeOK
  <2>3. row' \in [Users -> Logins \cup {None}]
    BY <1>1, <1>10 DEF Password, TypeOK
  <2> QED BY <1>1, <1>10, <2>2, <2>3 DEF Password, TypeOK, Labels
<1> QED
  BY <1>2, <1>3, <1>4, <1>5, <1>6, <1>7, <1>8, <1>9, <1>10
     DEF wx_login, login_inner, verify_and_login, verify_for_openid

-----------------------------------------------------------------------------
(* A step of a message that stores no captcha is the message's own affair  *)
LEMMA MessageStep ==
  ASSUME WechatInv, TypeOK', NEW m \in Messages,
         UNCHANGED <<enabled, captcha, login>>,
         \A q \in Requests : q # m => pc'[q] = pc[q],
         \A n \in Messages : n # m => new'[n] = new[n] /\ told'[n] = told[n],
         pc'[m] # "start", MessageOf(m)'
  PROVE  WechatInv'
<1> USE WechatAssumption DEF Requests, login
<1>1. \A l \in Logins : LoginOf(l)'
  BY DEF WechatInv, LoginOf
<1>2. \A n \in Messages : MessageOf(n)'
  BY DEF WechatInv, MessageOf
<1>3. CaptchasFit'
  BY DEF WechatInv, CaptchasFit, TypeOK, Captcha
<1>4. CaptchaOpensOneLogin'
  BY DEF WechatInv, CaptchaOpensOneLogin
<1> QED BY <1>1, <1>2, <1>3, <1>4 DEF WechatInv

LEMMA MessagesKeepInv ==
  ASSUME WechatInv, NEW m \in Messages,
         wechat_process_callback(m) \/ CaptchaTriggerHandler(m), enabled' = enabled
  PROVE  WechatInv'
<1> USE WechatAssumption DEF redis, message, Requests, Goto
<1>0. TypeOK /\ TypeOK' /\ MessageOf(m)
  BY MessageTypes DEF WechatInv
<1>1. CASE Unparsed(m) \/ NoTrigger(m) \/ Cooldown(m)
  <2>1. /\ pc[m] = "start" /\ pc'[m] = "done" /\ UNCHANGED <<captcha, new, told, login>>
        /\ \A q \in Requests : q # m => pc'[q] = pc[q]
    BY <1>0, <1>1 DEF Unparsed, NoTrigger, Cooldown, Answered, TypeOK
  <2> QED BY <1>0, <2>1, MessageStep DEF MessageOf
<1>2. CASE GenStore(m)
  <2>1. /\ pc[m] = "start" /\ pc'[m] # "start" /\ UNCHANGED <<told, login>>
        /\ \A q \in Requests : q # m => pc'[q] = pc[q]
    BY <1>0, <1>2 DEF GenStore, TypeOK
  <2>2. CASE UNCHANGED <<captcha, new>> /\ pc'[m] = "busy"
    BY <1>0, <2>1, <2>2, MessageStep DEF MessageOf
  <2>3. ASSUME NEW o \in OpenIds, NEW c \in Codes,
               captcha' = [captcha EXCEPT ![o] = [code |-> c, by |-> m, of |-> o]],
               new' = [new EXCEPT ![m] = captcha'[o]], pc'[m] \in {"index", "busy"}
        PROVE  WechatInv'
    <3>1. /\ captcha'[o] = [code |-> c, by |-> m, of |-> o] /\ captcha'[o] \in Captcha
          /\ \A p \in OpenIds : p # o => captcha'[p] = captcha[p]
          /\ new'[m] = captcha'[o] /\ \A n \in Messages : n # m => new'[n] = new[n]
      BY <1>0, <2>3 DEF TypeOK, Captcha
    <3>2. \A l \in Logins : LoginOf(l)'
      BY <2>1 DEF WechatInv, LoginOf, login
    <3>3. \A n \in Messages : MessageOf(n)'
      BY <2>1, <2>3, <3>1 DEF WechatInv, MessageOf
    <3>4. \A l \in Logins : took[l] # None => took[l].by \in Messages /\ took[l].by # m
      BY <1>0, <2>1 DEF WechatInv, CaptchasFit, TypeOK, Captcha
    <3>5. \A p \in OpenIds : captcha[p] # None => captcha[p].by \in Messages
      BY <1>0 DEF TypeOK, Captcha
    <3>6. CaptchasFit'
      BY <2>1, <3>1, <3>4, <3>5 DEF WechatInv, CaptchasFit, login
    <3>7. CaptchaOpensOneLogin'
      BY <2>1 DEF WechatInv, CaptchaOpensOneLogin, login
    <3> QED BY <1>0, <3>2, <3>3, <3>6, <3>7 DEF WechatInv
  <2>4. \/ UNCHANGED <<captcha, new>> /\ pc'[m] = "busy"
        \/ \E o \in OpenIds, c \in Codes :
             /\ captcha' = [captcha EXCEPT ![o] = [code |-> c, by |-> m, of |-> o]]
             /\ new' = [new EXCEPT ![m] = captcha'[o]] /\ pc'[m] \in {"index", "busy"}
    BY <1>0, <1>2 DEF GenStore, TypeOK
  <2> QED BY <2>2, <2>3, <2>4
<1>3. CASE GenIndex(m) \/ GenClear(m) \/ AccessToken(m)
  <2>1. /\ pc[m] \in {"index", "clear", "token"} /\ UNCHANGED <<captcha, new, told, login>>
        /\ pc'[m] \in {"clear", "tell", "token", "send", "busy"}
        /\ \A q \in Requests : q # m => pc'[q] = pc[q]
    BY <1>0, <1>3 DEF GenIndex, GenClear, AccessToken, TypeOK
  <2> QED BY <1>0, <2>1, MessageStep DEF MessageOf
<1>4. CASE Reply(m) \/ Send(m)
  <2>1. /\ pc[m] \in {"tell", "send"} /\ UNCHANGED <<captcha, new, login>>
        /\ \A q \in Requests : q # m => pc'[q] = pc[q]
        /\ \/ pc'[m] = "done" /\ told'[m] = new[m].code
           \/ pc'[m] = "tell"
        /\ \A n \in Messages : n # m => told'[n] = told[n]
    BY <1>0, <1>4 DEF Reply, Send, Told, TypeOK
  <2> QED BY <1>0, <2>1, MessageStep DEF MessageOf
<1> QED
  BY <1>1, <1>2, <1>3, <1>4
     DEF wechat_process_callback, CaptchaTriggerHandler, generate

-----------------------------------------------------------------------------
(* A step of a login: it takes a captcha only out of the store *)
LEMMA LoginStep ==
  ASSUME WechatInv, TypeOK', NEW l \in Logins, UNCHANGED <<enabled, new, told>>,
         \A q \in Requests : q # l => pc'[q] = pc[q],
         \A m \in Logins : m # l => /\ seen'[m] = seen[m] /\ took'[m] = took[m]
                                   /\ user'[m] = user[m] /\ session'[m] = session[m],
         \A o \in OpenIds : captcha'[o] \in {captcha[o], None},
         \/ took'[l] = took[l]
         \/ \E o \in OpenIds : took'[l] = captcha[o] /\ captcha[o] # None /\ captcha'[o] = None,
         \A u \in Users : row'[u] = row[u] \/ row'[u] = l,
         LoginOf(l)'
  PROVE  WechatInv'
<1> USE WechatAssumption DEF Requests
<1>0. TypeOK
  BY DEF WechatInv
<1>1. \A m \in Logins : LoginOf(m)'
  BY DEF WechatInv, LoginOf
<1>2. \A m \in Messages : MessageOf(m)'
  BY DEF WechatInv, MessageOf
<1>3. \A o \in OpenIds : captcha[o] # None => captcha[o].by \in Messages
  BY <1>0 DEF TypeOK, Captcha
<1>4. \A m \in Logins : took[m] # None => took[m].by \in Messages
  BY <1>0 DEF TypeOK, Captcha
<1>5. CASE took'[l] = took[l]
  <2>1. \A m \in Logins : took'[m] = took[m]
    BY <1>5
  <2>2. CaptchasFit'
    BY <1>3, <1>4, <2>1 DEF WechatInv, CaptchasFit
  <2>3. CaptchaOpensOneLogin'
    BY <2>1 DEF WechatInv, CaptchaOpensOneLogin
  <2> QED BY <1>1, <1>2, <2>2, <2>3 DEF WechatInv
<1>6. ASSUME NEW o \in OpenIds, took'[l] = captcha[o], captcha[o] # None, captcha'[o] = None
      PROVE  WechatInv'
  <2>1. \A m \in Logins : m # l => took'[m] = took[m] /\ took'[m] # took'[l]
    BY <1>6 DEF WechatInv, CaptchasFit
  <2>2. CaptchaOpensOneLogin'
    BY <2>1 DEF WechatInv, CaptchaOpensOneLogin
  <2>3. \A p \in OpenIds : took'[l] # captcha'[p]
    BY <1>6 DEF WechatInv, CaptchasFit
  <2>4. /\ took'[l].by \in Messages /\ pc[took'[l].by] # "start"
    BY <1>3, <1>6 DEF WechatInv, CaptchasFit
  <2>5. CaptchasFit'
    BY <1>3, <1>4, <2>1, <2>3, <2>4 DEF WechatInv, CaptchasFit
  <2> QED BY <1>1, <1>2, <2>2, <2>5 DEF WechatInv
<1> QED BY <1>5, <1>6

LEMMA LoginsKeepInv ==
  ASSUME WechatInv, NEW l \in Logins, wx_login(l) \/ login_inner(l), enabled' = enabled
  PROVE  WechatInv'
<1> USE WechatAssumption DEF redis, message, login, Requests, Goto
<1>0. TypeOK /\ TypeOK' /\ LoginOf(l)
  BY LoginTypes DEF WechatInv
<1>1. CASE NoCaptcha(l)
  <2>1. /\ pc[l] = "start" /\ pc'[l] \in {"refused", "password"} /\ ~enabled
        /\ UNCHANGED <<redis, message, login>>
        /\ \A q \in Requests : q # l => pc'[q] = pc[q]
    BY <1>0, <1>1 DEF NoCaptcha, TypeOK
  <2>2. LoginOf(l)'
    BY <1>0, <2>1 DEF LoginOf
  <2> QED BY <1>0, <2>1, <2>2, LoginStep
<1>2. CASE LookUp(l)
  <2>1. /\ pc[l] = "start" /\ UNCHANGED <<redis, message, took, user, row, session>>
        /\ pc'[l] = "refused" \/ (pc'[l] = "peek" /\ seen'[l] # None)
        /\ \A q \in Requests : q # l => pc'[q] = pc[q]
        /\ \A m \in Logins : m # l => seen'[m] = seen[m]
    <3>1. CASE Goto(l, "refused") /\ UNCHANGED seen
      BY <1>0, <1>2, <3>1 DEF LookUp, TypeOK
    <3>2. ASSUME NEW c \in Codes, index[c] # None, Goto(l, "peek"),
                 seen' = [seen EXCEPT ![l] = [of |-> index[c], code |-> c, captcha |-> None]]
          PROVE  /\ pc'[l] = "peek" /\ seen'[l] # None
                 /\ \A q \in Requests : q # l => pc'[q] = pc[q]
                 /\ \A m \in Logins : m # l => seen'[m] = seen[m]
      <4>1. [of |-> index[c], code |-> c, captcha |-> None] \in Reading
        BY <1>0, <3>2 DEF TypeOK, Reading
      <4> QED BY <1>0, <3>2, <4>1 DEF TypeOK
    <3> QED BY <1>2, <3>1, <3>2 DEF LookUp
  <2>2. LoginOf(l)'
    BY <1>0, <2>1 DEF LoginOf
  <2> QED BY <1>0, <2>1, <2>2, LoginStep
<1>3. CASE Peek(l)
  <2>0. pc[l] = "peek" /\ seen[l] \in Reading /\ captcha[Whose(l)] \in Captcha \cup {None}
    BY <1>0, <1>3 DEF Peek, LoginOf, TypeOK, Whose, Reading
  <2>1. /\ UNCHANGED <<redis, message, took, user, row, session>>
        /\ pc'[l] \in {"refused", "consume", "incr"} /\ seen'[l] # None
        /\ \A q \in Requests : q # l => pc'[q] = pc[q]
        /\ \A m \in Logins : m # l => seen'[m] = seen[m]
    BY <1>0, <1>3, <2>0, ReadingWritten DEF Peek, TypeOK
  <2>2. LoginOf(l)'
    BY <1>0, <2>0, <2>1 DEF LoginOf
  <2> QED BY <1>0, <2>1, <2>2, LoginStep
<1>4. CASE Incr(l) \/ Reset(l)
  <2>1. /\ UNCHANGED <<captcha, message, login>>
        /\ \/ pc[l] = "incr" /\ pc'[l] \in {"find_index", "refused"}
           \/ pc[l] = "reset" /\ pc'[l] \in {"bound", "refused"}
        /\ \A q \in Requests : q # l => pc'[q] = pc[q]
    BY <1>0, <1>4 DEF Incr, Reset, TypeOK
  <2>2. LoginOf(l)'
    BY <1>0, <2>1 DEF LoginOf
  <2> QED BY <1>0, <2>1, <2>2, LoginStep
<1>5. CASE DeleteCaptcha(l)
  <2>0. /\ pc[l] \in {"find_index", "del_index", "del_key", "del_attempts"}
        /\ seen[l] \in Reading /\ captcha[Whose(l)] \in Captcha \cup {None}
    BY <1>0, <1>5 DEF DeleteCaptcha, LoginOf, TypeOK, Whose, Reading
  <2>1. /\ UNCHANGED <<message, took, user, row, session>>
        /\ \A q \in Requests : q # l => pc'[q] = pc[q]
        /\ \A o \in OpenIds : captcha'[o] \in {captcha[o], None}
    BY <1>0, <1>5 DEF DeleteCaptcha, TypeOK
  <2>2. /\ seen'[l] # None
        /\ \A m \in Logins : m # l => seen'[m] = seen[m]
    BY <1>0, <1>5, <2>0, ReadingWritten DEF DeleteCaptcha, TypeOK
  <2>3. pc'[l] \in {"del_key", "del_attempts", "refused"}
          \/ (pc'[l] = "del_index" /\ seen'[l].captcha # None)
    <3>1. \/ pc'[l] \in {"del_key", "del_attempts", "refused"}
          \/ /\ pc'[l] = "del_index" /\ captcha[Whose(l)] # None
             /\ seen' = [seen EXCEPT ![l].captcha = captcha[Whose(l)]]
      BY <1>0, <1>5 DEF DeleteCaptcha, TypeOK
    <3>2. [seen EXCEPT ![l].captcha = captcha[Whose(l)]][l].captcha = captcha[Whose(l)]
      BY <1>0, <2>0, ReadingWritten DEF TypeOK
    <3> QED BY <3>1, <3>2
  <2>4. LoginOf(l)'
    BY <1>0, <2>0, <2>1, <2>2, <2>3 DEF LoginOf
  <2> QED BY <1>0, <2>1, <2>2, <2>4, LoginStep
<1>6. CASE Consume(l)
  <2>0. pc[l] = "consume" /\ seen[l] \in Reading /\ Whose(l) \in OpenIds
    BY <1>0, <1>6 DEF Consume, LoginOf, TypeOK, Whose, Reading
  <2>1. /\ UNCHANGED <<message, seen, user, row, session>>
        /\ \A q \in Requests : q # l => pc'[q] = pc[q]
        /\ \A m \in Logins : m # l => took'[m] = took[m]
    BY <1>0, <1>6 DEF Consume, TypeOK
  <2>2. CASE pc'[l] = "refused" /\ UNCHANGED <<redis, took>>
    <3>1. LoginOf(l)'
      BY <1>0, <2>0, <2>1, <2>2 DEF LoginOf
    <3> QED BY <1>0, <2>1, <2>2, <3>1, LoginStep
  <2>3. CASE /\ pc'[l] = "reset" /\ captcha[Whose(l)] # None
             /\ captcha' = [captcha EXCEPT ![Whose(l)] = None]
             /\ took'[l] = captcha[Whose(l)]
    <3>1. /\ \A o \in OpenIds : captcha'[o] \in {captcha[o], None}
          /\ captcha'[Whose(l)] = None
      BY <1>0, <2>0, <2>3 DEF TypeOK
    <3>2. took'[l] # None /\ took'[l].of = seen[l].of
      BY <2>0, <2>3 DEF WechatInv, CaptchasFit, Whose
    <3>3. LoginOf(l)'
      BY <1>0, <2>0, <2>1, <2>3, <3>2 DEF LoginOf
    <3> QED BY <1>0, <2>0, <2>1, <2>3, <3>1, <3>3, LoginStep
  <2>4. \/ pc'[l] = "refused" /\ UNCHANGED <<redis, took>>
        \/ /\ pc'[l] = "reset" /\ captcha[Whose(l)] # None
           /\ captcha' = [captcha EXCEPT ![Whose(l)] = None]
           /\ took'[l] = captcha[Whose(l)]
    BY <1>0, <1>6 DEF Consume, TypeOK
  <2> QED BY <2>2, <2>3, <2>4
<1>7. CASE FindUser(l)
  <2>1. /\ pc[l] = "bound" /\ UNCHANGED <<redis, message, seen, took, row, session>>
        /\ \A q \in Requests : q # l => pc'[q] = pc[q]
        /\ \A m \in Logins : m # l => user'[m] = user[m]
    BY <1>0, <1>7 DEF FindUser, TypeOK
  <2>2. \/ pc'[l] = "refused"
        \/ /\ pc'[l] \in {"issue", "password"} /\ user'[l] # None
           /\ WxOpenid[user'[l][1]] = seen[l].of
    BY <1>0, <1>7 DEF FindUser, TypeOK, Whose
  <2>3. LoginOf(l)'
    BY <1>0, <2>1, <2>2 DEF LoginOf
  <2> QED BY <1>0, <2>1, <2>3, LoginStep
<1>8. CASE WxIssue(l) \/ Match(l)
  <2>1. /\ pc[l] \in {"issue", "match"} /\ UNCHANGED <<redis, message, seen, took, user, row>>
        /\ \A q \in Requests : q # l => pc'[q] = pc[q]
        /\ \A m \in Logins : m # l => session'[m] = session[m]
    BY <1>0, <1>8 DEF WxIssue, Match, TypeOK
  <2>2. \/ pc'[l] = "refused" /\ session'[l] = session[l]
        \/ pc'[l] = "done" /\ session'[l] = user[l][1]
    BY <1>0, <1>8 DEF WxIssue, Match, TypeOK
  <2>3. LoginOf(l)'
    BY <1>0, <2>1, <2>2 DEF LoginOf
  <2> QED BY <1>0, <2>1, <2>3, LoginStep
<1>9. CASE Password(l)
  <2>1. /\ pc[l] = "password" /\ UNCHANGED <<redis, message, seen, took, session>>
        /\ \A q \in Requests : q # l => pc'[q] = pc[q]
        /\ \A m \in Logins : m # l => user'[m] = user[m]
        /\ \A u \in Users : row'[u] = row[u] \/ row'[u] = l
    BY <1>0, <1>9 DEF Password, TypeOK
  <2>2. \/ pc'[l] = "refused"
        \/ /\ pc'[l] = "match" /\ user'[l] # None
           /\ enabled => user'[l][1] = user[l][1]
    <3>1. \/ pc'[l] = "refused"
          \/ /\ pc'[l] = "match"
             /\ \E u \in Users : user'[l] = <<IF enabled THEN user[l][1] ELSE u, u>>
      BY <1>0, <1>9 DEF Password, TypeOK
    <3>2. enabled => user[l] \in Users \X (Users \cup {None})
      BY <1>0, <2>1 DEF LoginOf, TypeOK
    <3>3. ASSUME NEW u \in Users, user'[l] = <<IF enabled THEN user[l][1] ELSE u, u>>
          PROVE  user'[l] # None /\ (enabled => user'[l][1] = user[l][1])
      BY <3>2, <3>3
    <3> QED BY <3>1, <3>3
  <2>3. LoginOf(l)'
    BY <1>0, <2>1, <2>2 DEF LoginOf
  <2> QED BY <1>0, <2>1, <2>3, LoginStep
<1> QED
  BY <1>1, <1>2, <1>3, <1>4, <1>5, <1>6, <1>7, <1>8, <1>9
     DEF wx_login, login_inner, verify_and_login, verify_for_openid

LEMMA WechatInvNext == WechatInv /\ [Next]_vars => WechatInv'
<1> SUFFICES ASSUME WechatInv, [Next]_vars PROVE WechatInv'
  OBVIOUS
<1>0. TypeOK
  BY DEF WechatInv
<1>1. CASE \/ \E o \in OpenIds : CaptchaExpires(o) \/ AttemptsExpire(o)
           \/ \E c \in Codes : IndexExpires(c)
           \/ AccessExpires
           \/ UNCHANGED vars
  <2>1. /\ UNCHANGED <<new, told, pc, login>> /\ enabled' = enabled
        /\ \A o \in OpenIds : captcha'[o] \in {captcha[o], None}
    BY <1>0, <1>1 DEF CaptchaExpires, AttemptsExpire, IndexExpires, AccessExpires, Next, vars,
                      redis, message, TypeOK
  <2>2. TypeOK'
    <3>1. captcha' \in [OpenIds -> Captcha \cup {None}] /\ index' \in [Codes -> OpenIds \cup {None}]
      BY <1>0, <1>1 DEF CaptchaExpires, AttemptsExpire, IndexExpires, AccessExpires, vars,
                        redis, TypeOK
    <3>2. attempts' \in [OpenIds -> Nat]
      BY <1>0, <1>1 DEF CaptchaExpires, AttemptsExpire, IndexExpires, AccessExpires, vars,
                        redis, TypeOK
    <3>3. access' = access \/ access' = FALSE
      BY <1>1 DEF CaptchaExpires, AttemptsExpire, IndexExpires, AccessExpires, vars, message
    <3>4. access' \in BOOLEAN
      BY <1>0, <3>3 DEF TypeOK
    <3> QED BY <1>0, <2>1, <3>1, <3>2, <3>4 DEF TypeOK, login
  <2>3. CaptchasFit' /\ CaptchaOpensOneLogin'
    BY <2>1 DEF WechatInv, CaptchasFit, CaptchaOpensOneLogin, login
  <2>4. (\A m \in Messages : MessageOf(m)') /\ (\A l \in Logins : LoginOf(l)')
    BY <2>1 DEF WechatInv, MessageOf, LoginOf, login
  <2> QED BY <2>2, <2>3, <2>4 DEF WechatInv
<1>2. ASSUME NEW m \in Messages, wechat_process_callback(m) \/ CaptchaTriggerHandler(m),
             enabled' = enabled
      PROVE  WechatInv'
  BY <1>2, MessagesKeepInv
<1>3. ASSUME NEW l \in Logins, wx_login(l) \/ login_inner(l), enabled' = enabled
      PROVE  WechatInv'
  BY <1>3, LoginsKeepInv
<1> QED BY <1>1, <1>2, <1>3 DEF Next

(* A captcha passes one login, although it is compared and consumed by two *)
(* commands, for any number of users, messages and logins.                 *)
THEOREM CaptchasAreOneShot == Spec => []CaptchaOpensOneLogin
<1>1. WechatInv => CaptchaOpensOneLogin
  BY DEF WechatInv
<1> QED BY <1>1, WechatInvInit, WechatInvNext, PTL DEF Spec

(* Where captchas are asked for, a session is the session of the account   *)
(* bound to the WeChat user whose captcha the login took.                  *)
THEOREM SessionsFollowCaptchas == Spec => []SessionMatchesCaptcha
<1>1. WechatInv => SessionMatchesCaptcha
  BY DEF WechatInv, LoginOf, SessionMatchesCaptcha
<1> QED BY <1>1, WechatInvInit, WechatInvNext, PTL DEF Spec

(* Every message that stored a captcha and was not answered with the text  *)
(* "busy" told its sender the code, whether the push worked or not.  When   *)
(* Redis fails after the SET the answer is that text and the code is lost. *)
THEOREM CodesReachTheirUsers == Spec => []CodeReachesItsUser
<1>1. WechatInv => CodeReachesItsUser
  BY DEF WechatInv, MessageOf, CodeReachesItsUser
<1> QED BY <1>1, WechatInvInit, WechatInvNext, PTL DEF Spec
==============================================================================
