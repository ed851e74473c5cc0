------------------------------ MODULE Sessions ------------------------------
(***************************************************************************)
(* Sessions of the webshelf server: the users row (token_version, role,    *)
(* password), the refresh_tokens rows, the JWTs handed to clients and the  *)
(* Redis cache entry "user:token_version:<id>" of the auth middleware.     *)
(*                                                                         *)
(* A request runs one handler once.  Its steps are the SQL statements and  *)
(* cache calls of that handler, interleaved with those of every other      *)
(* request of every server instance.  The database is PostgreSQL at READ   *)
(* COMMITTED: a statement sees the rows committed when it starts, waits    *)
(* for row locks, and rechecks its WHERE clause on the row it waited for;  *)
(* a transaction's writes become visible when it commits.  They are kept   *)
(* out of the tables until then, and the row locks it holds say which rows *)
(* they are.                                                               *)
(*                                                                         *)
(* The refresh token, the JWT and the password that a request creates are  *)
(* all named by the request; those a user starts with, by the user.        *)
(***************************************************************************)
EXTENDS Naturals, FiniteSets

CONSTANTS Users,      \* accounts
          Requests,   \* handler invocations, each run at most once
          Allowed,    \* Allowed[p]: the operations request p may be
          InitRole,   \* role of each account at the start
          Events,     \* the environment events that may happen
          None        \* SQL NULL, cache miss, nobody

Ops == {"login", "refresh", "logout", "logout_all", "change_password",
        "reset", "update_role", "delete", "verify"}

EventKinds == {"db_error", "redis_error", "token_expiry", "cache_ttl"}

Roles == {"user", "admin", "system"}

(* The claims of a JWT that matter here *)
Jwts == [user : Users, ver : Nat, role : Roles]

ASSUME SessionsAssumption ==
  /\ Users \cap Requests = {}
  /\ None \notin Users \cup Requests
  /\ None \notin Nat \cup Ops
  /\ Allowed \in [Requests -> SUBSET Ops]
  /\ InitRole \in [Users -> Roles]
  /\ Events \subseteq EventKinds
  /\ None \notin Jwts

Ids == Users \cup Requests

VARIABLES
  present,    \* present[u]: the users row exists
  ver,        \* ver[u]: users.token_version
  role,       \* role[u]: users.role
  pw,         \* pw[u]: which password users.password_hash is the hash of
  code,       \* code[u]: password_reset_token_hash IS NOT NULL
  owner,      \* owner[t]: user_id of refresh token t's row, None without one
  expired,    \* tokens past expires_at
  usrLock,    \* usrLock[u]: transaction holding the users row
  tokLock,    \* tokLock[t]: transaction holding the refresh_tokens row
  tvCache,    \* tvCache[u]: cached token_version, None on a miss
  jwt,        \* jwt[i]: the JWT named i, None until it is signed
  pc, op,     \* control point and operation of each request
  who,        \* the account a request works on
  tok,        \* the refresh token, or the JWT, a request presents
  arg,        \* role an update_role sets, role of the actor of a delete
  seenVer, seenRole,  \* columns a request read before its last statement
  rivals,     \* history: role changes of the account that had read the row
              \* and not written it yet when a role change read it
  todo,       \* rows a DELETE has in its snapshot and has not visited yet
  saw,        \* history: the whole snapshot of that DELETE
  bumped,     \* history: token_version the request's commit produced, or 0
  verdict     \* what the auth middleware decided

rowVars  == <<present, ver, role, pw, code>>
tokVars  == <<owner, expired>>
lockVars == <<usrLock, tokLock>>
reqVars  == <<op, who, tok, arg>>
seenVars == <<seenVer, seenRole, rivals>>
delVars  == <<todo, saw>>
vars == <<rowVars, tokVars, lockVars, tvCache, jwt, pc, reqVars, seenVars,
          delVars, bumped, verdict>>

Steps == {"idle", "start", "lock", "plain", "snap", "del", "ruser", "commit",
          "requery", "inv", "vdb", "vset", "done"}

TypeOK ==
  /\ present \in [Users -> BOOLEAN]
  /\ ver \in [Users -> Nat]
  /\ role \in [Users -> Roles]
  /\ pw \in [Users -> Ids]
  /\ code \in [Users -> BOOLEAN]
  /\ owner \in [Ids -> Users \cup {None}]
  /\ expired \subseteq Ids
  /\ usrLock \in [Users -> Requests \cup {None}]
  /\ tokLock \in [Ids -> Requests \cup {None}]
  /\ tvCache \in [Users -> Nat \cup {None}]
  /\ jwt \in [Ids -> Jwts \cup {None}]
  /\ pc \in [Requests -> Steps]
  /\ op \in [Requests -> Ops \cup {None}]
  /\ who \in [Requests -> Users \cup {None}]
  /\ tok \in [Requests -> Ids \cup {None}]
  /\ arg \in [Requests -> Roles \cup {None}]
  /\ seenVer \in [Requests -> Nat]
  /\ seenRole \in [Requests -> Roles \cup {None}]
  /\ rivals \in [Requests -> SUBSET Requests]
  /\ todo \in [Requests -> SUBSET Ids]
  /\ saw \in [Requests -> SUBSET Ids]
  /\ bumped \in [Requests -> Nat]
  /\ verdict \in [Requests -> {"none", "ok", "rejected"}]

(* Every account starts with one remembered session: a refresh token row   *)
(* and a JWT.  A reset code may be outstanding.                            *)
Init ==
  /\ present = [u \in Users |-> TRUE]
  /\ ver = [u \in Users |-> 1]
  /\ role = InitRole
  /\ pw = [u \in Users |-> u]
  /\ code \in [Users -> BOOLEAN]
  /\ owner = [i \in Ids |-> IF i \in Users THEN i ELSE None]
  /\ expired = {}
  /\ usrLock = [u \in Users |-> None]
  /\ tokLock = [i \in Ids |-> None]
  /\ tvCache = [u \in Users |-> None]
  /\ jwt = [i \in Ids |-> IF i \in Users
                           THEN [user |-> i, ver |-> 1, role |-> InitRole[i]]
                           ELSE None]
  /\ pc = [p \in Requests |-> "idle"]
  /\ op = [p \in Requests |-> None]
  /\ who = [p \in Requests |-> None]
  /\ tok = [p \in Requests |-> None]
  /\ arg = [p \in Requests |-> None]
  /\ seenVer = [p \in Requests |-> 0]
  /\ seenRole = [p \in Requests |-> None]
  /\ rivals = [p \in Requests |-> {}]
  /\ todo = [p \in Requests |-> {}]
  /\ saw = [p \in Requests |-> {}]
  /\ bumped = [p \in Requests |-> 0]
  /\ verdict = [p \in Requests |-> "none"]

-----------------------------------------------------------------------------
(* Helpers *)

RowsOf(u) == {t \in Ids : owner[t] = u}

Goto(p, step) == pc' = [pc EXCEPT ![p] = step]

(* One SELECT of the users row: version and role belong to one row version *)
ReadRow(p) ==
  /\ seenVer' = [seenVer EXCEPT ![p] = ver[who[p]]]
  /\ seenRole' = [seenRole EXCEPT ![p] = role[who[p]]]

ReadUser(p) == ReadRow(p) /\ UNCHANGED rivals

(* COMMIT or ROLLBACK releases every row lock of the transaction *)
Release(p) ==
  /\ usrLock' = [u \in Users |-> IF usrLock[u] = p THEN None ELSE usrLock[u]]
  /\ tokLock' = [t \in Ids |-> IF tokLock[t] = p THEN None ELSE tokLock[t]]

(* The refresh_tokens rows after a commit: the rows the transaction locked *)
(* are the ones it deleted, and ins is the row it inserts, if any          *)
RowsAfter(p, ins) ==
  [t \in Ids |-> IF t \in ins THEN who[p]
                 ELSE IF tokLock[t] = p THEN None ELSE owner[t]]

(* Mutant: read-modify-write of the version read earlier *)
BumpSeen(p) ==
  /\ ver' = [ver EXCEPT ![who[p]] = seenVer[p] + 1]
  /\ bumped' = [bumped EXCEPT ![p] = seenVer[p] + 1]

Bump(p) ==
  /\ ver' = [ver EXCEPT ![who[p]] = @ + 1]
  /\ bumped' = [bumped EXCEPT ![p] = ver[who[p]] + 1]

Sign(p, v, r) ==
  jwt' = [jwt EXCEPT ![p] = [user |-> who[p], ver |-> v, role |-> r]]

(* The users row is not being deleted: the FOR KEY SHARE lock of the       *)
(* foreign key check on an INSERT conflicts with DELETE, not with UPDATE   *)
KeyShareFree(u) == \A q \in Requests : usrLock[u] = q => op[q] # "delete"

(* Leave the handler without touching the tables *)
Finish(p) ==
  /\ Goto(p, "done")
  /\ UNCHANGED <<rowVars, tokVars, lockVars, tvCache, jwt, reqVars, seenVars,
                 delVars, bumped, verdict>>

At(p, o, step) == pc[p] = step /\ op[p] = o

-----------------------------------------------------------------------------
(* A request arrives *)

Begin(p) ==
  /\ pc[p] = "idle"
  /\ \E o \in Allowed[p], u \in Users :
       /\ op' = [op EXCEPT ![p] = o]
       /\ \/ /\ o \in {"refresh", "logout", "verify"}  \* cookie or bearer token
             /\ \E t \in Ids :
                  /\ jwt[t] # None /\ jwt[t].user = u
                  /\ tok' = [tok EXCEPT ![p] = t]
             /\ UNCHANGED arg
          \/ /\ o = "update_role"                 \* only system passes a role
             /\ \E r \in {"user", "admin"} : arg' = [arg EXCEPT ![p] = r]
             /\ UNCHANGED tok
          \/ /\ o = "delete"                      \* role of the actor
             /\ \E r \in {"admin", "system"} : arg' = [arg EXCEPT ![p] = r]
             /\ UNCHANGED tok
          \/ /\ o \in {"login", "logout_all", "change_password", "reset"}
             /\ UNCHANGED <<tok, arg>>
       /\ who' = [who EXCEPT ![p] = u]
  /\ Goto(p, "start")
  /\ UNCHANGED <<rowVars, tokVars, lockVars, tvCache, jwt, seenVars, delVars,
                 bumped, verdict>>

-----------------------------------------------------------------------------
(* DELETE FROM refresh_tokens WHERE user_id = $1, inside a transaction:    *)
(* the statement works through the rows committed when it started; a row   *)
(* another transaction holds is waited for and skipped when that           *)
(* transaction deleted it                                                  *)

DeleteSnapshot(p) ==
  /\ pc[p] = "snap"
  /\ todo' = [todo EXCEPT ![p] = RowsOf(who[p])]
  /\ saw' = [saw EXCEPT ![p] = RowsOf(who[p])]
  /\ Goto(p, "del")
  /\ UNCHANGED <<rowVars, tokVars, lockVars, tvCache, jwt, reqVars, seenVars,
                 bumped, verdict>>

(* Mutant: the DELETE skips a row another transaction holds *)
DeleteRowSkipLocked(p, t) ==
  /\ pc[p] = "del"
  /\ t \in todo[p]
  /\ todo' = [todo EXCEPT ![p] = @ \ {t}]
  /\ tokLock' = IF owner[t] = None \/ tokLock[t] # None
                THEN tokLock ELSE [tokLock EXCEPT ![t] = p]
  /\ UNCHANGED <<rowVars, tokVars, usrLock, tvCache, jwt, pc, reqVars,
                 seenVars, saw, bumped, verdict>>

DeleteRow(p, t) ==
  /\ pc[p] = "del"
  /\ t \in todo[p]
  /\ tokLock[t] = None
  /\ todo' = [todo EXCEPT ![p] = @ \ {t}]
  /\ tokLock' = IF owner[t] = None THEN tokLock
                                   ELSE [tokLock EXCEPT ![t] = p]
  /\ UNCHANGED <<rowVars, tokVars, usrLock, tvCache, jwt, pc, reqVars,
                 seenVars, saw, bumped, verdict>>

DeleteEnd(p) ==
  /\ pc[p] = "del"
  /\ todo[p] = {}
  /\ Goto(p, "commit")
  /\ UNCHANGED <<rowVars, tokVars, lockVars, tvCache, jwt, reqVars, seenVars,
                 delVars, bumped, verdict>>

(* INSERT INTO refresh_tokens and COMMIT; the JWT carries the version and  *)
(* the role the request read before                                        *)
InsertAndCommit(p) ==
  /\ KeyShareFree(who[p])
  /\ IF present[who[p]]
     THEN owner' = RowsAfter(p, {p}) /\ Sign(p, seenVer[p], seenRole[p])
     ELSE UNCHANGED <<owner, jwt>>                \* foreign key violation
  /\ Release(p)
  /\ Goto(p, "done")
  /\ UNCHANGED <<rowVars, expired, tvCache, reqVars, seenVars, delVars,
                 bumped, verdict>>

-----------------------------------------------------------------------------
(* login: wrong credentials end it; without remember the JWT is all there  *)
(* is; with it, one transaction replaces the user's refresh tokens         *)

LoginRead(p) ==
  /\ At(p, "login", "start")
  /\ \/ Finish(p)                                 \* wrong password
     \/ /\ present[who[p]]
        /\ Goto(p, "done")                        \* not remembered
        /\ Sign(p, ver[who[p]], role[who[p]])
        /\ UNCHANGED <<rowVars, tokVars, lockVars, tvCache, reqVars, seenVars,
                       delVars, bumped, verdict>>
     \/ /\ present[who[p]]
        /\ ReadUser(p)
        /\ Goto(p, "snap")
        /\ UNCHANGED <<rowVars, tokVars, lockVars, tvCache, jwt, reqVars,
                       delVars, bumped, verdict>>

LoginCommit(p) == At(p, "login", "commit") /\ InsertAndCommit(p)

-----------------------------------------------------------------------------
(* rotate_refresh_token and the refresh handler around it *)

(* Mutant: the SELECT without FOR UPDATE *)
RotateNoLock(p) ==
  /\ At(p, "refresh", "start")
  /\ owner[tok[p]] # None
  /\ tok[p] \notin expired
  /\ Goto(p, "ruser")
  /\ UNCHANGED <<rowVars, tokVars, lockVars, tvCache, jwt, reqVars, seenVars,
                 delVars, bumped, verdict>>

(* SELECT ... WHERE token_hash = $1 AND expires_at > now() FOR UPDATE *)
RotateLock(p) ==
  /\ At(p, "refresh", "start")
  /\ tokLock[tok[p]] = None
  /\ owner[tok[p]] # None
  /\ tok[p] \notin expired
  /\ tokLock' = [tokLock EXCEPT ![tok[p]] = p]
  /\ Goto(p, "ruser")
  /\ UNCHANGED <<rowVars, tokVars, usrLock, tvCache, jwt, reqVars, seenVars,
                 delVars, bumped, verdict>>

RotateRefused(p) ==
  /\ At(p, "refresh", "start")
  /\ owner[tok[p]] = None \/ tok[p] \in expired
  /\ Finish(p)

RotateReadUser(p) ==
  /\ pc[p] = "ruser"
  /\ IF present[who[p]]
     THEN ReadUser(p) /\ Goto(p, "commit") /\ UNCHANGED lockVars
     ELSE Release(p) /\ Goto(p, "done") /\ UNCHANGED seenVars
  /\ UNCHANGED <<rowVars, tokVars, tvCache, jwt, reqVars, delVars, bumped,
                 verdict>>

(* DELETE of the old row, INSERT of the new one, COMMIT *)
RotateCommit(p) == At(p, "refresh", "commit") /\ InsertAndCommit(p)

(* logout: one auto-committed DELETE by token hash *)
Logout(p) ==
  /\ At(p, "logout", "start")
  /\ tokLock[tok[p]] = None
  /\ owner' = [owner EXCEPT ![tok[p]] = None]
  /\ Goto(p, "done")
  /\ UNCHANGED <<rowVars, expired, lockVars, tvCache, jwt, reqVars, seenVars,
                 delVars, bumped, verdict>>

-----------------------------------------------------------------------------
(* logout_all: DELETE the refresh tokens, then UPDATE token_version *)

LogoutAllBegin(p) ==
  /\ At(p, "logout_all", "start")
  /\ Goto(p, "snap")
  /\ UNCHANGED <<rowVars, tokVars, lockVars, tvCache, jwt, reqVars, seenVars,
                 delVars, bumped, verdict>>

LogoutAllCommit(p) ==
  /\ At(p, "logout_all", "commit")
  /\ usrLock[who[p]] = None
  /\ owner' = RowsAfter(p, {})
  /\ IF present[who[p]] THEN Bump(p) ELSE UNCHANGED <<ver, bumped>>
  /\ Release(p)
  /\ Goto(p, "inv")
  /\ UNCHANGED <<present, role, pw, code, expired, tvCache, jwt, reqVars,
                 seenVars, delVars, verdict>>

-----------------------------------------------------------------------------
(* change_password *)

(* The password is verified on a row read outside the transaction *)
ChangeRead(p) ==
  /\ At(p, "change_password", "start")
  /\ \/ Finish(p)                          \* not found, wrong, same or weak
     \/ /\ present[who[p]]
        /\ Goto(p, "lock")
        /\ UNCHANGED <<rowVars, tokVars, lockVars, tvCache, jwt, reqVars,
                       seenVars, delVars, bumped, verdict>>

(* UPDATE users SET token_version = token_version + 1, then password_hash: *)
(* the row stays locked until the commit                                   *)
ChangeLock(p) ==
  /\ At(p, "change_password", "lock")
  /\ usrLock[who[p]] = None
  /\ IF present[who[p]]
     THEN usrLock' = [usrLock EXCEPT ![who[p]] = p] /\ Goto(p, "snap")
     ELSE Goto(p, "done") /\ UNCHANGED usrLock    \* RecordNotUpdated
  /\ UNCHANGED <<rowVars, tokVars, tokLock, tvCache, jwt, reqVars, seenVars,
                 delVars, bumped, verdict>>

(* Mutant: the new hash is written and the version is not *)
ChangeCommitNoBump(p) ==
  /\ At(p, "change_password", "commit")
  /\ owner' = RowsAfter(p, {})
  /\ pw' = [pw EXCEPT ![who[p]] = p]
  /\ Release(p)
  /\ Goto(p, "requery")
  /\ UNCHANGED <<present, ver, role, code, expired, tvCache, jwt, reqVars,
                 seenVars, delVars, bumped, verdict>>

(* Mutant: the second UPDATE of the transaction runs on the pool, on       *)
(* another connection, and waits for the row the first one locked          *)
ChangeCommitOnPool(p) ==
  /\ At(p, "change_password", "commit")
  /\ usrLock[who[p]] = None
  /\ owner' = RowsAfter(p, {})
  /\ Bump(p)
  /\ pw' = [pw EXCEPT ![who[p]] = p]
  /\ Release(p)
  /\ Goto(p, "requery")
  /\ UNCHANGED <<present, role, code, expired, tvCache, jwt, reqVars,
                 seenVars, delVars, verdict>>

ChangeCommit(p) ==
  /\ At(p, "change_password", "commit")
  /\ owner' = RowsAfter(p, {})
  /\ Bump(p)
  /\ pw' = [pw EXCEPT ![who[p]] = p]
  /\ Release(p)
  /\ Goto(p, "requery")
  /\ UNCHANGED <<present, role, code, expired, tvCache, jwt, reqVars,
                 seenVars, delVars, verdict>>

-----------------------------------------------------------------------------
(* reset_password, once the presented code matched (module ResetCodes) *)

ResetRead(p) ==
  /\ At(p, "reset", "start")
  /\ \/ Finish(p)
     \/ /\ present[who[p]] /\ code[who[p]]
        /\ Goto(p, "lock")
        /\ UNCHANGED <<rowVars, tokVars, lockVars, tvCache, jwt, reqVars,
                       seenVars, delVars, bumped, verdict>>

(* Mutant: the fresh JWT is signed before the transaction commits *)
ResetClaimAndSign(p) ==
  /\ At(p, "reset", "lock")
  /\ usrLock[who[p]] = None
  /\ present[who[p]] /\ code[who[p]]
  /\ usrLock' = [usrLock EXCEPT ![who[p]] = p] /\ Goto(p, "snap")
  /\ Sign(p, ver[who[p]] + 1, role[who[p]])
  /\ UNCHANGED <<rowVars, tokVars, tokLock, tvCache, reqVars, seenVars,
                 delVars, bumped, verdict>>

(* UPDATE ... WHERE id = $1 AND password_reset_token_hash IS NOT NULL *)
ResetClaim(p) ==
  /\ At(p, "reset", "lock")
  /\ usrLock[who[p]] = None
  /\ IF present[who[p]] /\ code[who[p]]
     THEN usrLock' = [usrLock EXCEPT ![who[p]] = p] /\ Goto(p, "snap")
     ELSE Goto(p, "done") /\ UNCHANGED usrLock    \* 0 rows: rollback
  /\ UNCHANGED <<rowVars, tokVars, tokLock, tvCache, jwt, reqVars, seenVars,
                 delVars, bumped, verdict>>

(* The handler signs a JWT with the version re-fetched in the transaction; *)
(* it does not touch the cached token_version                              *)
ResetCommit(p) ==
  /\ At(p, "reset", "commit")
  /\ owner' = RowsAfter(p, {})
  /\ Bump(p)
  /\ pw' = [pw EXCEPT ![who[p]] = p]
  /\ code' = [code EXCEPT ![who[p]] = FALSE]
  /\ Sign(p, ver[who[p]] + 1, role[who[p]])
  /\ Release(p)
  /\ Goto(p, "done")
  /\ UNCHANGED <<present, role, expired, tvCache, reqVars, seenVars, delVars,
                 verdict>>

-----------------------------------------------------------------------------
(* update_user with a role, by the system actor *)

(* A role change that has read the row and not written it yet *)
Changing(p) == op[p] = "update_role" /\ pc[p] \in {"plain", "lock", "commit"}

UpdateRoleRead(p) ==
  /\ At(p, "update_role", "start")
  /\ IF present[who[p]] /\ role[who[p]] # "system"
     THEN /\ ReadRow(p)
          /\ rivals' = [rivals EXCEPT ![p] =
                          @ \cup {q \in Requests : Changing(q) /\ who[q] = who[p]}]
          /\ Goto(p, IF arg[p] # role[who[p]] THEN "lock" ELSE "plain")
     ELSE Goto(p, "done") /\ UNCHANGED seenVars
  /\ UNCHANGED <<rowVars, tokVars, lockVars, tvCache, jwt, reqVars, delVars,
                 bumped, verdict>>

(* The role equals the one read: a single UPDATE that sets it all the same *)
UpdateRolePlain(p) ==
  /\ pc[p] = "plain"
  /\ usrLock[who[p]] = None
  /\ role' = IF present[who[p]] THEN [role EXCEPT ![who[p]] = arg[p]] ELSE role
  /\ Goto(p, "done")
  /\ UNCHANGED <<present, ver, pw, code, tokVars, lockVars, tvCache, jwt,
                 reqVars, seenVars, delVars, bumped, verdict>>

UpdateRoleLock(p) ==
  /\ At(p, "update_role", "lock")
  /\ usrLock[who[p]] = None
  /\ IF present[who[p]]
     THEN usrLock' = [usrLock EXCEPT ![who[p]] = p] /\ Goto(p, "commit")
     ELSE Goto(p, "done") /\ UNCHANGED usrLock    \* RecordNotUpdated
  /\ UNCHANGED <<rowVars, tokVars, tokLock, tvCache, jwt, reqVars, seenVars,
                 delVars, bumped, verdict>>

(* Mutant: only a promotion outdates the JWTs signed before *)
UpdateRoleCommitBumpsPromotions(p) ==
  /\ At(p, "update_role", "commit")
  /\ IF arg[p] = "admin" THEN Bump(p) ELSE UNCHANGED <<ver, bumped>>
  /\ role' = [role EXCEPT ![who[p]] = arg[p]]
  /\ Release(p)
  /\ Goto(p, "requery")
  /\ UNCHANGED <<present, pw, code, tokVars, tvCache, jwt, reqVars, seenVars,
                 delVars, verdict>>

UpdateRoleCommit(p) ==
  /\ At(p, "update_role", "commit")
  /\ Bump(p)
  /\ role' = [role EXCEPT ![who[p]] = arg[p]]
  /\ Release(p)
  /\ Goto(p, "requery")
  /\ UNCHANGED <<present, pw, code, tokVars, tvCache, jwt, reqVars, seenVars,
                 delVars, verdict>>

-----------------------------------------------------------------------------
(* delete_user; the foreign key cascades to refresh_tokens *)

DeleteUserRead(p) ==
  /\ At(p, "delete", "start")
  /\ Goto(p, IF /\ present[who[p]]
                /\ role[who[p]] # "system"
                /\ arg[p] = "admin" => role[who[p]] = "user"
             THEN "lock" ELSE "done")
  /\ UNCHANGED <<rowVars, tokVars, lockVars, tvCache, jwt, reqVars, seenVars,
                 delVars, bumped, verdict>>

(* Mutant: the admin's DELETE trusts the role that was read before *)
DeleteUserLockByIdOnly(p) ==
  /\ At(p, "delete", "lock")
  /\ usrLock[who[p]] = None
  /\ present[who[p]]
  /\ usrLock' = [usrLock EXCEPT ![who[p]] = p] /\ Goto(p, "snap")
  /\ UNCHANGED <<rowVars, tokVars, tokLock, tvCache, jwt, reqVars, seenVars,
                 delVars, bumped, verdict>>

(* The admin's DELETE repeats the role in its WHERE clause *)
DeleteUserLock(p) ==
  /\ At(p, "delete", "lock")
  /\ usrLock[who[p]] = None
  /\ IF present[who[p]] /\ (arg[p] = "admin" => role[who[p]] = "user")
     THEN usrLock' = [usrLock EXCEPT ![who[p]] = p] /\ Goto(p, "snap")
     ELSE Goto(p, "done") /\ UNCHANGED usrLock
  /\ UNCHANGED <<rowVars, tokVars, tokLock, tvCache, jwt, reqVars, seenVars,
                 delVars, bumped, verdict>>

DeleteUserCommit(p) ==
  /\ At(p, "delete", "commit")
  /\ present' = [present EXCEPT ![who[p]] = FALSE]
  /\ owner' = RowsAfter(p, {})
  /\ Release(p)
  /\ Goto(p, "inv")
  /\ UNCHANGED <<ver, role, pw, code, expired, tvCache, jwt, reqVars,
                 seenVars, delVars, bumped, verdict>>

-----------------------------------------------------------------------------
(* After the commit of change_password and update_role: read the row again *)
Requery(p) ==
  /\ pc[p] = "requery"
  /\ IF present[who[p]]
     THEN ReadUser(p) /\ Goto(p, "inv")
     ELSE Goto(p, "done") /\ UNCHANGED seenVars   \* NotFound, no invalidation
  /\ UNCHANGED <<rowVars, tokVars, lockVars, tvCache, jwt, reqVars, delVars,
                 bumped, verdict>>

(* Best-effort DEL of the cached version; change_password then signs a JWT *)
(* with the version it read again                                          *)
Invalidate(p) ==
  /\ pc[p] = "inv"
  /\ \/ tvCache' = [tvCache EXCEPT ![who[p]] = None]
     \/ "redis_error" \in Events /\ UNCHANGED tvCache
  /\ IF op[p] = "change_password" THEN Sign(p, seenVer[p], seenRole[p])
                                  ELSE UNCHANGED jwt
  /\ Goto(p, "done")
  /\ UNCHANGED <<rowVars, tokVars, lockVars, reqVars, seenVars, delVars,
                 bumped, verdict>>

-----------------------------------------------------------------------------
(* verify_token_version, called by the auth middleware *)

Decide(p, v) ==
  verdict' = [verdict EXCEPT ![p] = IF jwt[tok[p]].ver = v THEN "ok"
                                                          ELSE "rejected"]

VerifyHit(p) ==
  /\ At(p, "verify", "start")
  /\ tvCache[who[p]] # None
  /\ Decide(p, tvCache[who[p]])
  /\ Goto(p, "done")
  /\ UNCHANGED <<rowVars, tokVars, lockVars, tvCache, jwt, reqVars, seenVars,
                 delVars, bumped>>

VerifyMiss(p) ==
  /\ At(p, "verify", "start")
  /\ tvCache[who[p]] = None \/ "redis_error" \in Events
  /\ Goto(p, "vdb")
  /\ UNCHANGED <<rowVars, tokVars, lockVars, tvCache, jwt, reqVars, seenVars,
                 delVars, bumped, verdict>>

VerifyRead(p) ==
  /\ pc[p] = "vdb"
  /\ IF present[who[p]]
     THEN ReadUser(p) /\ Goto(p, "vset") /\ UNCHANGED verdict
     ELSE /\ Goto(p, "done")
          /\ verdict' = [verdict EXCEPT ![p] = "rejected"]
          /\ UNCHANGED seenVars
  /\ UNCHANGED <<rowVars, tokVars, lockVars, tvCache, jwt, reqVars, delVars,
                 bumped>>

VerifySet(p) ==
  /\ pc[p] = "vset"
  /\ \/ tvCache' = [tvCache EXCEPT ![who[p]] = seenVer[p]]
     \/ "redis_error" \in Events /\ UNCHANGED tvCache
  /\ Decide(p, seenVer[p])
  /\ Goto(p, "done")
  /\ UNCHANGED <<rowVars, tokVars, lockVars, jwt, reqVars, seenVars, delVars,
                 bumped>>

-----------------------------------------------------------------------------
(* Failures and the environment *)

(* A request that a statement error ends: the transaction rolls back.  An  *)
(* error after the commit ends the handler before its invalidation.        *)
Abort(p) ==
  /\ Release(p)
  /\ Goto(p, "done")
  /\ UNCHANGED <<rowVars, tokVars, tvCache, jwt, reqVars, seenVars, delVars,
                 bumped, verdict>>

DbError(p) ==
  /\ "db_error" \in Events
  /\ pc[p] \notin {"idle", "inv", "vset", "done"}
  /\ Abort(p)

(* p needs a row lock that q holds *)
WaitsFor(p, q) ==
  LET u == who[p] IN
  \/ pc[p] \in {"lock", "plain"} /\ usrLock[u] = q
  \/ At(p, "logout_all", "commit") /\ usrLock[u] = q
  \/ /\ pc[p] = "commit" /\ op[p] \in {"login", "refresh"}
     /\ usrLock[u] = q /\ op[q] = "delete"
  \/ /\ pc[p] = "start" /\ op[p] \in {"refresh", "logout"}
     /\ tokLock[tok[p]] = q
  \/ /\ pc[p] = "del" /\ \E t \in todo[p] : tokLock[t] = q
     /\ \A t \in todo[p] : tokLock[t] # None

(* PostgreSQL's deadlock detector aborts a member of a wait cycle *)
Deadlocked(p) ==
  \E S \in SUBSET Requests :
    /\ p \in S
    /\ \A a \in S : \E b \in S : WaitsFor(a, b)

DeadlockDetected(p) == Deadlocked(p) /\ Abort(p)

(* The 30 second TTL of the cached version *)
CacheExpires(u) ==
  /\ "cache_ttl" \in Events
  /\ tvCache[u] # None
  /\ tvCache' = [tvCache EXCEPT ![u] = None]
  /\ UNCHANGED <<rowVars, tokVars, lockVars, jwt, pc, reqVars, seenVars,
                 delVars, bumped, verdict>>

TokenExpires(t) ==
  /\ "token_expiry" \in Events
  /\ owner[t] # None /\ t \notin expired
  /\ expired' = expired \cup {t}
  /\ UNCHANGED <<rowVars, owner, lockVars, tvCache, jwt, pc, reqVars, seenVars,
                 delVars, bumped, verdict>>

(* An instance starts: DELETE FROM refresh_tokens WHERE expires_at <= now() *)
CleanupExpired ==
  LET rows == {t \in expired : owner[t] # None} IN
  /\ rows # {}
  /\ \A t \in rows : tokLock[t] = None
  /\ owner' = [t \in Ids |-> IF t \in rows THEN None ELSE owner[t]]
  /\ UNCHANGED <<rowVars, expired, lockVars, tvCache, jwt, pc, reqVars,
                 seenVars, delVars, bumped, verdict>>

-----------------------------------------------------------------------------
Delete(p) == DeleteSnapshot(p) \/ (\E t \in Ids : DeleteRow(p, t)) \/ DeleteEnd(p)
Login(p) == LoginRead(p) \/ LoginCommit(p)
Refresh(p) == RotateLock(p) \/ RotateRefused(p) \/ RotateReadUser(p) \/ RotateCommit(p)
LogoutAll(p) == LogoutAllBegin(p) \/ LogoutAllCommit(p)
ChangePassword(p) == ChangeRead(p) \/ ChangeLock(p) \/ ChangeCommit(p)
Reset(p) == ResetRead(p) \/ ResetClaim(p) \/ ResetCommit(p)
UpdateRole(p) ==
  UpdateRoleRead(p) \/ UpdateRolePlain(p) \/ UpdateRoleLock(p) \/ UpdateRoleCommit(p)
DeleteUser(p) == DeleteUserRead(p) \/ DeleteUserLock(p) \/ DeleteUserCommit(p)
Verify(p) == VerifyHit(p) \/ VerifyMiss(p) \/ VerifyRead(p) \/ VerifySet(p)

(* One step of the handler that request p is in *)
Step(p) ==
  \/ Delete(p) \/ Login(p) \/ Refresh(p) \/ Logout(p) \/ LogoutAll(p)
  \/ ChangePassword(p) \/ Reset(p) \/ UpdateRole(p) \/ DeleteUser(p)
  \/ Verify(p) \/ Requery(p) \/ Invalidate(p)

Environment ==
  \/ CleanupExpired
  \/ \E u \in Users : CacheExpires(u)
  \/ \E t \in Ids : TokenExpires(t)

Next ==
  \/ \E p \in Requests : Begin(p) \/ Step(p) \/ DbError(p) \/ DeadlockDetected(p)
  \/ Environment

Spec == Init /\ [][Next]_vars

-----------------------------------------------------------------------------
(* Properties *)

Rotated(p) == op[p] = "refresh" /\ jwt[p] # None

(* rotate_refresh_token, FOR UPDATE: however many requests present the     *)
(* same refresh token, at most one of them is exchanged for new tokens.    *)
RefreshTokenSingleUse ==
  \A p, q \in Requests :
    Rotated(p) /\ Rotated(q) /\ tok[p] = tok[q] => p = q

Revoker(p) == op[p] \in {"logout_all", "change_password", "reset"}

(* revoke_all_sessions, change_password, reset_password: a refresh token   *)
(* whose row was committed before the revoking DELETE started is gone once *)
(* the transaction committed, whoever held the row in between.             *)
RevocationCoversSnapshot ==
  \A p \in Requests :
    Revoker(p) /\ bumped[p] # 0 => \A t \in saw[p] : owner[t] = None

(* "SET token_version = token_version + 1": concurrent revocations and     *)
(* role changes never collapse into one version.                           *)
NoLostBump ==
  \A p, q \in Requests :
    /\ bumped[p] # 0 /\ bumped[q] # 0 /\ p # q /\ who[p] = who[q]
    => bumped[p] # bumped[q]

(* No JWT and no cached version is ahead of the users row: a later bump    *)
(* outdates every token signed before it.                                  *)
NothingAheadOfRow ==
  /\ \A i \in Ids : jwt[i] # None => jwt[i].ver <= ver[jwt[i].user]
  /\ \A u \in Users : tvCache[u] # None => tvCache[u] <= ver[u]

(* No two role changes of the account overlapped: none read the row while  *)
(* another one was between its read and its write                          *)
RoleChangesApart(u) ==
  \A p \in Requests : op[p] = "update_role" /\ who[p] = u => rivals[p] = {}

(* update_user compares the new role with a row it read before its         *)
(* transaction, and bumps token_version only when they differ.  However    *)
(* many role changes an account sees, one after the other and beside       *)
(* logins, rotations and revocations that read the row earlier, a JWT the  *)
(* row still honours carries the role of the row.  Two role changes that   *)
(* overlap are excepted: the one that saw nothing to change may then       *)
(* overwrite the other's role at an unchanged version.                     *)
HonouredJwtHasCurrentRole ==
  \A i \in Ids :
    LET u == jwt[i].user IN
    jwt[i] # None /\ present[u] /\ jwt[i].ver = ver[u] /\ RoleChangesApart(u)
    => jwt[i].role = role[u]

(* The password in force is the one of the last committed change or reset, *)
(* although both verify the old one outside their transaction.             *)
LatestPasswordInForce ==
  \A p \in Requests :
    /\ op[p] \in {"change_password", "reset"} /\ bumped[p] # 0
    => pw[who[p]] \in Requests /\ bumped[pw[who[p]]] >= bumped[p]

(* delete_user's second role check: an admin's DELETE removes only a plain *)
(* user, whatever role changes commit after the first check.               *)
AdminDeletesOnlyUsers ==
  [][\A p \in Requests :
       DeleteUserCommit(p) /\ arg[p] = "admin" => role[who[p]] = "user"]_vars

(* revoke_all_sessions locks refresh_tokens and then users, change_password *)
(* and delete_user the other way round, and every one of them may meet a   *)
(* rotation that holds one token.  A request under way can always take its *)
(* next step or waits for a row that another request, itself still under   *)
(* way, holds: a wait ends with the holder or by the deadlock detector,    *)
(* and nobody waits for itself or for a transaction that is over.          *)
NobodyIsStuck ==
  \A p \in Requests :
    pc[p] \notin {"idle", "done"} =>
      \/ ENABLED Step(p)
      \/ \E q \in Requests \ {p} : WaitsFor(p, q) /\ pc[q] # "done"

-----------------------------------------------------------------------------
(* What comments of the code and its documents promise, and the code does  *)
(* not keep                                                                *)

(* change_password: "Revoke all refresh tokens so a stolen refresh cookie  *)
(* cannot mint a fresh JWT at the new token_version".  Once a revoking     *)
(* transaction committed, no refresh token handed out at an older version  *)
(* is left to present.                                                     *)
RevokedTokensCannotMint ==
  \A p \in Requests, t \in Ids :
    /\ Revoker(p) /\ bumped[p] # 0 /\ owner[t] = who[p]
    => jwt[t].ver >= bumped[p]

=============================================================================
