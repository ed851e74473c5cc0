----------------------------- MODULE ResetCodes -----------------------------
(***************************************************************************)
(* PasswordResetService: the reset code of one account.  A request either  *)
(* asks for a code (forgot-password) or presents one (reset-password).     *)
(* Each SQL statement is a step; Utc::now() is read before the statement   *)
(* that uses it.  A code is named by the request that generated it.  What  *)
(* a successful reset does to sessions is in module Sessions.              *)
(***************************************************************************)
EXTENDS Naturals, FiniteSets

CONSTANTS Requests,
          Asking,       \* the requests that ask for a code; the others present one
          MaxAttempts,  \* MAX_FAILED_ATTEMPTS
          Cooldown,     \* RESEND_COOLDOWN_SECONDS, in ticks
          Expiry,       \* CODE_EXPIRY_MINUTES, in ticks
          MaxTime,      \* bound: ticks that pass
          None

ASSUME ResetAssumption ==
  /\ IsFiniteSet(Requests) /\ Asking \subseteq Requests
  /\ None \notin Requests
  /\ MaxAttempts \in Nat /\ Cooldown \in Nat \ {0} /\ Expiry \in Nat
  /\ MaxTime \in Nat

Times == 0..MaxTime

VARIABLES
  now,
  hash,      \* password_reset_token_hash: the code it is the hash of
  expires,   \* password_reset_expires_at
  sent,      \* password_reset_sent_at, or Null
  attempts,  \* password_reset_failed_attempts
  pc,
  at,        \* at[p]: the Utc::now() request p read
  seen,      \* seen[p]: the hash request p read
  code,      \* code[p]: the code request p presents
  mailed,    \* codes the owner has received
  stored,    \* history: codes that were stored
  used,      \* history: requests whose reset succeeded
  tries      \* history: comparisons of a presented code with a stored one

row == <<hash, expires, sent, attempts>>
hist == <<stored, used, tries>>
vars == <<now, row, pc, at, seen, code, mailed, hist>>

Null == MaxTime + 1     \* sent_at IS NULL

TypeOK ==
  /\ now \in Times
  /\ hash \in Requests \cup {None}
  /\ expires \in 0..(MaxTime + Expiry)
  /\ sent \in Times \cup {Null}
  /\ attempts \in 0..MaxAttempts
  /\ pc \in [Requests -> {"start", "store", "mail", "claim", "commit", "done"}]
  /\ at \in [Requests -> Times]
  /\ seen \in [Requests -> Requests \cup {None}]
  /\ code \in [Requests -> Requests \cup {None}]
  /\ mailed \subseteq stored /\ stored \subseteq Asking
  /\ used \subseteq Requests \ Asking
  /\ tries \in Nat

Init ==
  /\ now = 0
  /\ hash = None /\ expires = 0 /\ sent = Null /\ attempts = 0
  /\ pc = [p \in Requests |-> "start"]
  /\ at = [p \in Requests |-> 0]
  /\ seen = [p \in Requests |-> None]
  /\ code = [p \in Requests |-> None]
  /\ mailed = {} /\ stored = {} /\ used = {} /\ tries = 0

Goto(p, step) == pc' = [pc EXCEPT ![p] = step]

(* Any error or early return: nothing was written *)
Leave(p) ==
  /\ Goto(p, "done")
  /\ UNCHANGED <<now, row, at, seen, code, mailed, hist>>

-----------------------------------------------------------------------------
(* request_reset: the account exists; without an email service it ends *)
RequestRead(p) ==
  /\ p \in Asking /\ pc[p] = "start"
  /\ at' = [at EXCEPT ![p] = now]
  /\ Goto(p, "store")
  /\ UNCHANGED <<now, row, seen, code, mailed, hist>>

(* Mutant: no cooldown in the WHERE clause *)
RequestStoreAnyway(p) ==
  /\ p \in Asking /\ pc[p] = "store"
  /\ hash' = p /\ expires' = at[p] + Expiry /\ sent' = at[p] /\ attempts' = 0
  /\ stored' = stored \cup {p}
  /\ Goto(p, "mail")
  /\ UNCHANGED <<now, at, seen, code, mailed, used, tries>>

(* UPDATE ... WHERE sent_at IS NULL OR sent_at <= now - cooldown *)
RequestStore(p) ==
  /\ p \in Asking /\ pc[p] = "store"
  /\ IF sent = Null \/ sent + Cooldown <= at[p]
     THEN /\ hash' = p /\ expires' = at[p] + Expiry /\ sent' = at[p]
          /\ attempts' = 0
          /\ stored' = stored \cup {p}
          /\ Goto(p, "mail")
     ELSE Goto(p, "done") /\ UNCHANGED <<row, stored>>          \* TooSoon
  /\ UNCHANGED <<now, at, seen, code, mailed, used, tries>>

(* The email is sent after the code was stored; it may fail *)
RequestMail(p) ==
  /\ pc[p] = "mail"
  /\ mailed' \in {mailed, mailed \cup {p}}
  /\ Goto(p, "done")
  /\ UNCHANGED <<now, row, at, seen, code, hist>>

-----------------------------------------------------------------------------
(* reset_password: a code the owner received, or a wrong one; nothing      *)
(* stored or an expired code ends it                                       *)
ResetRead(p) ==
  /\ p \notin Asking /\ pc[p] = "start"
  /\ \E c \in mailed \cup {None} : code' = [code EXCEPT ![p] = c]
  /\ seen' = [seen EXCEPT ![p] = hash]
  /\ Goto(p, IF hash = None \/ now > expires THEN "done" ELSE "claim")
  /\ UNCHANGED <<now, row, at, mailed, hist>>

(* Mutant: the number of attempts is not part of the WHERE clause *)
CountAttemptAnyway(p) ==
  /\ pc[p] = "claim"
  /\ attempts' = IF attempts < MaxAttempts THEN attempts + 1 ELSE attempts
  /\ tries' = tries + 1
  /\ Goto(p, IF code[p] = seen[p] THEN "commit" ELSE "done")
  /\ UNCHANGED <<now, hash, expires, sent, at, seen, code, mailed, stored, used>>

(* UPDATE ... attempts + 1 WHERE attempts < MAX, then the comparison with  *)
(* the hash read before                                                    *)
increment_failed_attempts(p) ==
  /\ pc[p] = "claim"
  /\ IF attempts < MaxAttempts
     THEN /\ attempts' = attempts + 1
          /\ tries' = tries + 1
          /\ Goto(p, IF code[p] = seen[p] THEN "commit" ELSE "done")
     ELSE Goto(p, "done") /\ UNCHANGED <<attempts, tries>>      \* TooManyAttempts
  /\ UNCHANGED <<now, hash, expires, sent, at, seen, code, mailed, stored, used>>

(* Mutant: the claim does not require a code to be stored *)
ResetCommitAnyway(p) ==
  /\ pc[p] = "commit"
  /\ hash' = None /\ expires' = 0 /\ sent' = Null /\ attempts' = 0
  /\ used' = used \cup {p}
  /\ Goto(p, "done")
  /\ UNCHANGED <<now, at, seen, code, mailed, stored, tries>>

(* The transaction: UPDATE ... WHERE password_reset_token_hash IS NOT NULL *)
(* holds the row until it commits                                          *)
ResetCommit(p) ==
  /\ pc[p] = "commit"
  /\ IF hash # None
     THEN /\ hash' = None /\ expires' = 0 /\ sent' = Null /\ attempts' = 0
          /\ used' = used \cup {p}
     ELSE UNCHANGED <<row, used>>                               \* rollback
  /\ Goto(p, "done")
  /\ UNCHANGED <<now, at, seen, code, mailed, stored, tries>>

DbError(p) == pc[p] # "done" /\ Leave(p)

Tick ==
  /\ now < MaxTime
  /\ now' = now + 1
  /\ UNCHANGED <<row, pc, at, seen, code, mailed, hist>>

request_reset(p) == RequestRead(p) \/ RequestStore(p) \/ RequestMail(p)
reset_password(p) == ResetRead(p) \/ increment_failed_attempts(p) \/ ResetCommit(p)

Next == Tick \/ \E p \in Requests : request_reset(p) \/ reset_password(p) \/ DbError(p)

Spec == Init /\ [][Next]_vars

-----------------------------------------------------------------------------
(* increment_failed_attempts: however guesses, new codes and resets        *)
(* interleave, a guess is compared at most MAX_FAILED_ATTEMPTS times per   *)
(* code issued and per reset made.                                         *)
GuessesAreBounded ==
  tries # 0 =>
    tries + MaxAttempts <=
      MaxAttempts * (Cardinality(stored) + Cardinality(used)) + attempts

(* Each successful reset takes a stored code away: there are never more    *)
(* resets than codes, whatever requests verified the same one.             *)
ResetsNeedCodes ==
  Cardinality(used) + (IF hash # None THEN 1 ELSE 0) <= Cardinality(stored)

(* The cooldown in the UPDATE: the codes issued up to now fit the elapsed  *)
(* time, with one more series after each reset, which clears sent_at.      *)
CooldownLimitsCodes ==
  Cardinality(stored) <= (1 + now \div Cooldown) * (1 + Cardinality(used))

=============================================================================
