---------------------------- MODULE Registration ----------------------------
(***************************************************************************)
(* Registration and email verification of one address: the register,       *)
(* create-user, verify-email and resend-code handlers,                     *)
(* VerificationService, and the semaphore that limits concurrent email     *)
(* sends.  Each SQL statement, permit and email is a step.  A code is      *)
(* named by the request that generated it; a verify-email request goes on  *)
(* as the background task that sends the welcome email.  Deadlines are     *)
(* kept as what has passed: the cooldown of sent_at, the expiry of a code. *)
(***************************************************************************)
EXTENDS Naturals, FiniteSets

CONSTANTS Requests,
          Allowed,      \* Allowed[p]: what request p may be
          MaxAttempts,  \* MAX_FAILED_ATTEMPTS
          MaxSends,     \* MAX_CONCURRENT_EMAIL_SENDS
          None

Ops == {"register", "create", "verify", "resend"}

ASSUME RegistrationAssumption ==
  /\ IsFiniteSet(Requests) /\ None \notin Requests
  /\ Allowed \in [Requests -> SUBSET Ops]
  /\ MaxAttempts \in Nat /\ MaxSends \in Nat \ {0}

VARIABLES
  exists,    \* the users row
  verified,  \* email_verified
  hash,      \* verification_code_hash: the code it is the hash of
  expired,   \* verification_code_expires_at has passed
  sent,      \* verification_code_sent_at: "null", "recent" or "past"
  attempts,  \* verification_failed_attempts
  permits,   \* requests that hold a permit of the limiter
  mailed,    \* codes the owner has received
  configured, \* the email service has SMTP settings
  op,        \* op[p]: what request p is
  pc, res,   \* control point and answer of each request
  seen,      \* seen[p]: hash that request p read
  code,      \* code[p]: code that request p presents
  failed,    \* failed[p]: welcome emails of p that failed
  issued, marked, tries   \* history: codes stored, verifications, comparisons

row == <<exists, verified, hash, expired, sent, attempts>>
local == <<configured, op, seen, code, failed>>
hist == <<issued, marked, tries>>
vars == <<row, permits, mailed, pc, res, local, hist>>

TypeOK ==
  /\ exists \in BOOLEAN /\ verified \in BOOLEAN /\ expired \in BOOLEAN
  /\ hash \in Requests \cup {None}
  /\ sent \in {"null", "recent", "past"}
  /\ attempts \in 0..MaxAttempts
  /\ permits \subseteq Requests /\ mailed \subseteq issued
  /\ pc \in [Requests -> {"start", "find", "store", "permit", "send", "auto", "aset",
                          "count", "mark", "wpermit", "wsend", "done"}]
  /\ res \in [Requests -> {"none", "ok", "retry", "conflict", "error"}]
  /\ configured \in BOOLEAN
  /\ op \in [Requests -> Ops]
  /\ seen \in [Requests -> Requests \cup {None}]
  /\ code \in [Requests -> Requests \cup {None}]
  /\ failed \in [Requests -> 0..2]
  /\ issued \subseteq Requests /\ marked \subseteq Requests /\ tries \in Nat

Init ==
  /\ exists = FALSE /\ verified = FALSE /\ hash = None /\ expired = FALSE
  /\ sent = "null" /\ attempts = 0
  /\ permits = {} /\ mailed = {}
  /\ pc = [p \in Requests |-> "start"]
  /\ res = [p \in Requests |-> "none"]
  /\ configured \in BOOLEAN
  /\ op \in [Requests -> Ops] /\ \A p \in Requests : op[p] \in Allowed[p]
  /\ seen = [p \in Requests |-> None]
  /\ code = [p \in Requests |-> None]
  /\ failed = [p \in Requests |-> 0]
  /\ issued = {} /\ marked = {} /\ tries = 0

At(p, o, step) == op[p] = o /\ pc[p] = step
Goto(p, step) == pc' = [pc EXCEPT ![p] = step]
Answer(p, r) == res' = [res EXCEPT ![p] = r] /\ Goto(p, "done")

(* A new code: hash, expiry, sent_at and a counter of zero *)
NewCode(p) ==
  /\ hash' = p /\ expired' = FALSE /\ sent' = "recent" /\ attempts' = 0
  /\ issued' = issued \cup {p}

-----------------------------------------------------------------------------
(* create_user: the INSERT, refused when the email is taken *)
Insert(p) ==
  /\ op[p] \in {"register", "create"} /\ pc[p] = "start"
  /\ IF exists
     THEN Answer(p, "conflict") /\ UNCHANGED exists
     ELSE /\ exists' = TRUE
          /\ Goto(p, IF op[p] = "register" THEN "find" ELSE "auto")
          /\ UNCHANGED res
  /\ UNCHANGED <<verified, hash, expired, sent, attempts, permits, mailed,
                 local, hist>>

(* send_verification_email: reads the row *)
SendFind(p) ==
  /\ At(p, "register", "find")
  /\ IF ~configured THEN Goto(p, "auto") /\ UNCHANGED res
     ELSE IF verified THEN Answer(p, "ok")
     ELSE Goto(p, "store") /\ UNCHANGED res
  /\ UNCHANGED <<row, permits, mailed, local, hist>>

(* Mutant: the UPDATE writes every column of the row that was read *)
StoreWholeModel(p) ==
  /\ At(p, "register", "store")
  /\ NewCode(p)
  /\ verified' = FALSE
  /\ Goto(p, "permit")
  /\ UNCHANGED <<exists, permits, mailed, res, local, marked, tries>>

(* store_verification_code: UPDATE by id of the columns that were set *)
store_verification_code(p) ==
  /\ At(p, "register", "store")
  /\ NewCode(p)
  /\ Goto(p, "permit")
  /\ UNCHANGED <<exists, verified, permits, mailed, res, local, marked, tries>>

(* resend_code: nothing to do for an unknown or verified address *)
ResendRead(p) ==
  /\ At(p, "resend", "start")
  /\ IF ~exists \/ verified THEN Answer(p, "ok")
     ELSE IF ~configured THEN Answer(p, "error")
     ELSE Goto(p, "store") /\ UNCHANGED res
  /\ UNCHANGED <<row, permits, mailed, local, hist>>

(* UPDATE ... WHERE sent_at IS NULL OR sent_at <= now - 60 s *)
ResendStore(p) ==
  /\ At(p, "resend", "store")
  /\ IF sent # "recent"
     THEN NewCode(p) /\ Goto(p, "permit") /\ UNCHANGED res
     ELSE Answer(p, "ok") /\ UNCHANGED <<hash, expired, sent, attempts, issued>>
  /\ UNCHANGED <<exists, verified, permits, mailed, local, marked, tries>>

-----------------------------------------------------------------------------
(* The limiter and the emails *)

Acquire(p) ==
  /\ pc[p] \in {"permit", "wpermit"}
  /\ Cardinality(permits) < MaxSends
  /\ permits' = permits \cup {p}
  /\ Goto(p, IF pc[p] = "permit" THEN "send" ELSE "wsend")
  /\ UNCHANGED <<row, mailed, res, local, hist>>

(* The email with the code.  When it fails, register falls back to         *)
(* auto_verify and resend-code reports an error.                           *)
SendCode(p) ==
  /\ pc[p] = "send"
  /\ permits' = permits \ {p}
  /\ \/ mailed' = mailed \cup {p} /\ Answer(p, "ok")
     \/ /\ UNCHANGED mailed
        /\ IF op[p] = "register" THEN Goto(p, "auto") /\ UNCHANGED res
                                 ELSE Answer(p, "error")
  /\ UNCHANGED <<row, local, hist>>

(* Mutant: the permit is kept when the welcome email has failed for good *)
SendWelcomeKeeping(p) ==
  /\ pc[p] = "wsend"
  /\ \/ Goto(p, "done") /\ permits' = permits \ {p} /\ UNCHANGED failed
     \/ /\ failed' = [failed EXCEPT ![p] = @ + 1]
        /\ IF failed[p] = 0 THEN UNCHANGED pc ELSE Goto(p, "done")
        /\ UNCHANGED permits
  /\ UNCHANGED <<row, mailed, res, configured, op, seen, code, hist>>

(* The background task: two attempts, one permit for both *)
SendWelcome(p) ==
  /\ pc[p] = "wsend"
  /\ \/ Goto(p, "done") /\ permits' = permits \ {p} /\ UNCHANGED failed
     \/ /\ failed' = [failed EXCEPT ![p] = @ + 1]
        /\ IF failed[p] = 0
           THEN UNCHANGED <<pc, permits>>
           ELSE Goto(p, "done") /\ permits' = permits \ {p}
  /\ UNCHANGED <<row, mailed, res, configured, op, seen, code, hist>>

(* auto_verify: the SELECT, then the UPDATE by id of email_verified.  A    *)
(* failure of either fails the registration; an account made by an admin   *)
(* is reported as created all the same.                                    *)
AutoFailed(p) == Answer(p, IF op[p] = "register" THEN "retry" ELSE "ok")

AutoFind(p) ==
  /\ pc[p] = "auto"
  /\ \/ IF verified THEN Answer(p, "ok") ELSE Goto(p, "aset") /\ UNCHANGED res
     \/ AutoFailed(p)
  /\ UNCHANGED <<row, permits, mailed, local, hist>>

AutoStore(p) ==
  /\ pc[p] = "aset"
  /\ \/ verified' = TRUE /\ Answer(p, "ok")
     \/ UNCHANGED verified /\ AutoFailed(p)
  /\ UNCHANGED <<exists, hash, expired, sent, attempts, permits, mailed, local,
                 hist>>

auto_verify(p) == AutoFind(p) \/ AutoStore(p)

-----------------------------------------------------------------------------
(* verify_email: a code the owner received, or a wrong one *)
VerifyRead(p) ==
  /\ At(p, "verify", "start")
  /\ \E c \in mailed \cup {None} : code' = [code EXCEPT ![p] = c]
  /\ seen' = [seen EXCEPT ![p] = hash]
  /\ IF ~exists \/ verified \/ hash = None \/ expired
     THEN Answer(p, "error") ELSE Goto(p, "count") /\ UNCHANGED res
  /\ UNCHANGED <<row, permits, mailed, configured, op, failed, hist>>

(* Mutant: the limit is checked on the row that was read, not in the UPDATE *)
CountAnyway(p) ==
  /\ pc[p] = "count"
  /\ attempts' = IF attempts < MaxAttempts THEN attempts + 1 ELSE attempts
  /\ tries' = tries + 1
  /\ IF code[p] = seen[p] THEN Goto(p, "mark") /\ UNCHANGED res
                          ELSE Answer(p, "error")
  /\ UNCHANGED <<exists, verified, hash, expired, sent, permits, mailed, local,
                 issued, marked>>

(* UPDATE ... attempts + 1 WHERE attempts < MAX, then the comparison with  *)
(* the hash read before                                                    *)
increment_failed_attempts(p) ==
  /\ pc[p] = "count"
  /\ IF attempts < MaxAttempts
     THEN /\ attempts' = attempts + 1 /\ tries' = tries + 1
          /\ IF code[p] = seen[p] THEN Goto(p, "mark") /\ UNCHANGED res
                                  ELSE Answer(p, "error")
     ELSE Answer(p, "error") /\ UNCHANGED <<attempts, tries>>
  /\ UNCHANGED <<exists, verified, hash, expired, sent, permits, mailed, local,
                 issued, marked>>

(* UPDATE by id: verified, the code cleared, the counter zero *)
VerifyMark(p) ==
  /\ pc[p] = "mark"
  /\ verified' = TRUE /\ hash' = None /\ expired' = FALSE /\ sent' = "null"
  /\ attempts' = 0
  /\ marked' = marked \cup {p}
  /\ res' = [res EXCEPT ![p] = "ok"]
  /\ Goto(p, IF configured THEN "wpermit" ELSE "done")
  /\ UNCHANGED <<exists, permits, mailed, local, issued, tries>>

-----------------------------------------------------------------------------
(* A statement fails.  Inside send_verification_email that only means the  *)
(* fallback; elsewhere it is the answer.                                   *)
DbError(p) ==
  /\ pc[p] \in {"start", "find", "store", "count", "mark"}
  /\ IF op[p] = "register" /\ pc[p] \in {"find", "store"}
     THEN Goto(p, "auto") /\ UNCHANGED res
     ELSE Answer(p, "error")
  /\ UNCHANGED <<row, permits, mailed, local, hist>>

(* The process dies with the requests it is serving and its semaphore *)
Crash ==
  /\ \E p \in Requests : pc[p] \notin {"start", "done"}
  /\ pc' = [p \in Requests |-> IF pc[p] = "start" THEN "start" ELSE "done"]
  /\ permits' = {}
  /\ UNCHANGED <<row, mailed, res, local, hist>>

CooldownPasses ==
  /\ sent = "recent" /\ sent' = "past"
  /\ UNCHANGED <<exists, verified, hash, expired, attempts, permits, mailed, pc,
                 res, local, hist>>

CodeExpires ==
  /\ hash # None /\ ~expired /\ sent = "past" /\ expired' = TRUE
  /\ UNCHANGED <<exists, verified, hash, sent, attempts, permits, mailed, pc,
                 res, local, hist>>

Step(p) ==
  \/ Insert(p) \/ SendFind(p) \/ store_verification_code(p)
  \/ ResendRead(p) \/ ResendStore(p) \/ Acquire(p) \/ SendCode(p)
  \/ SendWelcome(p) \/ auto_verify(p)
  \/ VerifyRead(p) \/ increment_failed_attempts(p) \/ VerifyMark(p)

Next ==
  \/ \E p \in Requests : Step(p) \/ DbError(p)
  \/ Crash \/ CooldownPasses \/ CodeExpires

Spec == Init /\ [][Next]_vars

(* Handlers and background tasks keep running, and every email ends in     *)
(* success or in an error                                                  *)
FairSpec == Spec /\ \A p \in Requests : WF_vars(Step(p))

-----------------------------------------------------------------------------
(* "to avoid orphan accounts that can neither log in nor re-register": a   *)
(* registration that was answered with success left an account that is     *)
(* verified or whose code its owner received, whichever step failed and    *)
(* fell back, and an owner whose code was accepted stays verified, although *)
(* register, auto_verify and verify_email write the row from copies that   *)
(* the others have changed since.                                          *)
NoOrphanAccounts ==
  \A p \in Requests : res[p] = "ok" =>
    /\ op[p] = "register" => verified \/ p \in mailed
    /\ op[p] = "verify" => verified

(* increment_failed_attempts: however guesses, new codes and verifications *)
(* interleave, a guess is compared at most MAX_FAILED_ATTEMPTS times per   *)
(* code issued and per verification.                                       *)
GuessesAreBounded ==
  tries # 0 =>
    tries + MaxAttempts <=
      MaxAttempts * (Cardinality(issued) + Cardinality(marked)) + attempts

(* No request waits for a permit forever: every path gives it back, the    *)
(* failures of an email included.                                          *)
MailQueueDrains ==
  \A p \in Requests : pc[p] \in {"permit", "wpermit"} ~> pc[p] = "done"
=============================================================================
