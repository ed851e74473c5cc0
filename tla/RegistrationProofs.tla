------------------------- MODULE RegistrationProofs -------------------------
(* Proofs about Registration, for any number of requests and any limits.   *)
EXTENDS Registration, FiniteSetTheorems, TLAPS

(* What a control point says of a request: on which side of storing a code *)
(* and of verifying the address it is, and that a guess is only counted    *)
(* once some code was stored.  Only verifications skip the emails.         *)
Control(p) ==
  /\ pc[p] \in {"start", "find", "store"} => p \notin issued
  /\ pc[p] \in {"permit", "send"} => p \in issued
  /\ pc[p] \in {"find", "store", "permit", "send", "auto", "aset"} => op[p] # "verify"
  /\ pc[p] \in {"start", "count", "mark"} => p \notin marked
  /\ pc[p] \in {"count", "mark"} => issued # {}
  /\ pc[p] # "done" => failed[p] <= 1

ControlInv ==
  /\ TypeOK
  /\ hash # None => hash \in issued
  /\ \A p \in Requests : Control(p)

RegistrationInv == ControlInv /\ GuessesAreBounded

-----------------------------------------------------------------------------
LEMMA TimesSuccessor ==
  ASSUME NEW a \in Nat, NEW c \in Nat
  PROVE  a * (c + 1) = a * c + a /\ a * c \in Nat
OBVIOUS

(* One more code, or one more verification, allows another MaxAttempts     *)
(* guesses, and the counter may start anew.                                *)
LEMMA OneMoreSeries ==
  ASSUME NEW m \in Nat, NEW n \in Nat, NEW a \in 0..m, NEW t \in Nat,
         t # 0 => t + m <= m * n + a
  PROVE  t # 0 => t + m <= m * (n + 1) + 0
BY TimesSuccessor

LEMMA ZeroAttempts == 0 \in 0..MaxAttempts
BY RegistrationAssumption

(* The histories are finite, and a request that joins one of them counts. *)
LEMMA Histories ==
  ASSUME TypeOK
  PROVE  /\ Cardinality(issued) \in Nat /\ Cardinality(marked) \in Nat
         /\ issued # {} => Cardinality(issued) >= 1
         /\ \A p : p \notin issued =>
              Cardinality(issued \cup {p}) = Cardinality(issued) + 1
         /\ \A p : p \notin marked =>
              Cardinality(marked \cup {p}) = Cardinality(marked) + 1
<1>1. IsFiniteSet(issued) /\ IsFiniteSet(marked)
  <2>1. issued \in SUBSET Requests /\ marked \in SUBSET Requests
    BY DEF TypeOK
  <2> QED BY <2>1, RegistrationAssumption, FS_Subset
<1>2. Cardinality(issued) \in Nat /\ Cardinality(marked) \in Nat
  BY <1>1, FS_CardinalityType
<1>3. issued # {} => Cardinality(issued) >= 1
  BY <1>1, <1>2, FS_EmptySet
<1> QED BY <1>1, <1>2, <1>3, FS_AddElement

-----------------------------------------------------------------------------
LEMMA ControlInvInit == Init => ControlInv
<1> SUFFICES ASSUME Init PROVE ControlInv
  OBVIOUS
<1>1. TypeOK
  <2>1. attempts \in 0..MaxAttempts /\ failed \in [Requests -> 0..2] /\ tries \in Nat
    BY ZeroAttempts DEF Init
  <2>2. /\ exists \in BOOLEAN /\ verified \in BOOLEAN /\ expired \in BOOLEAN
        /\ configured \in BOOLEAN
    BY Zenon DEF Init
  <2> QED BY <2>1, <2>2 DEF Init, TypeOK
<1>2. \A p \in Requests : Control(p)
  BY DEF Init, Control
<1> QED BY <1>1, <1>2 DEF ControlInv, Init

LEMMA ControlInvNext == ControlInv /\ [Next]_vars => ControlInv'
<1> SUFFICES ASSUME ControlInv, [Next]_vars PROVE ControlInv'
  OBVIOUS
<1> USE RegistrationAssumption
    DEF ControlInv, TypeOK, Control, At, Goto, Answer, row, local, hist
<1>1. ASSUME NEW p \in Requests, Insert(p) PROVE ControlInv'
  <2>1. TypeOK'
    BY <1>1 DEF Insert
  <2>2. ASSUME NEW q \in Requests PROVE Control(q)'
    BY <1>1 DEF Insert
  <2>3. (hash # None => hash \in issued)'
    BY <1>1 DEF Insert
  <2> QED BY <2>1, <2>2, <2>3
<1>2. ASSUME NEW p \in Requests, SendFind(p) PROVE ControlInv'
  BY <1>2 DEF SendFind
<1>3. ASSUME NEW p \in Requests, store_verification_code(p) PROVE ControlInv'
  <2>1. TypeOK'
    BY <1>3, ZeroAttempts DEF store_verification_code, NewCode
  <2>2. ASSUME NEW q \in Requests PROVE Control(q)'
    BY <1>3 DEF store_verification_code, NewCode
  <2>3. (hash # None => hash \in issued)'
    BY <1>3 DEF store_verification_code, NewCode
  <2> QED BY <2>1, <2>2, <2>3
<1>4. ASSUME NEW p \in Requests, ResendRead(p) PROVE ControlInv'
  BY <1>4 DEF ResendRead
<1>5. ASSUME NEW p \in Requests, ResendStore(p) PROVE ControlInv'
  <2>1. TypeOK'
    <3>1. CASE sent # "recent"
      <4>1. /\ hash' = p /\ expired' = FALSE /\ sent' = "recent" /\ attempts' = 0
            /\ issued' = issued \cup {p} /\ pc' = [pc EXCEPT ![p] = "permit"]
            /\ UNCHANGED <<exists, verified, permits, mailed, res, local, marked, tries>>
        BY <1>5, <3>1 DEF ResendStore, NewCode
      <4> QED BY <4>1, ZeroAttempts
    <3>2. CASE sent = "recent"
      BY <1>5, <3>2 DEF ResendStore
    <3> QED BY <3>1, <3>2
  <2>2. ASSUME NEW q \in Requests PROVE Control(q)'
    BY <1>5 DEF ResendStore, NewCode
  <2>3. (hash # None => hash \in issued)'
    BY <1>5 DEF ResendStore, NewCode
  <2> QED BY <2>1, <2>2, <2>3
<1>6. ASSUME NEW p \in Requests, Acquire(p) PROVE ControlInv'
  BY <1>6 DEF Acquire
<1>7. ASSUME NEW p \in Requests, SendCode(p) PROVE ControlInv'
  BY <1>7 DEF SendCode
<1>8. ASSUME NEW p \in Requests, SendWelcome(p) PROVE ControlInv'
  BY <1>8 DEF SendWelcome
<1>9. ASSUME NEW p \in Requests, auto_verify(p) PROVE ControlInv'
  <2>1. CASE AutoFind(p)
    BY <2>1 DEF AutoFind, AutoFailed
  <2>2. CASE AutoStore(p)
    <3>1. TypeOK'
      BY <2>2 DEF AutoStore, AutoFailed
    <3>2. ASSUME NEW q \in Requests PROVE Control(q)'
      BY <2>2 DEF AutoStore, AutoFailed
    <3>3. (hash # None => hash \in issued)'
      BY <2>2 DEF AutoStore
    <3> QED BY <3>1, <3>2, <3>3
  <2> QED BY <1>9, <2>1, <2>2 DEF auto_verify
<1>10. ASSUME NEW p \in Requests, VerifyRead(p) PROVE ControlInv'
  BY <1>10 DEF VerifyRead
<1>11. ASSUME NEW p \in Requests, increment_failed_attempts(p) PROVE ControlInv'
  <2>1. TypeOK'
    BY <1>11 DEF increment_failed_attempts
  <2>2. ASSUME NEW q \in Requests PROVE Control(q)'
    BY <1>11 DEF increment_failed_attempts
  <2>3. (hash # None => hash \in issued)'
    BY <1>11 DEF increment_failed_attempts
  <2> QED BY <2>1, <2>2, <2>3 DEF ControlInv
<1>12. ASSUME NEW p \in Requests, VerifyMark(p) PROVE ControlInv'
  <2>1. TypeOK'
    BY <1>12, ZeroAttempts DEF VerifyMark
  <2>2. ASSUME NEW q \in Requests PROVE Control(q)'
    BY <1>12 DEF VerifyMark
  <2> QED BY <1>12, <2>1, <2>2 DEF VerifyMark
<1>13. ASSUME NEW p \in Requests, DbError(p) PROVE ControlInv'
  BY <1>13 DEF DbError
<1>14. CASE Crash
  BY <1>14 DEF Crash
<1>15. CASE CooldownPasses \/ CodeExpires
  BY <1>15 DEF CooldownPasses, CodeExpires
<1>16. CASE UNCHANGED vars
  BY <1>16 DEF vars
<1> QED
  BY <1>1, <1>2, <1>3, <1>4, <1>5, <1>6, <1>7, <1>8, <1>9, <1>10, <1>11, <1>12,
     <1>13, <1>14, <1>15, <1>16
     DEF Next, Step

-----------------------------------------------------------------------------
(* A new code starts the count of guesses anew. *)
LEMMA NewCodeKeepsBound ==
  ASSUME RegistrationInv, NEW p \in Requests, p \notin issued, NewCode(p),
         UNCHANGED <<marked, tries>>
  PROVE  GuessesAreBounded'
<1> DEFINE n == Cardinality(issued) + Cardinality(marked)
<1>1. /\ n \in Nat
      /\ Cardinality(issued') + Cardinality(marked') = n + 1
  BY Histories DEF RegistrationInv, ControlInv, NewCode
<1>2. tries # 0 => tries + MaxAttempts <= MaxAttempts * (n + 1) + 0
  <2>1. tries # 0 => tries + MaxAttempts <= MaxAttempts * n + attempts
    BY DEF RegistrationInv, GuessesAreBounded
  <2>2. attempts \in 0..MaxAttempts /\ tries \in Nat /\ MaxAttempts \in Nat
    BY RegistrationAssumption DEF RegistrationInv, ControlInv, TypeOK
  <2> HIDE DEF n
  <2> QED BY <1>1, <2>1, <2>2, OneMoreSeries
<1> QED BY <1>1, <1>2 DEF NewCode, GuessesAreBounded

(* A verification clears the counter with the code. *)
LEMMA MarkKeepsBound ==
  ASSUME RegistrationInv, NEW p \in Requests, VerifyMark(p)
  PROVE  GuessesAreBounded'
<1> DEFINE n == Cardinality(issued) + Cardinality(marked)
<1>0. /\ attempts' = 0 /\ marked' = marked \cup {p} /\ UNCHANGED <<issued, tries>>
      /\ p \notin marked
  BY DEF VerifyMark, RegistrationInv, ControlInv, Control
<1>1. /\ n \in Nat
      /\ Cardinality(issued') + Cardinality(marked') = n + 1
  BY <1>0, Histories DEF RegistrationInv, ControlInv
<1>2. tries # 0 => tries + MaxAttempts <= MaxAttempts * (n + 1) + 0
  <2>1. tries # 0 => tries + MaxAttempts <= MaxAttempts * n + attempts
    BY DEF RegistrationInv, GuessesAreBounded
  <2>2. attempts \in 0..MaxAttempts /\ tries \in Nat /\ MaxAttempts \in Nat
    BY RegistrationAssumption DEF RegistrationInv, ControlInv, TypeOK
  <2> HIDE DEF n
  <2> QED BY <1>1, <2>1, <2>2, OneMoreSeries
<1> QED BY <1>0, <1>1, <1>2 DEF GuessesAreBounded

(* A guess that is compared was counted first, below the limit. *)
LEMMA GuessKeepsBound ==
  ASSUME RegistrationInv, NEW p \in Requests, increment_failed_attempts(p)
  PROVE  GuessesAreBounded'
<1> DEFINE n == Cardinality(issued) + Cardinality(marked)
<1>1. UNCHANGED <<issued, marked>>
  BY DEF increment_failed_attempts
<1>2. CASE ~(attempts < MaxAttempts)
  BY <1>1, <1>2 DEF increment_failed_attempts, RegistrationInv, GuessesAreBounded
<1>3. CASE attempts < MaxAttempts
  <2>1. attempts' = attempts + 1 /\ tries' = tries + 1 /\ issued # {}
    BY <1>3 DEF increment_failed_attempts, RegistrationInv, ControlInv, Control
  <2>2. attempts \in Nat /\ tries \in Nat /\ MaxAttempts \in Nat
    BY RegistrationAssumption DEF RegistrationInv, ControlInv, TypeOK
  <2>3. n \in Nat /\ n >= 1
    BY <2>1, Histories DEF RegistrationInv, ControlInv
  <2>4. MaxAttempts <= MaxAttempts * n /\ MaxAttempts * n \in Nat
    BY <2>2, <2>3, TimesSuccessor, n - 1 \in Nat, (n - 1) + 1 = n
  <2>5. tries # 0 => tries + MaxAttempts <= MaxAttempts * n + attempts
    BY DEF RegistrationInv, GuessesAreBounded
  <2>6. (tries + 1) + MaxAttempts <= MaxAttempts * n + (attempts + 1)
    BY <2>2, <2>4, <2>5
  <2> QED BY <1>1, <2>1, <2>6 DEF GuessesAreBounded
<1> QED BY <1>2, <1>3

LEMMA RegistrationInvNext == RegistrationInv /\ [Next]_vars => RegistrationInv'
<1> SUFFICES ASSUME RegistrationInv, [Next]_vars PROVE GuessesAreBounded'
  BY ControlInvNext DEF RegistrationInv
<1> DEFINE Counts == <<attempts, issued, marked, tries>>
<1>1. ASSUME UNCHANGED Counts PROVE GuessesAreBounded'
  BY <1>1 DEF RegistrationInv, GuessesAreBounded
<1>2. ASSUME NEW p \in Requests,
             \/ Insert(p) \/ SendFind(p) \/ ResendRead(p) \/ Acquire(p)
             \/ SendCode(p) \/ SendWelcome(p) \/ auto_verify(p) \/ VerifyRead(p)
             \/ DbError(p)
      PROVE  UNCHANGED Counts
  BY <1>2 DEF Insert, SendFind, ResendRead, Acquire, SendCode, SendWelcome,
              auto_verify, AutoFind, AutoStore, VerifyRead, DbError, row, hist
<1>3. ASSUME NEW p \in Requests, store_verification_code(p) PROVE GuessesAreBounded'
  BY <1>3, NewCodeKeepsBound
     DEF store_verification_code, At, RegistrationInv, ControlInv, Control
<1>4. ASSUME NEW p \in Requests, ResendStore(p) PROVE GuessesAreBounded'
  <2>1. CASE sent # "recent"
    BY <1>4, <2>1, NewCodeKeepsBound
       DEF ResendStore, At, RegistrationInv, ControlInv, Control
  <2>2. CASE sent = "recent"
    BY <1>4, <2>2, <1>1 DEF ResendStore
  <2> QED BY <2>1, <2>2
<1>5. CASE Crash \/ CooldownPasses \/ CodeExpires \/ UNCHANGED vars
  BY <1>1, <1>5 DEF Crash, CooldownPasses, CodeExpires, vars, row, hist
<1> QED
  BY <1>1, <1>2, <1>3, <1>4, <1>5, GuessKeepsBound, MarkKeepsBound DEF Next, Step

(* However guesses, new codes and verifications of one address interleave, *)
(* increment_failed_attempts lets at most MAX_FAILED_ATTEMPTS guesses be   *)
(* compared per code issued and per verification.                          *)
THEOREM GuessingIsLimited == Spec => []GuessesAreBounded
<1>1. Init => RegistrationInv
  BY ControlInvInit DEF RegistrationInv, Init, GuessesAreBounded
<1>2. RegistrationInv => GuessesAreBounded
  BY DEF RegistrationInv
<1> QED BY <1>1, <1>2, RegistrationInvNext, PTL DEF Spec

-----------------------------------------------------------------------------
(* What a step of p may do to the answers: verified and mailed only grow,  *)
(* and an answer of success comes with what it says.                       *)
AnswerStep(p) ==
  /\ op' = op /\ mailed \subseteq mailed' /\ (verified => verified')
  /\ \A q \in Requests : q # p => res'[q] = res[q]
  /\ \/ res' = res
     \/ res'[p] \in {"retry", "conflict", "error"}
     \/ op[p] \in {"create", "resend"}
     \/ op[p] = "register" /\ (verified' \/ p \in mailed')
     \/ verified'

LEMMA StepsAnswerTruly ==
  ASSUME ControlInv, NEW p \in Requests, Step(p) \/ DbError(p)
  PROVE  AnswerStep(p)
<1> USE DEF AnswerStep, At, Goto, Answer, row, local, hist
<1>t. res \in [Requests -> {"none", "ok", "retry", "conflict", "error"}] /\ op \in [Requests -> Ops]
  BY DEF ControlInv, TypeOK
<1>1. CASE Insert(p)
  BY <1>1, <1>t DEF Insert
<1>2. CASE SendFind(p)
  BY <1>2, <1>t DEF SendFind
<1>3. CASE store_verification_code(p)
  BY <1>3, <1>t DEF store_verification_code
<1>4. CASE ResendRead(p) \/ ResendStore(p)
  BY <1>4, <1>t DEF ResendRead, ResendStore
<1>5. CASE Acquire(p) \/ SendWelcome(p)
  BY <1>5, <1>t DEF Acquire, SendWelcome
<1>6. CASE SendCode(p)
  <2>1. UNCHANGED <<op, verified>> /\ mailed \subseteq mailed'
    BY <1>6 DEF SendCode
  <2>2. \A q \in Requests : q # p => res'[q] = res[q]
    BY <1>6, <1>t DEF SendCode
  <2>3. res' = res \/ res'[p] = "error" \/ p \in mailed'
    BY <1>6, <1>t DEF SendCode
  <2>4. op[p] \in {"register", "create", "resend"}
    BY <1>6, <1>t DEF SendCode, ControlInv, Control, Ops
  <2> QED BY <2>1, <2>2, <2>3, <2>4
<1>7. CASE auto_verify(p)
  <2>1. op[p] \in {"register", "create", "resend"}
    BY <1>7, <1>t DEF auto_verify, AutoFind, AutoStore, ControlInv, Control, Ops
  <2>2. CASE AutoFind(p)
    BY <2>1, <2>2, <1>t DEF AutoFind, AutoFailed
  <2>3. CASE AutoStore(p)
    BY <2>1, <2>3, <1>t DEF AutoStore, AutoFailed
  <2> QED BY <1>7, <2>2, <2>3 DEF auto_verify
<1>8. CASE VerifyRead(p) \/ increment_failed_attempts(p)
  BY <1>8, <1>t DEF VerifyRead, increment_failed_attempts
<1>9. CASE VerifyMark(p)
  BY <1>9, <1>t DEF VerifyMark
<1>10. CASE DbError(p)
  BY <1>10, <1>t DEF DbError
<1> QED BY <1>1, <1>2, <1>3, <1>4, <1>5, <1>6, <1>7, <1>8, <1>9, <1>10 DEF Step

LEMMA NoOrphansNext == ControlInv /\ NoOrphanAccounts /\ [Next]_vars => NoOrphanAccounts'
<1> SUFFICES ASSUME ControlInv, NoOrphanAccounts, [Next]_vars PROVE NoOrphanAccounts'
  OBVIOUS
<1>1. ASSUME NEW p \in Requests, Step(p) \/ DbError(p) PROVE NoOrphanAccounts'
  BY <1>1, StepsAnswerTruly DEF AnswerStep, NoOrphanAccounts
<1>2. CASE Crash \/ CooldownPasses \/ CodeExpires \/ UNCHANGED vars
  <2>1. UNCHANGED <<res, op, verified, mailed>>
    BY <1>2 DEF Crash, CooldownPasses, CodeExpires, vars, row, local
  <2> QED BY <2>1 DEF NoOrphanAccounts
<1> QED BY <1>1, <1>2 DEF Next

(* Whatever fails and falls back, a registration answered with success     *)
(* leaves an account that is verified or whose code was mailed, and an     *)
(* owner whose code verify_email accepted stays verified, although         *)
(* register, auto_verify and verify_email all write a row they read before *)
(* the others changed it.                                                  *)
THEOREM AnsweredRegistrationsAreUsable == Spec => []NoOrphanAccounts
<1>1. Init => ControlInv /\ NoOrphanAccounts
  BY ControlInvInit DEF Init, NoOrphanAccounts
<1> QED BY <1>1, ControlInvNext, NoOrphansNext, PTL DEF Spec

-----------------------------------------------------------------------------
(* A request holds a permit of the semaphore exactly while it is sending,  *)
(* and there are never more than MAX_CONCURRENT_EMAIL_SENDS of them.       *)
LimiterHolds ==
  /\ permits = {p \in Requests : pc[p] \in {"send", "wsend"}}
  /\ Cardinality(permits) <= MaxSends

LimiterInv == ControlInv /\ LimiterHolds

LEMMA LimiterInvNext == LimiterInv /\ [Next]_vars => LimiterInv'
<1> SUFFICES ASSUME LimiterInv, [Next]_vars PROVE LimiterHolds'
  BY ControlInvNext DEF LimiterInv
<1> DEFINE Sending(p) == pc[p] \in {"send", "wsend"}
<1> USE DEF LimiterInv, ControlInv
<1>0. IsFiniteSet(permits) /\ Cardinality(permits) \in Nat /\ MaxSends \in Nat
  <2>1. permits \in SUBSET Requests
    BY DEF TypeOK
  <2> QED BY <2>1, RegistrationAssumption, FS_Subset, FS_CardinalityType
<1>1. ASSUME UNCHANGED permits, \A q \in Requests : Sending(q)' <=> Sending(q)
      PROVE  LimiterHolds'
  BY <1>1 DEF LimiterHolds
<1>2. ASSUME NEW p \in Requests,
             \/ Insert(p) \/ SendFind(p) \/ store_verification_code(p)
             \/ ResendRead(p) \/ ResendStore(p) \/ auto_verify(p)
             \/ VerifyRead(p) \/ increment_failed_attempts(p) \/ VerifyMark(p)
             \/ DbError(p)
      PROVE  UNCHANGED permits /\ \A q \in Requests : Sending(q)' <=> Sending(q)
  BY <1>2 DEF Insert, SendFind, store_verification_code, ResendRead, ResendStore,
              auto_verify, AutoFind, AutoStore, AutoFailed, VerifyRead,
              increment_failed_attempts, VerifyMark,
              DbError, At, Goto, Answer, TypeOK
<1>3. ASSUME NEW p \in Requests, Acquire(p) PROVE LimiterHolds'
  <2>1. /\ permits' = permits \cup {p} /\ p \notin permits
        /\ Cardinality(permits) < MaxSends
    BY <1>3 DEF Acquire, LimiterHolds
  <2>2. Cardinality(permits') <= MaxSends
    BY <2>1, <1>0, FS_AddElement
  <2>3. \A q \in Requests : Sending(q)' <=> Sending(q) \/ q = p
    BY <1>3 DEF Acquire, Goto, TypeOK
  <2> QED BY <2>1, <2>2, <2>3 DEF LimiterHolds
<1>4. ASSUME NEW p \in Requests, permits' = permits \ {p},
             \A q \in Requests : Sending(q)' <=> Sending(q) /\ q # p
      PROVE  LimiterHolds'
  <2>1. Cardinality(permits') <= MaxSends
    <3>1. Cardinality(permits \ {p}) \in {Cardinality(permits), Cardinality(permits) - 1}
      BY <1>0, FS_RemoveElement, permits \ {p} = permits \/ p \in permits
    <3> QED BY <1>0, <1>4, <3>1 DEF LimiterHolds
  <2> QED BY <1>4, <2>1 DEF LimiterHolds
<1>5. ASSUME NEW p \in Requests, SendCode(p) PROVE LimiterHolds'
  BY <1>4, <1>5 DEF SendCode, Goto, Answer, TypeOK
<1>6. ASSUME NEW p \in Requests, SendWelcome(p) PROVE LimiterHolds'
  BY <1>1, <1>4, <1>6 DEF SendWelcome, Goto, TypeOK
<1>7. CASE Crash
  BY <1>7, RegistrationAssumption, FS_EmptySet DEF Crash, LimiterHolds
<1>8. CASE CooldownPasses \/ CodeExpires \/ UNCHANGED vars
  BY <1>1, <1>8 DEF CooldownPasses, CodeExpires, vars
<1> QED BY <1>1, <1>2, <1>3, <1>5, <1>6, <1>7, <1>8 DEF Next, Step

(* Whatever emails fail, are retried or are cut off by a crash, the        *)
(* email limiter neither leaks a permit nor hands out one too many.        *)
THEOREM LimiterIsExact == Spec => []LimiterHolds
<1>1. Init => LimiterInv
  BY ControlInvInit, RegistrationAssumption, FS_EmptySet DEF LimiterInv, Init, LimiterHolds
<1>2. LimiterInv => LimiterHolds
  BY DEF LimiterInv
<1> QED BY <1>1, <1>2, LimiterInvNext, PTL DEF Spec
=============================================================================
