-------------------------- MODULE DataAccessProofs --------------------------
(* Proofs about what a service reads its data through: the cache and its   *)
(* lock, for any number of callers and any TTL, and the router, for any    *)
(* number of requests, replicas and retries.                               *)
EXTENDS CacheLock, AutoRouter, FiniteSetTheorems, TLAPS

(* The TTL of the lock and the age of its owner's SET add up. *)
AgesAgree ==
  /\ \A c \in Callers : lock.owner = c => lock.ttl + age[c] = LockTTL
  /\ lock.owner # NoOwner => lock.ttl > 0

LockInv == TypeOK /\ AgesAgree /\ FreshGuardOwnsLock

LEMMA LockInvInit == Init => LockInv
<1> SUFFICES ASSUME Init PROVE LockInv
  OBVIOUS
<1>1. TypeOK
  <2>1. pc \in [Callers -> Points]
    BY DEF Init, Points
  <2>2. /\ lock \in [owner : Callers \cup {NoOwner}, ttl : 0..LockTTL]
        /\ tries \in [Callers -> 0..MaxRetries]
        /\ age \in [Callers -> 0..LockTTL]
    BY CacheLockAssumption DEF Init, Free
  <2>3. /\ guard \in [Callers -> {"none", "held", "dropped"}]
        /\ blind \in [Callers -> BOOLEAN]
    BY DEF Init
  <2> QED BY <2>1, <2>2, <2>3 DEF Init, TypeOK
<1>2. lock.owner = NoOwner
  BY DEF Init, Free
<1>3. \A c \in Callers : guard[c] = "none"
  BY DEF Init
<1> QED
  BY <1>1, <1>2, <1>3, CacheLockAssumption
     DEF LockInv, AgesAgree, FreshGuardOwnsLock, Fresh

(* A step that leaves the lock and the ages alone, and gives nobody a      *)
(* guard, preserves the invariant                                          *)
LEMMA LockUntouched ==
  ASSUME LockInv, TypeOK', UNCHANGED <<lock, age>>,
         \A c \in Callers : guard'[c] = "held" => guard[c] = "held"
  PROVE  LockInv'
BY DEF LockInv, AgesAgree, FreshGuardOwnsLock, Fresh

(* So does one that releases the caller's own lock, its guard gone         *)
LEMMA LockReleased ==
  ASSUME LockInv, TypeOK', age' = age, NEW c \in Callers, release_lock(c),
         guard'[c] # "held",
         \A d \in Callers : guard'[d] = "held" => guard[d] = "held"
  PROVE  LockInv'
<1>1. CASE lock.owner = c
  <2>1. lock' = Free
    BY <1>1 DEF release_lock
  <2>2. \A d \in Callers : d # c => ~Fresh(d)
    BY <1>1 DEF LockInv, FreshGuardOwnsLock
  <2> QED
    BY <2>1, <2>2, CacheLockAssumption
       DEF LockInv, AgesAgree, FreshGuardOwnsLock, Fresh, Free
<1>2. CASE lock.owner # c
  BY <1>2, LockUntouched DEF release_lock
<1> QED BY <1>1, <1>2

LEMMA TypeStep == TypeOK /\ [Next]_vars => TypeOK'
<1> SUFFICES ASSUME TypeOK, [Next]_vars PROVE TypeOK'
  OBVIOUS
<1> USE CacheLockAssumption
    DEF TypeOK, Points, redis, local, Goto, Return
<1>1. ASSUME NEW c \in Callers, FirstGet(c) PROVE TypeOK'
  BY <1>1 DEF FirstGet
<1>2. ASSUME NEW c \in Callers, CheckNull(c) PROVE TypeOK'
  BY <1>2 DEF CheckNull
<1>3. ASSUME NEW c \in Callers, NoClient(c) PROVE TypeOK'
  BY <1>3 DEF NoClient, NotAcquired
<1>4. ASSUME NEW c \in Callers, AcquireError(c) PROVE TypeOK'
  BY <1>4 DEF AcquireError, AcquireFailed
<1>5. ASSUME NEW c \in Callers, try_acquire(c) PROVE TypeOK'
  BY <1>5 DEF try_acquire, AcquireFailed, SetNxEx
<1>6. ASSUME NEW c \in Callers, Contended(c) PROVE TypeOK'
  BY <1>6 DEF Contended, NotAcquired
<1>7. ASSUME NEW c \in Callers, DoubleCheck(c) PROVE TypeOK'
  BY <1>7 DEF DoubleCheck
<1>8. ASSUME NEW c \in Callers, Poll(c) PROVE TypeOK'
  BY <1>8 DEF Poll
<1>9. ASSUME NEW c \in Callers, Compute(c) PROVE TypeOK'
  BY <1>9 DEF Compute
<1>10. ASSUME NEW c \in Callers, Populate(c) PROVE TypeOK'
  BY <1>10 DEF Populate, set
<1>11. ASSUME NEW c \in Callers, JobDone(c) PROVE TypeOK'
  BY <1>11 DEF JobDone
<1>12. ASSUME NEW c \in Callers, Release(c) PROVE TypeOK'
  BY <1>12 DEF Release, release_lock, Free
<1>13. ASSUME NEW c \in Callers, DropRelease(c) PROVE TypeOK'
  BY <1>13 DEF DropRelease, release_lock, Free
<1>14. ASSUME NEW c \in Callers, Cancel(c) PROVE TypeOK'
  BY <1>14 DEF Cancel
<1>15. ASSUME NEW c \in Callers, Crash(c) PROVE TypeOK'
  BY <1>15 DEF Crash
<1>16. CASE OtherSet \/ set_null \/ invalidate \/ EntryExpires \/ NullExpires
  BY <1>16 DEF OtherSet, set_null, invalidate, EntryExpires, NullExpires
<1>17. CASE Tick
  BY <1>17 DEF Tick, Free
<1>18. CASE UNCHANGED vars
  BY <1>18 DEF vars
<1> QED
  BY <1>1, <1>2, <1>3, <1>4, <1>5, <1>6, <1>7, <1>8, <1>9, <1>10, <1>11,
     <1>12, <1>13, <1>14, <1>15, <1>16, <1>17, <1>18 DEF Next, Step

LEMMA LockInvNext == LockInv /\ [Next]_vars => LockInv'
<1> SUFFICES ASSUME LockInv, [Next]_vars PROVE LockInv'
  OBVIOUS
<1>0. TypeOK /\ TypeOK'
  BY TypeStep DEF LockInv
<1>1. ASSUME NEW c \in Callers, try_acquire(c) PROVE LockInv'
  <2>1. /\ lock.owner = NoOwner /\ lock' = [owner |-> c, ttl |-> LockTTL]
        /\ age' = [age EXCEPT ![c] = 0]
        /\ \A d \in Callers : d # c /\ guard'[d] = "held" => guard[d] = "held"
    BY <1>0, <1>1 DEF try_acquire, SetNxEx, AcquireFailed, Return, TypeOK
  <2>2. \A d \in Callers : ~Fresh(d)
    BY <2>1, CacheLockAssumption DEF LockInv, FreshGuardOwnsLock
  <2>3. AgesAgree'
    BY <1>0, <2>1, CacheLockAssumption DEF AgesAgree, TypeOK
  <2>4. FreshGuardOwnsLock'
    BY <1>0, <2>1, <2>2 DEF FreshGuardOwnsLock, Fresh, TypeOK
  <2> QED BY <1>0, <2>3, <2>4 DEF LockInv
<1>2. ASSUME NEW c \in Callers, Release(c) PROVE LockInv'
  <2>1. age' = age /\ guard'[c] # "held"
        /\ \A d \in Callers : guard'[d] = "held" => guard[d] = "held"
    BY <1>0, <1>2 DEF Release, Return, TypeOK
  <2>2. release_lock(c) \/ lock' = lock
    BY <1>2 DEF Release
  <2> QED BY <1>0, <2>1, <2>2, LockReleased, LockUntouched
<1>3. ASSUME NEW c \in Callers, DropRelease(c) PROVE LockInv'
  <2>1. age' = age /\ guard'[c] # "held"
        /\ \A d \in Callers : guard'[d] = "held" => guard[d] = "held"
    BY <1>0, <1>3 DEF DropRelease, TypeOK
  <2>2. release_lock(c) \/ lock' = lock
    BY <1>3 DEF DropRelease
  <2> QED BY <1>0, <2>1, <2>2, LockReleased, LockUntouched
<1>4. CASE Tick
  <2>1. AgesAgree'
    BY <1>0, <1>4, CacheLockAssumption DEF LockInv, Tick, AgesAgree, TypeOK, Free
  <2>2. ASSUME NEW c \in Callers, Fresh(c)' PROVE lock'.owner = c
    <3>1. Fresh(c) /\ age'[c] = age[c] + 1 /\ age[c] + 1 < LockTTL
      BY <1>0, <1>4, <2>2, CacheLockAssumption DEF Tick, Fresh, TypeOK
    <3>2. lock.owner = c /\ lock.ttl > 1
      BY <1>0, <3>1, CacheLockAssumption DEF LockInv, AgesAgree, FreshGuardOwnsLock, TypeOK
    <3> QED BY <1>0, <1>4, <3>2 DEF Tick, TypeOK
  <2> QED BY <1>0, <2>1, <2>2 DEF LockInv, FreshGuardOwnsLock
<1>5. ASSUME NEW c \in Callers,
             \/ FirstGet(c) \/ CheckNull(c) \/ NoClient(c) \/ AcquireError(c)
             \/ Contended(c) \/ DoubleCheck(c) \/ Poll(c) \/ Compute(c)
             \/ Populate(c) \/ JobDone(c) \/ Cancel(c) \/ Crash(c)
      PROVE  LockInv'
  <2>1. UNCHANGED <<lock, age>>
    BY <1>5 DEF FirstGet, CheckNull, NoClient, AcquireError, Contended,
                DoubleCheck, Poll, Compute, Populate, JobDone, Cancel, Crash,
                redis, local
  <2>2. \A d \in Callers : guard'[d] = "held" => guard[d] = "held"
    <3>1. CASE FirstGet(c) \/ CheckNull(c) \/ DoubleCheck(c) \/ Poll(c)
      BY <1>0, <3>1 DEF FirstGet, CheckNull, DoubleCheck, Poll, Return, TypeOK
    <3>2. CASE NoClient(c) \/ AcquireError(c) \/ Contended(c)
      BY <1>0, <3>2 DEF NoClient, AcquireError, Contended, NotAcquired,
                        AcquireFailed, Return, TypeOK
    <3>3. CASE Compute(c) \/ Populate(c) \/ JobDone(c) \/ Cancel(c) \/ Crash(c)
      BY <1>0, <3>3 DEF Compute, Populate, JobDone, Cancel, Crash, Return,
                        TypeOK, local
    <3> QED BY <1>5, <3>1, <3>2, <3>3
  <2> QED BY <1>0, <2>1, <2>2, LockUntouched
<1>6. CASE OtherSet \/ set_null \/ invalidate \/ EntryExpires \/ NullExpires
  <2>1. UNCHANGED <<lock, age, guard>>
    BY <1>6 DEF OtherSet, set_null, invalidate, EntryExpires, NullExpires, local
  <2> QED BY <1>0, <2>1, LockUntouched
<1>7. CASE UNCHANGED vars
  <2>1. UNCHANGED <<lock, age, guard>>
    BY <1>7 DEF vars, redis, local
  <2> QED BY <1>0, <2>1, LockUntouched
<1> QED
  BY <1>1, <1>2, <1>3, <1>4, <1>5, <1>6, <1>7 DEF Next, Step

(* A guard whose TTL has not passed owns the lock in Redis, for any number *)
(* of callers, retries and TTL, with errors, cancellations and crashes.    *)
THEOREM LockIsExclusive == Spec => []FreshGuardOwnsLock
<1>1. LockInv => FreshGuardOwnsLock
  BY DEF LockInv
<1> QED BY <1>1, LockInvInit, LockInvNext, PTL DEF Spec

-----------------------------------------------------------------------------
(* The value of an earlier owner.  A guard exists only between its SET and *)
(* the end of the call; a fresh one excludes every other fresh one, so     *)
(* nobody stores an owner's value while its holder is computing.           *)
GuardPlaces ==
  \A c \in Callers :
    guard[c] = "held" => pc[c] \in {"again", "compute", "set", "work", "release"}

OwnersInv == GuardPlaces /\ OwnersValueIsNotRecomputed

LEMMA OwnersInvInit == Init => OwnersInv
BY DEF Init, OwnersInv, GuardPlaces, OwnersValueIsNotRecomputed

(* A step of caller c that stores no owner's value and takes no lock: what *)
(* holds of the other callers is not disturbed                             *)
LEMMA OwnersStep ==
  ASSUME LockInv, OwnersInv, NEW c \in Callers,
         entry' = entry \/ entry' # "owner",
         \A d \in Callers : d # c => /\ pc'[d] = pc[d] /\ guard'[d] = guard[d]
                                    /\ age'[d] = age[d] /\ blind'[d] = blind[d],
         guard'[c] = "held" => pc'[c] \in {"again", "compute", "set", "work", "release"},
         pc'[c] = "compute" /\ Fresh(c)' /\ ~blind'[c] => entry' # "owner"
  PROVE  OwnersInv'
BY DEF OwnersInv, GuardPlaces, OwnersValueIsNotRecomputed, Fresh

LEMMA OwnersInvNext == LockInv /\ OwnersInv /\ [Next]_vars => OwnersInv'
<1> SUFFICES ASSUME LockInv, OwnersInv, [Next]_vars PROVE OwnersInv'
  OBVIOUS
<1>0. TypeOK
  BY DEF LockInv
<1>1. ASSUME NEW c \in Callers, DoubleCheck(c) PROVE OwnersInv'
  <2>1. UNCHANGED <<entry, age>> /\ pc[c] = "again"
    BY <1>1 DEF DoubleCheck, redis
  <2>2. \/ pc'[c] = "done" /\ guard'[c] # "held"
        \/ pc'[c] = "compute" /\ (blind'[c] \/ entry = "none")
    BY <1>0, <1>1 DEF DoubleCheck, get, Return, Goto, TypeOK
  <2>3. \A d \in Callers : d # c => /\ pc'[d] = pc[d] /\ guard'[d] = guard[d]
                                   /\ blind'[d] = blind[d]
    BY <1>0, <1>1 DEF DoubleCheck, Return, Goto, TypeOK
  <2> QED BY <2>1, <2>2, <2>3, OwnersStep
<1>2. ASSUME NEW c \in Callers, Populate(c) PROVE OwnersInv'
  <2>1. UNCHANGED <<age, blind>> /\ pc[c] = "set" /\ pc'[c] = "done" /\ guard'[c] # "held"
    BY <1>0, <1>2 DEF Populate, Return, Goto, TypeOK
  <2>2. \A d \in Callers : d # c => pc'[d] = pc[d] /\ guard'[d] = guard[d]
    BY <1>0, <1>2 DEF Populate, Return, Goto, TypeOK
  <2>3. CASE entry' = "owner" /\ entry' # entry
    <3>1. Fresh(c)
      BY <1>2, <2>3 DEF Populate, set
    <3>2. \A d \in Callers : d # c => ~Fresh(d)
      BY <3>1 DEF LockInv, FreshGuardOwnsLock
    <3> QED
      BY <2>1, <2>2, <3>2 DEF OwnersInv, GuardPlaces, OwnersValueIsNotRecomputed, Fresh
  <2>4. CASE entry' = entry \/ entry' # "owner"
    BY <2>1, <2>2, <2>4, OwnersStep
  <2> QED BY <2>3, <2>4
<1>3. ASSUME NEW c \in Callers, try_acquire(c) PROVE OwnersInv'
  <2>1. UNCHANGED <<entry, blind>> /\ pc[c] = "acquire"
    BY <1>3 DEF try_acquire
  <2>2. \A d \in Callers : d # c => /\ pc'[d] = pc[d] /\ guard'[d] = guard[d]
                                   /\ age'[d] = age[d]
    BY <1>0, <1>3 DEF try_acquire, AcquireFailed, Return, Goto, TypeOK
  <2>3. guard[c] # "held"
    BY <2>1 DEF OwnersInv, GuardPlaces
  <2>4. pc'[c] \in {"work", "again"} \/ guard'[c] # "held"
    BY <1>0, <1>3, <2>3 DEF try_acquire, AcquireFailed, Return, Goto, TypeOK
  <2> QED BY <2>1, <2>2, <2>4, OwnersStep DEF Fresh
<1>4. ASSUME NEW c \in Callers,
             \/ FirstGet(c) \/ CheckNull(c) \/ NoClient(c) \/ AcquireError(c)
             \/ Contended(c) \/ Poll(c)
      PROVE  OwnersInv'
  <2>1. UNCHANGED <<entry, age, blind>> /\ pc[c] \in {"get", "null", "acquire", "poll"}
    BY <1>4 DEF FirstGet, CheckNull, NoClient, AcquireError, Contended, Poll, redis
  <2>2. guard[c] # "held"
    BY <2>1 DEF OwnersInv, GuardPlaces
  <2>3. /\ guard'[c] # "held"
        /\ \A d \in Callers : d # c => pc'[d] = pc[d] /\ guard'[d] = guard[d]
    <3>1. CASE FirstGet(c) \/ CheckNull(c) \/ Poll(c)
      BY <1>0, <2>2, <3>1 DEF FirstGet, CheckNull, Poll, Return, Goto, TypeOK
    <3>2. CASE NoClient(c) \/ AcquireError(c) \/ Contended(c)
      BY <1>0, <2>2, <3>2 DEF NoClient, AcquireError, Contended, NotAcquired,
                              AcquireFailed, Return, Goto, TypeOK
    <3> QED BY <1>4, <3>1, <3>2
  <2> QED BY <2>1, <2>3, OwnersStep DEF Fresh
<1>5. ASSUME NEW c \in Callers,
             \/ Compute(c) \/ JobDone(c) \/ Release(c) \/ DropRelease(c)
             \/ Cancel(c) \/ Crash(c)
      PROVE  OwnersInv'
  <2>1. UNCHANGED <<entry, age, blind>>
    BY <1>5 DEF Compute, JobDone, Release, DropRelease, Cancel, Crash, redis, local
  <2>2. \A d \in Callers : d # c => pc'[d] = pc[d] /\ guard'[d] = guard[d]
    BY <1>0, <1>5 DEF Compute, JobDone, Release, DropRelease, Cancel, Crash, Return,
                      Goto, TypeOK, local
  <2>3. guard'[c] # "held" \/ pc'[c] \in {"set", "release"}
    BY <1>0, <1>5 DEF Compute, JobDone, Release, DropRelease, Cancel, Crash, Return,
                      Goto, TypeOK, local
  <2> QED BY <2>1, <2>2, <2>3, OwnersStep DEF Fresh
<1>6. CASE OtherSet \/ set_null \/ invalidate \/ EntryExpires \/ NullExpires
  <2>1. UNCHANGED <<pc, age, guard, blind>> /\ (entry' = entry \/ entry' # "owner")
    BY <1>6 DEF OtherSet, set_null, invalidate, EntryExpires, NullExpires, local
  <2> QED BY <2>1 DEF OwnersInv, GuardPlaces, OwnersValueIsNotRecomputed, Fresh
<1>7. CASE Tick
  <2>1. UNCHANGED <<entry, pc, guard, blind>>
    BY <1>7 DEF Tick
  <2>2. \A c \in Callers : Fresh(c)' => Fresh(c)
    BY <1>0, <1>7, CacheLockAssumption DEF Tick, Fresh, TypeOK
  <2> QED BY <2>1, <2>2 DEF OwnersInv, GuardPlaces, OwnersValueIsNotRecomputed
<1>8. CASE UNCHANGED vars
  BY <1>8 DEF vars, redis, local, OwnersInv, GuardPlaces, OwnersValueIsNotRecomputed, Fresh
<1> QED
  BY <1>1, <1>2, <1>3, <1>4, <1>5, <1>6, <1>7, <1>8 DEF Next, Step

(* A caller that holds a good lock and could read the cache never computes *)
(* again what an earlier owner of the lock stored.                         *)
THEOREM OwnersComputeOnce == Spec => []OwnersValueIsNotRecomputed
<1>1. OwnersInv => OwnersValueIsNotRecomputed
  BY DEF OwnersInv
<1> QED
  BY <1>1, LockInvInit, LockInvNext, OwnersInvInit, OwnersInvNext, PTL DEF Spec

-----------------------------------------------------------------------------
(***************************************************************************)
(* The router                                                              *)
(***************************************************************************)

(* A request that has gone past phase 1. *)
PastPhaseOne(r) == at[r] \in {"retry", "reread", "write"} \/ res[r] \in {"conn", "exhausted"}

(* Requests leave phase 1 only when nothing is left to try, and without    *)
(* replicas they never enter it.                                           *)
RequestInv(r) ==
  /\ at[r] \notin {"start", "write", "done"} => N > 0
  /\ at[r] = "read" => idx[r] \in Replicas
  /\ at[r] = "reread" => round[r] < Retries
  /\ PastPhaseOne(r) /\ N > 0 => tried[r] \cup skipped[r] = Replicas

RouterInv == RouterTypeOK /\ \A r \in Requests : RequestInv(r)

LEMMA RouterInvInit == RouterInit => RouterInv
<1> SUFFICES ASSUME RouterInit PROVE RouterInv
  OBVIOUS
<1>1. RouterTypeOK
  BY RouterAssumption DEF RouterInit, RouterTypeOK, Closed
<1> QED BY <1>1 DEF RouterInit, RouterInv, RequestInv, PastPhaseOne

(* Phase 2 sends its rounds to replicas. *)
LEMMA RoundGoesToReplica ==
  ASSUME N > 0, NEW S \in SUBSET Replicas, NEW k \in Nat
  PROVE  (Cardinality(S) + k) % N \in Replicas
<1>1. IsFiniteSet(Replicas)
  BY RouterAssumption, FS_Interval DEF Replicas
<1>2. Cardinality(S) \in Nat
  BY <1>1, FS_Subset, FS_CardinalityType
<1>3. N \in Nat /\ Cardinality(S) + k \in Nat
  BY <1>2, RouterAssumption
<1>4. \A a \in Nat : a % N \in 0 .. N - 1
  BY RouterAssumption
<1> QED BY <1>3, <1>4 DEF Replicas

(* What a step of request r does to the requests *)
OnlyOf(r) ==
  \A q \in Requests \ {r} :
    /\ at'[q] = at[q] /\ idx'[q] = idx[q] /\ tried'[q] = tried[q]
    /\ round'[q] = round[q] /\ res'[q] = res[q] /\ skipped'[q] = skipped[q]
    /\ asked'[q] = asked[q]

LEMMA OthersKeepTheirs ==
  ASSUME RouterInv, RouterTypeOK', NEW r \in Requests, OnlyOf(r), RequestInv(r)'
  PROVE  RouterInv'
BY DEF RouterInv, RequestInv, PastPhaseOne, OnlyOf

LEMMA RequestKeepsTypes ==
  ASSUME RouterInv, NEW r \in Requests, Request(r)
  PROVE  RouterTypeOK' /\ OnlyOf(r)
<1> USE RouterAssumption DEF RouterInv, RouterTypeOK, RequestInv, OnlyOf, GoTo, Answer,
        health, reading, probing, Closed
<1>1. CASE Start(r)
  BY <1>1 DEF Start
<1>2. CASE PhaseOne(r)
  BY <1>2 DEF PhaseOne, Candidates
<1>3. CASE PhaseOneOver(r)
  BY <1>3 DEF PhaseOneOver, GiveUp
<1>4. CASE Read(r)
  BY <1>4 DEF Read, mark_down
<1>5. CASE PhaseTwo(r)
  <2>1. at[r] = "retry" /\ N > 0 /\ round[r] \in Nat
    BY <1>5 DEF PhaseTwo
  <2>2. (Cardinality(tried[r]) + round[r]) % N \in Replicas
    BY <2>1, RoundGoesToReplica
  <2> QED BY <1>5, <2>2 DEF PhaseTwo, RetryIndex, GiveUp
<1>6. CASE Reread(r)
  BY <1>6 DEF Reread, mark_down
<1>7. CASE Write(r)
  BY <1>7 DEF Write
<1> QED BY <1>1, <1>2, <1>3, <1>4, <1>5, <1>6, <1>7 DEF Request

LEMMA RequestKeepsInv ==
  ASSUME RouterInv, NEW r \in Requests, Request(r)
  PROVE  RouterInv'
<1>1. RouterTypeOK' /\ OnlyOf(r)
  BY RequestKeepsTypes
<1>2. RequestInv(r)'
  <2> USE RouterAssumption DEF RouterInv, RouterTypeOK, RequestInv, PastPhaseOne, GoTo,
          Answer, health, reading
  <2>1. CASE Start(r)
    BY <2>1 DEF Start
  <2>2. CASE PhaseOne(r)
    BY <2>2 DEF PhaseOne, Candidates
  <2>3. CASE PhaseOneOver(r)
    <3>1. \A i \in Replicas \ tried[r] : down[i] > 0
      BY <2>3 DEF PhaseOneOver, Candidates, Closed
    <3>2. tried'[r] \cup skipped'[r] = Replicas /\ N > 0
      BY <2>3, <3>1 DEF PhaseOneOver
    <3> QED BY <2>3, <3>2, <1>1 DEF PhaseOneOver, GiveUp
  <2>4. CASE Read(r)
    BY <2>4 DEF Read
  <2>5. CASE PhaseTwo(r)
    BY <2>5 DEF PhaseTwo, GiveUp
  <2>6. CASE Reread(r)
    BY <2>6 DEF Reread
  <2>7. CASE Write(r)
    BY <2>7 DEF Write
  <2> QED BY <2>1, <2>2, <2>3, <2>4, <2>5, <2>6, <2>7 DEF Request
<1> QED BY <1>1, <1>2, OthersKeepTheirs

LEMMA RouterInvNext == RouterInv /\ [RouterNext]_routerVars => RouterInv'
<1> SUFFICES ASSUME RouterInv, [RouterNext]_routerVars PROVE RouterInv'
  OBVIOUS
<1>1. ASSUME NEW r \in Requests, Request(r) PROVE RouterInv'
  BY <1>1, RequestKeepsInv
<1>2. ASSUME RouterTypeOK', UNCHANGED <<at, reading>> PROVE RouterInv'
  BY <1>2 DEF RouterInv, RequestInv, PastPhaseOne, reading
<1> USE RouterAssumption DEF RouterInv, RouterTypeOK, health, reading, probing, Closed
<1>3. CASE Collect
  BY <1>2, <1>3 DEF Collect
<1>4. ASSUME NEW i \in Replicas, Ping(i) \/ Probe(i) PROVE RouterInv'
  BY <1>2, <1>4 DEF Ping, Probe, mark_down
<1>5. ASSUME NEW i \in Replicas, Fail(i) \/ Recover(i) PROVE RouterInv'
  BY <1>2, <1>5 DEF Fail, Recover
<1>6. CASE TimePasses
  BY <1>2, <1>6 DEF TimePasses
<1>7. CASE UNCHANGED routerVars
  BY <1>2, <1>7 DEF routerVars
<1> QED BY <1>1, <1>3, <1>4, <1>5, <1>6, <1>7 DEF RouterNext

(* execute_read_retry gives up, or turns to the writer, only after every   *)
(* replica was tried or found behind an open breaker.                      *)
THEOREM RouterTriesAll == RouterSpec => []GivesUpOnlyAfterAll
<1>1. RouterInv => GivesUpOnlyAfterAll
  BY DEF RouterInv, RequestInv, PastPhaseOne, GivesUpOnlyAfterAll
<1> QED BY <1>1, RouterInvInit, RouterInvNext, PTL DEF RouterSpec

(* The replica of round k of phase 2. *)
Target(r, k) == (Cardinality(tried[r]) + k) % N

(* The rounds of phase 2 that are over, or under way, have asked their     *)
(* replicas; a read that is past it has gone through all of them.          *)
AskedInv(r) ==
  /\ at[r] \in {"start", "pick", "read"} => round[r] = 0
  /\ res[r] = "conn" => at[r] = "done"
  /\ at[r] = "retry" => \A k \in Nat : k < round[r] => Target(r, k) \in asked[r]
  /\ at[r] = "reread" => \A k \in Nat : k <= round[r] => Target(r, k) \in asked[r]
  /\ (at[r] = "write" \/ res[r] = "conn") /\ tried[r] # {} /\ Retries >= N =>
       \A k \in Nat : k < Retries => Target(r, k) \in asked[r]

LEMMA AskedInvInit == RouterInit => \A r \in Requests : AskedInv(r)
BY DEF RouterInit, AskedInv

LEMMA RequestAsks ==
  ASSUME RouterInv, NEW r \in Requests, AskedInv(r), Request(r)
  PROVE  AskedInv(r)'
<1> USE RouterAssumption DEF RouterInv, RouterTypeOK, RequestInv, AskedInv, GoTo, Answer,
        health, reading
<1>1. CASE Start(r)
  BY <1>1 DEF Start, Replicas
<1>2. CASE PhaseOne(r)
  BY <1>2 DEF PhaseOne
<1>3. CASE PhaseOneOver(r)
  BY <1>3 DEF PhaseOneOver, GiveUp
<1>4. CASE Read(r)
  BY <1>4 DEF Read
<1>5. CASE PhaseTwo(r)
  <2>1. /\ UNCHANGED <<tried, round>> /\ at[r] = "retry"
        /\ \A k : Target(r, k)' = Target(r, k)
    BY <1>5 DEF PhaseTwo, Target
  <2>2. CASE round[r] < Retries
    <3>1. /\ at'[r] = "reread" /\ res'[r] = res[r]
          /\ asked'[r] = asked[r] \cup {Target(r, round[r])}
      BY <1>5, <2>2 DEF PhaseTwo, RetryIndex, Target, GiveUp
    <3> QED BY <2>1, <3>1
  <2>3. CASE round[r] = Retries
    <3>1. UNCHANGED asked /\ at'[r] \in {"write", "done"}
      BY <1>5, <2>3 DEF PhaseTwo, GiveUp
    <3>2. res'[r] = "conn" => at'[r] = "done"
      BY <1>5, <2>3 DEF PhaseTwo, GiveUp
    <3> QED BY <2>1, <2>3, <3>1, <3>2
  <2> QED BY <2>2, <2>3
<1>6. CASE Reread(r)
  <2>1. /\ UNCHANGED <<tried, asked>> /\ at[r] = "reread"
        /\ \A k : Target(r, k)' = Target(r, k)
    BY <1>6 DEF Reread, Target
  <2>2. \/ at'[r] = "done" /\ res'[r] = "answer"
        \/ at'[r] = "retry" /\ round'[r] = round[r] + 1 /\ res'[r] = res[r]
    BY <1>6 DEF Reread
  <2> QED BY <2>1, <2>2
<1>7. CASE Write(r)
  <2>1. /\ UNCHANGED <<tried, asked, round>> /\ at[r] = "write" /\ at'[r] = "done"
        /\ \A k : Target(r, k)' = Target(r, k)
    BY <1>7 DEF Write, Target
  <2> QED BY <2>1
<1> QED BY <1>1, <1>2, <1>3, <1>4, <1>5, <1>6, <1>7 DEF Request

LEMMA AskedInvNext ==
  ASSUME RouterInv, [RouterNext]_routerVars, \A r \in Requests : AskedInv(r)
  PROVE  \A r \in Requests : AskedInv(r)'
<1>1. ASSUME NEW r \in Requests, Request(r) PROVE \A q \in Requests : AskedInv(q)'
  <2>1. AskedInv(r)' /\ OnlyOf(r)
    BY <1>1, RequestAsks, RequestKeepsTypes
  <2> QED BY <2>1 DEF AskedInv, Target, OnlyOf
<1>2. ASSUME UNCHANGED <<at, reading>> PROVE \A q \in Requests : AskedInv(q)'
  BY <1>2 DEF AskedInv, Target, reading
<1>3. CASE Collect \/ TimePasses \/ UNCHANGED routerVars
  BY <1>2, <1>3 DEF Collect, TimePasses, routerVars
<1>4. ASSUME NEW i \in Replicas, Ping(i) \/ Probe(i) \/ Fail(i) \/ Recover(i)
      PROVE  \A q \in Requests : AskedInv(q)'
  BY <1>2, <1>4 DEF Ping, Probe, Fail, Recover
<1> QED BY <1>1, <1>3, <1>4 DEF RouterNext

(* N rounds in a row reach every replica, wherever they begin. *)
LEMMA RoundsReachAll ==
  ASSUME NEW t \in 0..N, NEW i \in Replicas
  PROVE  \E k \in Nat : k < N /\ (t + k) % N = i
<1>0. N \in Nat /\ N > 0 /\ i \in Nat /\ i < N /\ t \in Nat /\ t <= N
  BY RouterAssumption DEF Replicas
<1>1. i % N = i /\ (N + i) % N = i
  BY <1>0
<1>2. CASE t <= i
  <2>1. i - t \in Nat /\ i - t < N /\ t + (i - t) = i
    BY <1>0, <1>2
  <2> QED BY <1>1, <2>1
<1>3. CASE t > i
  <2>1. N + i - t \in Nat /\ N + i - t < N /\ t + (N + i - t) = N + i
    BY <1>0, <1>3
  <2> QED BY <1>1, <2>1
<1> QED BY <1>0, <1>2, <1>3

(* With at least as many retries as replicas, a read that gives up after   *)
(* an error has sent its statement to every one of them, also to those     *)
(* whose breakers others had opened: execute_read_retry's second chance.   *)
THEOREM RetriesReachAll == RouterSpec => []EveryReplicaIsAsked
<1> DEFINE Asked == \A r \in Requests : AskedInv(r)
<1>1. RouterInv /\ Asked => EveryReplicaIsAsked
  <2> SUFFICES ASSUME RouterInv, NEW r \in Requests, AskedInv(r),
                      at[r] = "write" \/ res[r] = "conn", tried[r] # {}, Retries >= N
               PROVE  asked[r] = Replicas
    BY DEF EveryReplicaIsAsked
  <2>1. tried[r] \in SUBSET Replicas /\ asked[r] \in SUBSET Replicas
    BY DEF RouterInv, RouterTypeOK
  <2>2. Cardinality(tried[r]) \in 0..N
    <3>1. IsFiniteSet(Replicas) /\ Cardinality(Replicas) = N
      BY RouterAssumption, FS_Interval DEF Replicas
    <3> QED BY <2>1, <3>1, FS_Subset, FS_CardinalityType, RouterAssumption
  <2>3. ASSUME NEW i \in Replicas PROVE i \in asked[r]
    <3>1. PICK k \in Nat : k < N /\ (Cardinality(tried[r]) + k) % N = i
      BY <2>2, RoundsReachAll
    <3>2. k < Retries
      BY <3>1, RouterAssumption
    <3> QED BY <3>1, <3>2 DEF AskedInv, Target
  <2> QED BY <2>1, <2>3
<1>2. RouterInit => Asked
  BY AskedInvInit
<1>3. RouterInv /\ Asked /\ [RouterNext]_routerVars => Asked'
  BY AskedInvNext
<1> HIDE DEF Asked
<1> QED BY <1>1, <1>2, <1>3, RouterInvInit, RouterInvNext, PTL DEF RouterSpec
=============================================================================
