------------------------------ MODULE CacheLock -----------------------------
(***************************************************************************)
(* CacheService and the Redis lock, for one cache key and its lock key.    *)
(* A caller is one invocation: of get_or_insert_with_lock ("locked"), of   *)
(* get_or_insert ("plain"), or of LockGuard::acquire around a job ("job"). *)
(* Every Redis command and every await is a step.  The lock value of a     *)
(* caller, a fresh UUID, is named by the caller.  The lock's TTL and the   *)
(* time since a caller's SET are counted in ticks; the cache entry's and   *)
(* the null marker's TTLs may end at any time.                             *)
(***************************************************************************)
EXTENDS Integers, FiniteSets

CONSTANTS Callers,
          LockTTL,     \* lock_expiry_secs
          MaxRetries,  \* max_retries
          NoOwner

ASSUME CacheLockAssumption ==
  /\ IsFiniteSet(Callers) /\ NoOwner \notin Callers
  /\ LockTTL \in Nat \ {0} /\ MaxRetries \in Nat

VARIABLES
  entry,   \* the cached value: "none", "owner" (stored by a caller whose
           \* lock had not expired) or "other"
  null,    \* the key:null marker exists
  lock,    \* the lock key: its value and its TTL, -1 for none
  svc,     \* svc[c]: what the caller's CacheService has: "noop", "client",
           \* or "pool" (and client)
  kind,    \* kind[c]: what the caller calls
  pc,      \* control point of each caller
  tries,   \* rounds of the retry or polling loop that are over
  guard,   \* the caller's LockGuard: "none", "held" or "dropped"
  age,     \* ticks since the caller's SET NX, at most LockTTL
  blind    \* the caller's last GET got no connection and counted as a miss

redis == <<entry, null, lock>>
local == <<svc, kind, tries, guard, age, blind>>
vars == <<redis, pc, local>>

Free == [owner |-> NoOwner, ttl |-> 0]
Kinds == {"locked", "plain", "job"}
Points == {"get", "null", "acquire", "again", "poll", "compute", "set",
           "work", "release", "done"}

TypeOK ==
  /\ entry \in {"none", "owner", "other"} /\ null \in BOOLEAN
  /\ lock \in [owner : Callers \cup {NoOwner}, ttl : 0..LockTTL]
  /\ svc \in [Callers -> {"noop", "client", "pool"}]
  /\ kind \in [Callers -> Kinds]
  /\ pc \in [Callers -> Points]
  /\ tries \in [Callers -> 0..MaxRetries]
  /\ guard \in [Callers -> {"none", "held", "dropped"}]
  /\ age \in [Callers -> 0..LockTTL]
  /\ blind \in [Callers -> BOOLEAN]

(* CacheService::new: no URL or a bad one leaves a no-op service; when the *)
(* pool cannot be built the client is kept for the lock                    *)
Init ==
  /\ entry = "none" /\ null = FALSE /\ lock = Free
  /\ svc \in [Callers -> {"noop", "client", "pool"}]
  /\ kind \in [Callers -> Kinds]
  /\ pc = [c \in Callers |-> IF kind[c] = "job" THEN "acquire" ELSE "get"]
  /\ tries = [c \in Callers |-> 0]
  /\ guard = [c \in Callers |-> "none"]
  /\ age = [c \in Callers |-> 0]
  /\ blind = [c \in Callers |-> FALSE]

Goto(c, l) == pc' = [pc EXCEPT ![c] = l]

(* A return: a guard goes out of scope and Drop spawns its release *)
Return(c) ==
  /\ Goto(c, "done")
  /\ guard' = [guard EXCEPT ![c] = IF @ = "held" THEN "dropped" ELSE @]

-----------------------------------------------------------------------------
(* The Redis commands of CacheService                                      *)

(* get: no pool, or no connection from it, counts as a miss *)
get(c) ==
  IF svc[c] = "pool"
  THEN {IF entry = "none" THEN "miss" ELSE "hit", "blind", "error"}
  ELSE {"blind"}

exists(c) == IF svc[c] = "pool" THEN {null, FALSE} ELSE {FALSE}

Fresh(c) == guard[c] = "held" /\ age[c] < LockTTL

(* set: SETEX of the value, which leaves the null marker alone *)
set(c) == entry' = IF Fresh(c) THEN "owner" ELSE "other"

(* Steps 1 and 1b of get_or_insert and get_or_insert_with_lock *)
FirstGet(c) ==
  /\ pc[c] = "get"
  /\ \E r \in get(c) :
       \/ r \in {"hit", "error"} /\ Return(c)
       \/ r \in {"miss", "blind"} /\ Goto(c, "null") /\ UNCHANGED guard
  /\ UNCHANGED <<redis, svc, kind, tries, age, blind>>

CheckNull(c) ==
  /\ pc[c] = "null"
  /\ \/ \E found \in exists(c) :
          \/ found /\ Return(c)
          \/ /\ ~found /\ UNCHANGED guard
             /\ Goto(c, IF kind[c] = "plain" THEN "compute" ELSE "acquire")
     \/ svc[c] = "pool" /\ Return(c)          \* the command failed
  /\ UNCHANGED <<redis, svc, kind, tries, age, blind>>

-----------------------------------------------------------------------------
(* Acquiring the lock                                                      *)

(* Ok(None) and Contended: a lookup polls, a job is skipped *)
NotAcquired(c) ==
  /\ IF kind[c] = "job" THEN Return(c) ELSE Goto(c, "poll") /\ UNCHANGED guard
  /\ tries' = [tries EXCEPT ![c] = 0]

(* Err: a lookup computes the value without the lock, a job is skipped *)
AcquireFailed(c) ==
  /\ IF kind[c] = "job" THEN Return(c) ELSE Goto(c, "compute") /\ UNCHANGED guard
  /\ UNCHANGED tries

NoClient(c) ==
  /\ pc[c] = "acquire" /\ svc[c] = "noop"
  /\ NotAcquired(c)
  /\ UNCHANGED <<redis, svc, kind, age, blind>>

(* The connection, or a SET that Redis never ran, fails *)
AcquireError(c) ==
  /\ pc[c] = "acquire" /\ svc[c] # "noop"
  /\ tries[c] = 0 \/ tries[c] < MaxRetries
  /\ AcquireFailed(c)
  /\ UNCHANGED <<redis, svc, kind, age, blind>>

(* Mutant: SET NX without EX *)
SetNx(c) == [owner |-> c, ttl |-> -1]

(* SET key value NX EX ttl *)
SetNxEx(c) == [owner |-> c, ttl |-> LockTTL]

(* The key is free: SET stores the caller's value; its answer may be lost *)
try_acquire(c) ==
  /\ pc[c] = "acquire" /\ svc[c] # "noop" /\ tries[c] < MaxRetries
  /\ lock.owner = NoOwner
  /\ lock' = SetNxEx(c)
  /\ age' = [age EXCEPT ![c] = 0]
  /\ \/ /\ guard' = [guard EXCEPT ![c] = "held"]
        /\ Goto(c, IF kind[c] = "job" THEN "work" ELSE "again")
        /\ UNCHANGED tries
     \/ AcquireFailed(c)
  /\ UNCHANGED <<entry, null, svc, kind, blind>>

Contended(c) ==
  /\ pc[c] = "acquire" /\ svc[c] # "noop"
  /\ \/ /\ tries[c] < MaxRetries /\ lock.owner # NoOwner
        /\ tries' = [tries EXCEPT ![c] = @ + 1]
        /\ UNCHANGED <<pc, guard>>
     \/ tries[c] = MaxRetries /\ NotAcquired(c)
  /\ UNCHANGED <<redis, svc, kind, age, blind>>

-----------------------------------------------------------------------------
(* The rest of get_or_insert_with_lock                                     *)

(* Mutant: no second look at the cache *)
DoubleCheckSkipped(c) ==
  /\ pc[c] = "again" /\ Goto(c, "compute")
  /\ UNCHANGED <<redis, local>>

(* Step 3a: the cache is read again under the lock *)
DoubleCheck(c) ==
  /\ pc[c] = "again"
  /\ \E r \in get(c) :
       \/ r \in {"hit", "error"} /\ Return(c) /\ UNCHANGED blind
       \/ /\ r \in {"miss", "blind"} /\ Goto(c, "compute") /\ UNCHANGED guard
          /\ blind' = [blind EXCEPT ![c] = r = "blind"]
  /\ UNCHANGED <<redis, svc, kind, tries, age>>

(* Mutant: polling until the winner has stored the value *)
PollForever(c) ==
  /\ pc[c] = "poll" /\ entry # "none" /\ Return(c)
  /\ UNCHANGED <<redis, svc, kind, tries, age, blind>>

(* Step 3b: max_retries looks at the cache, then the value is computed *)
Poll(c) ==
  /\ pc[c] = "poll"
  /\ \/ /\ tries[c] < MaxRetries
        /\ \E r \in get(c) :
             \/ r \in {"hit", "error"} /\ Return(c) /\ UNCHANGED tries
             \/ /\ r \in {"miss", "blind"} /\ UNCHANGED <<pc, guard>>
                /\ tries' = [tries EXCEPT ![c] = @ + 1]
     \/ tries[c] = MaxRetries /\ Goto(c, "compute") /\ UNCHANGED <<tries, guard>>
  /\ UNCHANGED <<redis, svc, kind, age, blind>>

(* Step 4: the fallback returns a value or fails *)
Compute(c) ==
  /\ pc[c] = "compute"
  /\ \/ Goto(c, "set") /\ UNCHANGED guard
     \/ Return(c)
  /\ UNCHANGED <<redis, svc, kind, tries, age, blind>>

(* Step 5: a failing set is logged only *)
Populate(c) ==
  /\ pc[c] = "set"
  /\ \/ svc[c] = "pool" /\ set(c)
     \/ UNCHANGED entry
  /\ Return(c)
  /\ UNCHANGED <<null, lock, svc, kind, tries, age, blind>>

-----------------------------------------------------------------------------
(* Releasing the lock                                                      *)

(* Mutant: DEL without the comparison *)
ReleaseAny(c) == lock' = Free

(* SAFE_RELEASE_SCRIPT: compare and delete *)
release_lock(c) == lock' = IF lock.owner = c THEN Free ELSE lock

JobDone(c) ==
  /\ pc[c] = "work" /\ Goto(c, "release")
  /\ UNCHANGED <<redis, local>>

(* LockGuard::release: on an error, of the script or of its answer, the    *)
(* fields are restored and Drop tries again                                *)
Release(c) ==
  /\ pc[c] = "release"
  /\ \/ release_lock(c) /\ Goto(c, "done") /\ guard' = [guard EXCEPT ![c] = "none"]
     \/ release_lock(c) /\ Return(c)
     \/ UNCHANGED lock /\ Return(c)
  /\ UNCHANGED <<entry, null, svc, kind, tries, age, blind>>

(* The task spawned by Drop; it may fail, or find no runtime *)
DropRelease(c) ==
  /\ guard[c] = "dropped"
  /\ guard' = [guard EXCEPT ![c] = "none"]
  /\ release_lock(c) \/ UNCHANGED lock
  /\ UNCHANGED <<entry, null, pc, svc, kind, tries, age, blind>>

(* The caller's future is dropped at an await, and its guard with it; in   *)
(* LockGuard::release the guard has been emptied and Drop does nothing     *)
Cancel(c) ==
  /\ pc[c] # "done"
  /\ IF pc[c] = "release"
     THEN Goto(c, "done") /\ guard' = [guard EXCEPT ![c] = "none"]
     ELSE Return(c)
  /\ UNCHANGED <<redis, svc, kind, tries, age, blind>>

(* The process dies; nothing releases the lock *)
Crash(c) ==
  /\ pc[c] # "done" \/ guard[c] = "dropped"
  /\ Goto(c, "done") /\ guard' = [guard EXCEPT ![c] = "none"]
  /\ UNCHANGED <<redis, svc, kind, tries, age, blind>>

-----------------------------------------------------------------------------
(* Other users of the key, and time                                        *)

OtherSet == entry' = "other" /\ UNCHANGED <<null, lock, pc, local>>

set_null == null' = TRUE /\ UNCHANGED <<entry, lock, pc, local>>

invalidate ==
  /\ entry' = "none" /\ null' = FALSE
  /\ UNCHANGED <<lock, pc, local>>

EntryExpires == entry' = "none" /\ UNCHANGED <<null, lock, pc, local>>

NullExpires == null' = FALSE /\ UNCHANGED <<entry, lock, pc, local>>

Tick ==
  /\ lock' = IF lock.ttl > 1 THEN [lock EXCEPT !.ttl = @ - 1]
             ELSE IF lock.ttl = 1 THEN Free ELSE lock
  /\ age' = [c \in Callers |-> IF age[c] < LockTTL THEN age[c] + 1 ELSE LockTTL]
  /\ UNCHANGED <<entry, null, pc, svc, kind, tries, guard, blind>>

Step(c) ==
  \/ FirstGet(c) \/ CheckNull(c) \/ NoClient(c) \/ AcquireError(c)
  \/ try_acquire(c) \/ Contended(c) \/ DoubleCheck(c) \/ Poll(c)
  \/ Compute(c) \/ Populate(c) \/ JobDone(c) \/ Release(c) \/ DropRelease(c)

Next ==
  \/ \E c \in Callers : Step(c) \/ Cancel(c) \/ Crash(c)
  \/ OtherSet \/ set_null \/ invalidate \/ EntryExpires \/ NullExpires \/ Tick

Spec == Init /\ [][Next]_vars

(* A future that is polled goes on, and time passes *)
FairSpec ==
  /\ Spec
  /\ \A c \in Callers : WF_vars(Step(c))
  /\ WF_vars(Tick)

-----------------------------------------------------------------------------
(* Mutual exclusion of the lock (lock.rs, "防止误释放其他持有者的锁"): a   *)
(* guard whose TTL has not passed still owns the key in Redis, whatever    *)
(* expired guards, lost answers and retried releases of others do; so two  *)
(* such guards never exist at once.                                        *)
FreshGuardOwnsLock == \A c \in Callers : Fresh(c) => lock.owner = c

(* What step 3a is for: while its lock is good, a caller that could read   *)
(* the cache does not compute a value that an earlier lock owner stored.   *)
OwnersValueIsNotRecomputed ==
  \A c \in Callers :
    pc[c] = "compute" /\ Fresh(c) /\ ~blind[c] => entry # "owner"

(* Drop and EX (lock.rs, "确保即使进程崩溃，锁也不会永久占用"): whatever   *)
(* happens to its owner, a lock value does not stay for ever.              *)
LockIsFreed ==
  \A c \in Callers : lock.owner = c ~> lock.owner # c

(* Every call returns, also when the winner of the lock fails or crashes:  *)
(* retrying and polling are bounded.                                       *)
EveryCallReturns == \A c \in Callers : <>(pc[c] = "done")
=============================================================================
