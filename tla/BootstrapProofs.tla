-------------------------- MODULE BootstrapProofs ---------------------------
(* Proofs about the worker registry, the start-up that is built on it and  *)
(* the id generator, for any number of instances, worker ids, statements,  *)
(* addresses, threads, calls and bits.                                     *)
EXTENDS Bootstrap, Snowflake, TLAPS

(* The worker registry                                                     *)

(* An instance that is not registered starts counting from zero. *)
Fresh == \A i \in Instances : ~Registered(i) => since[i] = 0

WorkersInv == TypeOK /\ Fresh /\ HeartbeatReachesOwnRow /\ UniqueWorkerIds

LEMMA WorkersInvInit == Init => WorkersInv
BY WorkersAssumption
   DEF Init, WorkersInv, TypeOK, Fresh, Registered, HeartbeatReachesOwnRow,
       UniqueWorkerIds, Workers, Ages, NoRow

(* The row of a registered instance is never old enough to be cleaned up,  *)
(* and never missing                                                       *)
LEMMA RowIsSafe ==
  ASSUME MaxLate + Skew <= Stale, WorkersInv, NEW i \in Instances, Registered(i)
  PROVE  age[wid[i]] + Skew <= Stale /\ age[wid[i]] # NoRow /\ wid[i] \in Workers
BY WorkersAssumption
   DEF WorkersInv, TypeOK, HeartbeatReachesOwnRow, Workers, Ages, NoRow

LEMMA WorkersInvNext ==
  ASSUME MaxLate + Skew <= Stale
  PROVE  WorkersInv /\ [Next]_vars => WorkersInv'
<1> SUFFICES ASSUME WorkersInv, [Next]_vars PROVE WorkersInv'
  OBVIOUS
<1> USE WorkersAssumption DEF WorkersInv, Workers, Ages, NoRow
<1>1. ASSUME NEW i \in Instances, Start(i) PROVE WorkersInv'
  BY <1>1 DEF Start, Goto, TypeOK, Fresh, Registered, HeartbeatReachesOwnRow, UniqueWorkerIds
<1>2. ASSUME NEW i \in Instances, clean_stale_workers(i) PROVE WorkersInv'
  <2>0. PICK ahead \in [Workers -> (-Skew)..Skew] :
          age' = [w \in Workers |-> IF age[w] + ahead[w] > Stale THEN NoRow ELSE age[w]]
    BY <1>2 DEF clean_stale_workers
  <2>1. TypeOK'
    <3>0. NoRow \in Ages
      OBVIOUS
    <3> HIDE DEF NoRow, Ages, Workers
    <3>1. age' \in [Workers -> Ages]
      BY <2>0, <3>0 DEF TypeOK
    <3> QED BY <1>2, <3>1 DEF clean_stale_workers, Goto, TypeOK
  <2>2. \A j \in Instances : Registered(j) <=> Registered(j)'
    BY <1>2 DEF clean_stale_workers, Goto, TypeOK, Registered
  <2>3. \A j \in Instances : Registered(j) => age'[wid[j]] = age[wid[j]]
    <3> SUFFICES ASSUME NEW j \in Instances, Registered(j) PROVE age'[wid[j]] = age[wid[j]]
      OBVIOUS
    <3>1. age[wid[j]] + Skew <= Stale /\ wid[j] \in Workers
      BY RowIsSafe
    <3>2. age[wid[j]] \in Nat /\ ahead[wid[j]] <= Skew /\ ahead[wid[j]] \in Int
      BY <3>1 DEF TypeOK
    <3> QED BY <2>0, <3>1, <3>2
  <2> QED
    BY <1>2, <2>1, <2>2, <2>3
       DEF clean_stale_workers, Fresh, HeartbeatReachesOwnRow, UniqueWorkerIds
<1>3. ASSUME NEW i \in Instances, Scan(i) PROVE WorkersInv'
  <2>1. TypeOK' /\ UNCHANGED <<age, wid, since>>
    BY <1>3 DEF Scan, Goto, TypeOK
  <2>2. \A j \in Instances : Registered(j) <=> Registered(j)'
    BY <1>3 DEF Scan, Goto, TypeOK, Registered
  <2> QED BY <2>1, <2>2 DEF Fresh, HeartbeatReachesOwnRow, UniqueWorkerIds
<1>4. ASSUME NEW i \in Instances, NEW w \in Workers, try_insert_worker(i, w)
      PROVE  WorkersInv'
  <2>1. CASE age[w] = NoRow
    <3>0. /\ age' = [age EXCEPT ![w] = 0] /\ since' = since
          /\ wid' = [wid EXCEPT ![i] = w] /\ pc[i] = "insert"
          /\ pc' = [pc EXCEPT ![i] = "run"] /\ Forget(i)
      BY <1>4, <2>1 DEF try_insert_worker, Goto
    <3>1. TypeOK' /\ age' = [age EXCEPT ![w] = 0] /\ since' = since
          /\ wid' = [wid EXCEPT ![i] = w] /\ pc[i] = "insert"
          /\ pc' = [pc EXCEPT ![i] = "run"]
      BY <3>0 DEF Forget, TypeOK
    <3>2. \A j \in Instances : j # i => (Registered(j) <=> Registered(j)') /\ wid'[j] = wid[j]
      BY <3>1 DEF TypeOK, Registered
    <3>3. \A j \in Instances : Registered(j) => wid[j] # w
      BY <2>1, RowIsSafe
    <3>4. wid'[i] = w /\ age'[w] = 0 /\ Registered(i)' /\ ~Registered(i)
      BY <3>1 DEF TypeOK, Registered
    <3>5. HeartbeatReachesOwnRow'
      BY <3>1, <3>2, <3>3, <3>4 DEF HeartbeatReachesOwnRow, TypeOK
    <3>6. UniqueWorkerIds'
      BY <3>2, <3>3, <3>4 DEF UniqueWorkerIds
    <3>7. Fresh'
      BY <3>1, <3>2, <3>4 DEF Fresh
    <3> QED BY <3>1, <3>5, <3>6, <3>7
  <2>2. CASE age[w] # NoRow
    <3>0. /\ UNCHANGED <<age, wid, pc, used, since>>
          /\ next' = [next EXCEPT ![i] = w + 1]
      BY <1>4, <2>2 DEF try_insert_worker
    <3>1. TypeOK' /\ UNCHANGED <<age, wid, pc, since>>
      BY <3>0 DEF TypeOK
    <3> QED
      BY <3>1 DEF Fresh, Registered, HeartbeatReachesOwnRow, UniqueWorkerIds
  <2> QED BY <2>1, <2>2
<1>5. ASSUME NEW i \in Instances, NoAvailableWorker(i) PROVE WorkersInv'
  BY <1>5 DEF NoAvailableWorker, Goto, TypeOK, Fresh, Registered,
              HeartbeatReachesOwnRow, UniqueWorkerIds
<1>6. ASSUME NEW i \in Instances, heartbeat(i) PROVE WorkersInv'
  <2>1. TypeOK'
    BY <1>6 DEF heartbeat, TypeOK
  <2>2. Registered(i) /\ \A j \in Instances : Registered(j) <=> Registered(j)'
    BY <1>6 DEF heartbeat, Registered
  <2>3. age' = [age EXCEPT ![wid[i]] = 0] /\ wid' = wid /\ since' = [since EXCEPT ![i] = 0]
    BY <1>6, <2>2, RowIsSafe DEF heartbeat
  <2>4. \A j \in Instances : Registered(j) /\ j # i => wid[j] # wid[i]
    BY <2>2 DEF UniqueWorkerIds
  <2>5. HeartbeatReachesOwnRow'
    BY <2>2, <2>3, <2>4 DEF HeartbeatReachesOwnRow, TypeOK
  <2> QED BY <2>1, <2>2, <2>3, <2>5 DEF Fresh, UniqueWorkerIds, TypeOK
<1>7. ASSUME NEW i \in Instances, Stop(i) PROVE WorkersInv'
  BY <1>7 DEF Stop, Goto, TypeOK, Fresh, Registered, HeartbeatReachesOwnRow, UniqueWorkerIds
<1>8. ASSUME NEW i \in Instances, deregister_worker(i) PROVE WorkersInv'
  <2>1. TypeOK' /\ Registered(i) /\ ~Registered(i)' /\ since'[i] = 0
    BY <1>8 DEF deregister_worker, Exit, Forget, Goto, TypeOK, Registered
  <2>2. \A j \in Instances : j # i => /\ Registered(j) <=> Registered(j)'
                                      /\ wid'[j] = wid[j] /\ since'[j] = since[j]
    BY <1>8 DEF deregister_worker, Exit, Goto, TypeOK, Registered
  <2>3. \A j \in Instances : Registered(j) /\ j # i => age'[wid[j]] = age[wid[j]]
    BY <1>8, <2>1 DEF deregister_worker, UniqueWorkerIds, TypeOK
  <2> QED
    BY <2>1, <2>2, <2>3 DEF Fresh, HeartbeatReachesOwnRow, UniqueWorkerIds
<1>9. ASSUME NEW i \in Instances, Crash(i) PROVE WorkersInv'
  <2>1. TypeOK' /\ ~Registered(i)' /\ since'[i] = 0 /\ age' = age
    BY <1>9 DEF Crash, Exit, Forget, Goto, TypeOK, Registered
  <2>2. \A j \in Instances : j # i => /\ Registered(j) <=> Registered(j)'
                                      /\ wid'[j] = wid[j] /\ since'[j] = since[j]
    BY <1>9 DEF Crash, Exit, Goto, TypeOK, Registered
  <2> QED
    BY <2>1, <2>2 DEF Fresh, HeartbeatReachesOwnRow, UniqueWorkerIds
<1>10. CASE Tick
  <2>1. TypeOK'
    BY <1>10 DEF Tick, TypeOK, Registered
  <2>2. \A j \in Instances : Registered(j) <=> Registered(j)'
    BY <1>10 DEF Tick, Registered
  <2>3. \A j \in Instances : Registered(j) =>
          age'[wid[j]] = age[wid[j]] + 1 /\ since'[j] = since[j] + 1
    <3> SUFFICES ASSUME NEW j \in Instances, Registered(j)
                 PROVE  age'[wid[j]] = age[wid[j]] + 1 /\ since'[j] = since[j] + 1
      OBVIOUS
    <3>1. age[wid[j]] + Skew <= Stale /\ wid[j] \in Workers /\ age[wid[j]] \in Nat
      BY RowIsSafe DEF TypeOK
    <3>2. age[wid[j]] <= Stale + Skew
      BY <3>1
    <3> QED BY <1>10, <3>1, <3>2 DEF Tick
  <2>4. \A j \in Instances : ~Registered(j) => since'[j] = since[j]
    BY <1>10 DEF Tick
  <2>5. HeartbeatReachesOwnRow'
    BY <1>10, <2>2, <2>3 DEF Tick, HeartbeatReachesOwnRow, TypeOK
  <2> QED BY <1>10, <2>1, <2>2, <2>4, <2>5 DEF Tick, Fresh, UniqueWorkerIds
<1>11. CASE UNCHANGED vars
  BY <1>11 DEF vars, TypeOK, Fresh, Registered, HeartbeatReachesOwnRow, UniqueWorkerIds
<1> QED
  BY <1>1, <1>2, <1>3, <1>4, <1>5, <1>6, <1>7, <1>8, <1>9, <1>10, <1>11
     DEF Next, register_worker

(* As long as no instance misses its heartbeats for longer than the        *)
(* clean-up's threshold (STALE_WORKER_SECS) less what the clocks of two    *)
(* instances differ by, register_worker never gives two live instances one *)
(* worker id.                                                              *)
THEOREM WorkerIdsAreUnique ==
  ASSUME MaxLate + Skew <= Stale
  PROVE  Spec => []UniqueWorkerIds
<1>1. WorkersInv => UniqueWorkerIds
  BY DEF WorkersInv
<1> QED BY <1>1, WorkersInvInit, WorkersInvNext, PTL DEF Spec

(* Under the same condition a heartbeat always finds the row it is for,    *)
(* although heartbeat() never looks at rows_affected.                      *)
THEOREM HeartbeatsAreNotLost ==
  ASSUME MaxLate + Skew <= Stale
  PROVE  Spec => []HeartbeatReachesOwnRow
<1>1. WorkersInv => HeartbeatReachesOwnRow
  BY DEF WorkersInv
<1> QED BY <1>1, WorkersInvInit, WorkersInvNext, PTL DEF Spec

-----------------------------------------------------------------------------
(* The start-up                                                            *)

BootTypeOK ==
  /\ schema \subseteq 1..Statements
  /\ done \in [Instances -> 0..Statements]
  /\ phase \in [Instances -> {"down", "migrate", "register", "seed", "ready",
                              "serving", "stopping"}]
  /\ email \in [Instances -> Emails]
  /\ users \in [Emails -> {"none", "user", "system"}]
  /\ squatted \subseteq Instances

(* What an instance knows of its system account, in each phase *)
Progress(i) ==
  /\ phase[i] = "seed" /\ i \notin squatted => users[email[i]] # "user"
  /\ phase[i] \in {"ready", "serving"} /\ i \notin squatted => users[email[i]] = "system"

BootInv == BootTypeOK /\ \A i \in Instances : Progress(i)

-----------------------------------------------------------------------------
(* Every step of a start-up is a step of the worker registry or leaves it  *)
(* alone.                                                                  *)
LEMMA BootStepIsWorkersStep == [BootNext]_allVars => [Next]_vars
<1> SUFFICES ASSUME [BootNext]_allVars PROVE [Next]_vars
  OBVIOUS
<1>1. ASSUME NEW i \in Instances,
             \/ bootstrap(i) \/ run_migrations(i) \/ FindAdmin(i)
             \/ seed_system_admin(i) \/ serve(i)
             \/ \E e \in Emails : Visit(i, e) \/ delete_user(i, e)
             \/ \E e, f \in Emails : update_user(i, e, f)
      PROVE  UNCHANGED vars
  BY <1>1 DEF bootstrap, run_migrations, FindAdmin, seed_system_admin, serve, Visit,
             delete_user, update_user
<1>2. ASSUME NEW i \in Instances,
             \/ Migrated(i) \/ Register(i) \/ Heartbeat(i) \/ shutdown_signal(i)
             \/ Deregister(i)
      PROVE  Next
  BY <1>2 DEF Migrated, Register, Heartbeat, shutdown_signal, Deregister, Next
<1>3. ASSUME NEW i \in Instances, Die(i) PROVE Next \/ UNCHANGED vars
  BY <1>3 DEF Die, Next
<1>4. CASE Tick
  BY <1>4 DEF Next
<1>5. CASE UNCHANGED allVars
  BY <1>5 DEF allVars
<1> QED BY <1>1, <1>2, <1>3, <1>4, <1>5 DEF BootNext

LEMMA BootInvInit == BootInit => BootInv
BY BootstrapAssumption DEF BootInit, BootTypeOK, BootInv, Progress

(* A step that changes the users table at addresses of regular accounts    *)
(* alone leaves every system account in place                              *)
LEMMA AccountStep ==
  ASSUME BootInv, BootTypeOK', UNCHANGED <<phase, email>>, squatted \subseteq squatted',
         \A e \in Emails : users[e] = "system" => users'[e] = "system",
         \A e \in Emails : users'[e] = "user" =>
           users[e] = "user" \/ Seeding(e) \subseteq squatted'
  PROVE  BootInv'
<1> SUFFICES ASSUME NEW i \in Instances PROVE Progress(i)'
  BY DEF BootInv
<1>1. Progress(i) /\ email[i] \in Emails
  BY DEF BootInv, BootTypeOK
<1> QED BY <1>1 DEF Progress, Seeding

(* A step in which only instance i moves on, with the accounts unchanged *)
LEMMA PhaseStep ==
  ASSUME BootInv, BootTypeOK', NEW i \in Instances, UNCHANGED <<email, users>>,
         \A j \in Instances \ {i} : phase'[j] = phase[j] /\ (j \in squatted' <=> j \in squatted),
         Progress(i)'
  PROVE  BootInv'
BY DEF BootInv, Progress

LEMMA BootInvNext == BootInv /\ [BootNext]_allVars => BootInv'
<1> SUFFICES ASSUME BootInv, [BootNext]_allVars PROVE BootInv'
  OBVIOUS
<1>t. BootTypeOK
  BY DEF BootInv
<1>p. \A i \in Instances : Progress(i)
  BY DEF BootInv
<1> USE BootstrapAssumption
<1>1. ASSUME NEW i \in Instances, bootstrap(i) PROVE BootInv'
  <2>1. BootTypeOK'
    BY <1>1, <1>t DEF bootstrap, Enter, BootTypeOK
  <2> QED BY <1>1, <1>t, <2>1, PhaseStep DEF bootstrap, Enter, BootTypeOK, Progress
<1>2. ASSUME NEW i \in Instances, run_migrations(i) PROVE BootInv'
  <2>1. done[i] + 1 \in 1..Statements
    BY <1>2, <1>t DEF run_migrations, BootTypeOK
  <2>a. schema' \subseteq 1..Statements
    BY <1>2, <1>t, <2>1 DEF run_migrations, BootTypeOK
  <2>b. done[i] + 1 \in 0..Statements
    BY <2>1
  <2>2. schema' \subseteq 1..Statements /\ done' \in [Instances -> 0..Statements]
    BY <1>2, <1>t, <2>a, <2>b DEF run_migrations, BootTypeOK
  <2>3. BootTypeOK' /\ UNCHANGED <<phase, email, users, squatted>>
    BY <1>2, <1>t, <2>2 DEF run_migrations, BootTypeOK
  <2> QED BY <1>p, <2>3 DEF BootInv, Progress
<1>3. ASSUME NEW i \in Instances, Migrated(i) PROVE BootInv'
  <2>1. BootTypeOK'
    BY <1>3, <1>t DEF Migrated, Enter, BootTypeOK
  <2> QED BY <1>3, <1>t, <2>1, PhaseStep DEF Migrated, Enter, BootTypeOK, Progress
<1>4. ASSUME NEW i \in Instances, FindAdmin(i) PROVE BootInv'
  <2>1. BootTypeOK'
    BY <1>4, <1>t DEF FindAdmin, Enter, BootTypeOK
  <2> QED BY <1>4, <1>t, <2>1, PhaseStep DEF FindAdmin, Enter, BootTypeOK, Progress
<1>5. ASSUME NEW i \in Instances, seed_system_admin(i) PROVE BootInv'
  <2>1. /\ BootTypeOK' /\ UNCHANGED <<email, squatted>> /\ phase[i] = "seed"
        /\ phase' = [phase EXCEPT ![i] = "ready"]
    BY <1>5, <1>t DEF seed_system_admin, Enter, BootTypeOK
  <2>2. /\ \A e \in Emails : users'[e] = users[e] \/ users'[e] = "system"
        /\ users'[email[i]] = "system" \/ users'[email[i]] = users[email[i]]
        /\ users'[email[i]] # "none"
    BY <1>5, <1>t DEF seed_system_admin, BootTypeOK
  <2>3. Progress(i)'
    BY <1>p, <1>t, <2>1, <2>2 DEF Progress, BootTypeOK
  <2>4. ASSUME NEW j \in Instances, j # i PROVE Progress(j)'
    BY <1>p, <1>t, <2>1, <2>2, <2>4 DEF Progress, BootTypeOK
  <2> QED BY <2>1, <2>3, <2>4 DEF BootInv
<1>6. ASSUME NEW i \in Instances, serve(i) PROVE BootInv'
  <2>1. BootTypeOK'
    BY <1>6, <1>t DEF serve, Enter, BootTypeOK
  <2> QED BY <1>6, <1>t, <1>p, <2>1, PhaseStep DEF serve, Enter, BootTypeOK, Progress
<1>7. ASSUME NEW i \in Instances, NEW e \in Emails, Visit(i, e) PROVE BootInv'
  <2>1. BootTypeOK'
    BY <1>7, <1>t DEF Visit, Seeding, BootTypeOK
  <2> QED BY <1>7, <1>t, <2>1, AccountStep DEF Visit, BootTypeOK
<1>8. ASSUME NEW i \in Instances, NEW e \in Emails, NEW f \in Emails, update_user(i, e, f)
      PROVE  BootInv'
  <2>1. BootTypeOK'
    BY <1>8, <1>t DEF update_user, Seeding, BootTypeOK
  <2> QED BY <1>8, <1>t, <2>1, AccountStep DEF update_user, BootTypeOK
<1>9. ASSUME NEW i \in Instances, NEW e \in Emails, delete_user(i, e) PROVE BootInv'
  <2>1. BootTypeOK'
    BY <1>9, <1>t DEF delete_user, BootTypeOK
  <2> QED BY <1>9, <1>t, <2>1, AccountStep DEF delete_user, BootTypeOK
<1>10. ASSUME NEW i \in Instances, shutdown_signal(i) PROVE BootInv'
  <2>1. BootTypeOK'
    BY <1>10, <1>t DEF shutdown_signal, Enter, BootTypeOK
  <2> QED BY <1>10, <1>t, <2>1, PhaseStep DEF shutdown_signal, Enter, BootTypeOK, Progress
<1>11. ASSUME NEW i \in Instances, Deregister(i) \/ Die(i) PROVE BootInv'
  <2>0. Gone(i)
    BY <1>11 DEF Deregister, Die
  <2>1. BootTypeOK' /\ Gone(i)
    <3>1. 0 \in 0..Statements
      BY BootstrapAssumption
    <3> QED BY <1>t, <2>0, <3>1 DEF Gone, Enter, BootTypeOK
  <2> QED BY <1>t, <2>1, PhaseStep DEF Gone, Enter, BootTypeOK, Progress
<1>12. CASE UNCHANGED bootVars
  BY <1>12, <1>t, <1>p DEF bootVars, BootInv, BootTypeOK, Progress
<1> QED
  BY <1>1, <1>2, <1>3, <1>4, <1>5, <1>6, <1>7, <1>8, <1>9, <1>10, <1>11, <1>12
     DEF BootNext, Register, Heartbeat, allVars

-----------------------------------------------------------------------------
(* The start-up implements the worker registry: bootstrap(), the servers   *)
(* and their shutdown take no step with the table or with a generator that *)
(* SnowflakeWorkers does not allow.                                        *)
THEOREM BootImplementsRegistry == BootSpec => Spec
<1>1. BootInit => Init
  BY DEF BootInit
<1> QED BY <1>1, BootStepIsWorkersStep, PTL DEF BootSpec, Spec

(* The address of a serving instance belongs to a system account, unless a *)
(* visitor took it between the instance's SELECT and its INSERT, however   *)
(* many instances of however many configurations seed, serve and die, and  *)
(* whichever regular accounts are registered, renamed and deleted.         *)
THEOREM ServersKeepTheirSystemAccount == BootSpec => []ServingHasSystemAccount
<1>1. BootInv => ServingHasSystemAccount
  BY DEF BootInv, Progress, ServingHasSystemAccount
<1> QED BY <1>1, BootInvInit, BootInvNext, PTL DEF BootSpec

-----------------------------------------------------------------------------
(***************************************************************************)
(* generate, in a server that has its worker id                            *)
(***************************************************************************)

(* last_timestamp never goes back, and a thread inside generate works with *)
(* a last_ts it loaded after its latest id.                                *)
TimeOf(t) ==
  /\ own[t] <= last_timestamp
  /\ at[t] # "load" => own[t] <= last[t] /\ last[t] <= last_timestamp
  /\ at[t] = "same" => cur[t] = last[t]
  /\ at[t] = "cas" => cur[t] > last[t]
  /\ at[t] \in {"reset", "claim"} => cur[t] > last[t] /\ cur[t] <= last_timestamp

Types ==
  /\ now \in Nat /\ last_timestamp \in Nat
  /\ at \in [Threads -> {"load", "clock", "behind", "same", "exhausted",
                         "cas", "reset", "claim"}]
  /\ last \in [Threads -> Nat] /\ cur \in [Threads -> Nat] /\ own \in [Threads -> Nat]

TimeInv == Types /\ \A t \in Threads : TimeOf(t)

LEMMA TimeInvInit == GenInit => TimeInv
BY DEF GenInit, TimeInv, Types, TimeOf

(* A step of thread t that moves last_timestamp forward at most, and keeps *)
(* the other threads where they are, preserves what concerns them          *)
LEMMA OtherThreads ==
  ASSUME TimeInv, NEW t \in Threads, Types',
         last_timestamp' >= last_timestamp,
         \A u \in Threads : u # t => /\ at'[u] = at[u] /\ last'[u] = last[u]
                                     /\ cur'[u] = cur[u] /\ own'[u] = own[u],
         TimeOf(t)'
  PROVE  TimeInv'
BY DEF TimeInv, Types, TimeOf

LEMMA TimeInvNext ==
  TimeInv /\ [GenNext]_genVars => TimeInv' /\ \A t \in Threads : own'[t] >= own[t]
<1> SUFFICES ASSUME TimeInv, [GenNext]_genVars
             PROVE  TimeInv' /\ \A t \in Threads : own'[t] >= own[t]
  OBVIOUS
<1> USE DEF clock, returned
<1>1. ASSUME NEW t \in Threads, Load(t)
      PROVE  TimeInv' /\ \A u \in Threads : own'[u] >= own[u]
  BY <1>1, OtherThreads DEF Load, GoTo, TimeInv, Types, TimeOf
<1>2. ASSUME NEW t \in Threads, ReadClock(t)
      PROVE  TimeInv' /\ \A u \in Threads : own'[u] >= own[u]
  BY <1>2, OtherThreads DEF ReadClock, GoTo, TimeInv, Types, TimeOf
<1>3. ASSUME NEW t \in Threads, Spin(t)
      PROVE  TimeInv' /\ \A u \in Threads : own'[u] >= own[u]
  BY <1>3, OtherThreads DEF Spin, GoTo, TimeInv, Types, TimeOf
<1>4. ASSUME NEW t \in Threads, SameMillisecond(t)
      PROVE  TimeInv' /\ \A u \in Threads : own'[u] >= own[u]
  BY <1>4, OtherThreads DEF SameMillisecond, Return, GoTo, TimeInv, Types, TimeOf
<1>5. ASSUME NEW t \in Threads, CompareExchange(t)
      PROVE  TimeInv' /\ \A u \in Threads : own'[u] >= own[u]
  BY <1>5, OtherThreads DEF CompareExchange, GoTo, TimeInv, Types, TimeOf
<1>6. ASSUME NEW t \in Threads, ResetSequence(t)
      PROVE  TimeInv' /\ \A u \in Threads : own'[u] >= own[u]
  BY <1>6, OtherThreads DEF ResetSequence, GoTo, TimeInv, Types, TimeOf
<1>7. ASSUME NEW t \in Threads, ClaimFirst(t)
      PROVE  TimeInv' /\ \A u \in Threads : own'[u] >= own[u]
  BY <1>7, OtherThreads DEF ClaimFirst, Return, GoTo, TimeInv, Types, TimeOf
<1>8. CASE ClockMoves
  BY <1>8 DEF ClockMoves, TimeInv, Types, TimeOf
<1>9. CASE UNCHANGED genVars
  BY <1>9 DEF genVars, TimeInv, Types, TimeOf
<1> QED
  BY <1>1, <1>2, <1>3, <1>4, <1>5, <1>6, <1>7, <1>8, <1>9 DEF GenNext, generate

(* generate, under any number of threads and any clock: a thread never     *)
(* receives an id with an older timestamp than its previous one.           *)
THEOREM OwnTime == GenSpec => OwnTimeNeverDecreases
<1>1. TimeInv /\ [GenNext]_genVars => [\A t \in Threads : own'[t] >= own[t]]_genVars
  BY TimeInvNext
<1> QED BY <1>1, TimeInvInit, TimeInvNext, PTL DEF GenSpec, OwnTimeNeverDecreases

-----------------------------------------------------------------------------
(* Calls that do not overlap                                               *)

Times == 0..MaxTime
Sequences == 0..MaxSequence

(* Every id returned so far is older than the pair (ts, seq) *)
IssuedBefore(ts, seq) ==
  \A i \in issued : \E a \in Times, b \in Sequences :
    /\ i = compose_id(a, WorkerId, b)
    /\ a < ts \/ (a = ts /\ b < seq)

(* One call at a time: its last_ts is current until it has won the new     *)
(* millisecond, of which no id is out before it resets the sequence.       *)
SerialOf(t) ==
  /\ at[t] \in {"clock", "behind", "same", "exhausted", "cas"} =>
       last[t] = last_timestamp
  /\ at[t] \in {"reset", "claim"} =>
       cur[t] = last_timestamp /\ IssuedBefore(last_timestamp, 0)
  /\ at[t] = "claim" => sequence = 0
  /\ \A u \in Threads : at[t] # "load" /\ at[u] # "load" => t = u

SerialTypes ==
  /\ now \in Times /\ last_timestamp \in Times /\ sequence \in Nat
  /\ cur \in [Threads -> Times]
  /\ overlapped \in BOOLEAN /\ twice \in BOOLEAN

SerialInv ==
  /\ TimeInv /\ SerialTypes
  /\ ~overlapped => /\ \A t \in Threads : SerialOf(t)
                    /\ IssuedBefore(last_timestamp, sequence)
                    /\ ~twice

(* An id of a later pair is a larger number. *)
LEMMA LaterIsLarger ==
  ASSUME FieldsAdd, NEW a \in Times, NEW b \in Sequences,
         NEW ts \in Times, NEW seq \in Sequences,
         a < ts \/ (a = ts /\ b < seq)
  PROVE  compose_id(a, WorkerId, b) < compose_id(ts, WorkerId, seq)
<1> DEFINE S == 2^SeqBits
           W == 2^WorkerBits
           x == a * W + WorkerId
           y == ts * W + WorkerId
<1>1. S \in Nat \ {0} /\ W \in Nat \ {0} /\ a \in Nat /\ ts \in Nat /\ WorkerId \in Nat
      /\ b \in Nat /\ seq \in Nat /\ b < S
  BY SnowflakeAssumption DEF FieldsAdd, Times, Sequences, MaxSequence
<1>2. compose_id(a, WorkerId, b) = x * S + b /\ compose_id(ts, WorkerId, seq) = y * S + seq
  BY DEF FieldsAdd, Times, Sequences
<1> HIDE DEF S, W
<1>3. CASE a < ts
  <2>1. x \in Nat /\ y \in Nat /\ x < y
    BY <1>1, <1>3
  <2> HIDE DEF x, y
  <2>2. (x + 1) * S <= y * S /\ (x + 1) * S = x * S + S /\ x * S \in Nat /\ y * S \in Nat
    BY <1>1, <2>1
  <2> QED BY <1>1, <1>2, <2>2
<1>4. CASE a = ts /\ b < seq
  <2>1. x = y /\ x \in Nat
    BY <1>1, <1>4
  <2> HIDE DEF x, y
  <2>2. x * S \in Nat
    BY <1>1, <2>1
  <2> QED BY <1>1, <1>2, <1>4, <2>1, <2>2
<1> QED BY <1>3, <1>4

LEMMA ComposeIsInt ==
  ASSUME FieldsAdd, NEW a \in Times, NEW b \in Sequences
  PROVE  compose_id(a, WorkerId, b) \in Int
<1>1. 2^SeqBits \in Nat /\ 2^WorkerBits \in Nat /\ a \in Nat /\ WorkerId \in Nat /\ b \in Nat
  BY SnowflakeAssumption DEF FieldsAdd, Times, Sequences
<1>2. compose_id(a, WorkerId, b) = (a * 2^WorkerBits + WorkerId) * 2^SeqBits + b
  BY DEF FieldsAdd, Times, Sequences
<1> QED BY <1>1, <1>2

(* The worker id can be read back from an id. *)
LEMMA WorkerReadsBack ==
  ASSUME FieldsAdd, NEW a \in Times, NEW b \in Sequences
  PROVE  (compose_id(a, WorkerId, b) \div 2^SeqBits) % 2^WorkerBits = WorkerId
<1> DEFINE S == 2^SeqBits
           W == 2^WorkerBits
           x == a * W + WorkerId
<1>1. S \in Nat \ {0} /\ W \in Nat \ {0} /\ a \in Nat /\ WorkerId \in Nat /\ WorkerId < W
      /\ b \in Nat /\ b < S
  BY SnowflakeAssumption DEF FieldsAdd, Times, Sequences, MaxSequence
<1>2. compose_id(a, WorkerId, b) = x * S + b
  BY DEF FieldsAdd, Times, Sequences
<1> HIDE DEF S, W
<1>3. x \in Nat /\ x % W = WorkerId
  BY <1>1
<1> HIDE DEF x
<1>4. (x * S + b) \div S = x
  BY <1>1, <1>3
<1> QED BY <1>2, <1>3, <1>4 DEF S, W

LEMMA SerialInvInit == GenInit => SerialInv
<1> SUFFICES ASSUME GenInit PROVE SerialInv
  OBVIOUS
<1>1. SerialTypes
  <2>1. /\ now \in Times /\ last_timestamp \in Times /\ sequence \in Nat
        /\ cur \in [Threads -> Times]
    BY SnowflakeAssumption DEF GenInit, Times
  <2>2. overlapped \in BOOLEAN /\ twice \in BOOLEAN
    BY Zenon DEF GenInit
  <2> QED BY <2>1, <2>2 DEF SerialTypes
<1> QED
  BY <1>1, TimeInvInit DEF GenInit, SerialInv, SerialOf, IssuedBefore

(* The steps of thread t that return no id and take no new millisecond *)
LEMMA QuietStep ==
  ASSUME SerialInv, SerialTypes', TimeInv', NEW t \in Threads,
         UNCHANGED <<last_timestamp, issued, twice>>,
         overlapped' = overlapped \/ overlapped' = TRUE,
         \A u \in Threads : u # t => at'[u] = at[u] /\ last'[u] = last[u] /\ cur'[u] = cur[u],
         sequence' >= sequence \/ at[t] = "reset",
         ~overlapped' => SerialOf(t)' /\ (\A u \in Threads : u # t => at[u] = "load")
  PROVE  SerialInv'
<1> SUFFICES ASSUME ~overlapped'
             PROVE  /\ \A u \in Threads : SerialOf(u)'
                    /\ IssuedBefore(last_timestamp, sequence)' /\ ~twice'
  BY DEF SerialInv
<1>1. ~overlapped /\ ~twice' /\ SerialOf(t) /\ IssuedBefore(last_timestamp, sequence)
  BY DEF SerialInv
<1>2. \A u \in Threads : SerialOf(u)'
  BY DEF SerialOf
<1>3. IssuedBefore(last_timestamp, sequence)'
  <2> SUFFICES ASSUME NEW i \in issued
               PROVE  \E a \in Times, b \in Sequences :
                        /\ i = compose_id(a, WorkerId, b)
                        /\ a < last_timestamp \/ (a = last_timestamp /\ b < sequence')
    BY DEF IssuedBefore
  <2>1. CASE sequence' >= sequence
    <3>1. PICK a \in Times, b \in Sequences :
            /\ i = compose_id(a, WorkerId, b)
            /\ a < last_timestamp \/ (a = last_timestamp /\ b < sequence)
      BY <1>1 DEF IssuedBefore
    <3>2. sequence \in Nat /\ sequence' \in Nat /\ b \in Int
      BY DEF SerialInv, SerialTypes, Sequences
    <3> QED BY <2>1, <3>1, <3>2
  <2>2. CASE at[t] = "reset"
    <3>1. PICK a \in Times, b \in Sequences :
            /\ i = compose_id(a, WorkerId, b)
            /\ a < last_timestamp \/ (a = last_timestamp /\ b < 0)
      BY <1>1, <2>2 DEF SerialOf, IssuedBefore
    <3>2. ~(b < 0)
      BY DEF Sequences
    <3> QED BY <3>1, <3>2
  <2> QED BY <2>1, <2>2
<1> QED BY <1>1, <1>2, <1>3

(* generate returns the next number of the current millisecond *)
LEMMA ReturnStep ==
  ASSUME FieldsAdd, SerialInv, SerialTypes', TimeInv', NEW t \in Threads,
         at[t] # "load", ~overlapped => cur[t] = last_timestamp,
         sequence' = sequence + 1, ~overlapped => sequence \in Sequences,
         Return(t, cur[t], sequence), UNCHANGED <<last_timestamp, last, cur>>
  PROVE  /\ SerialInv'
         /\ ~overlapped => \A i \in issued, j \in issued' \ issued : j > i
<1> SUFFICES ASSUME ~overlapped
             PROVE  /\ \A u \in Threads : SerialOf(u)'
                    /\ IssuedBefore(last_timestamp, sequence)' /\ ~twice'
                    /\ \A i \in issued, j \in issued' \ issued : j > i
  BY DEF SerialInv, Return
<1> DEFINE id == compose_id(last_timestamp, WorkerId, sequence)
<1>1. /\ issued' = issued \cup {id} /\ twice' = (twice \/ id \in issued)
      /\ at' = [at EXCEPT ![t] = "load"] /\ overlapped' = overlapped
  BY DEF Return, GoTo
<1>2. last_timestamp \in Times /\ sequence \in Sequences /\ sequence \in Nat
  BY DEF SerialInv, SerialTypes
<1>3. ASSUME NEW i \in issued PROVE i < id /\ i # id
  <2>1. PICK a \in Times, b \in Sequences :
          /\ i = compose_id(a, WorkerId, b)
          /\ a < last_timestamp \/ (a = last_timestamp /\ b < sequence)
    BY DEF SerialInv, IssuedBefore
  <2>2. i < id
    BY <1>2, <2>1, LaterIsLarger
  <2>3. i \in Int /\ id \in Int
    BY <1>2, <2>1, ComposeIsInt
  <2> HIDE DEF id
  <2> QED BY <2>2, <2>3
<1>4. \A u \in Threads : at'[u] = "load"
  BY <1>1 DEF SerialInv, SerialOf, TimeInv, Types
<1>5. ~twice'
  BY <1>1, <1>3 DEF SerialInv
<1>6. IssuedBefore(last_timestamp, sequence)'
  <2> SUFFICES ASSUME NEW i \in issued'
               PROVE  \E a \in Times, b \in Sequences :
                        /\ i = compose_id(a, WorkerId, b)
                        /\ a < last_timestamp \/ (a = last_timestamp /\ b < sequence + 1)
    BY DEF IssuedBefore
  <2>1. CASE i = id
    BY <1>2, <2>1
  <2>2. CASE i \in issued
    <3>1. PICK a \in Times, b \in Sequences :
            /\ i = compose_id(a, WorkerId, b)
            /\ a < last_timestamp \/ (a = last_timestamp /\ b < sequence)
      BY <2>2 DEF SerialInv, IssuedBefore
    <3>2. b \in Int
      BY DEF Sequences
    <3> QED BY <1>2, <3>1, <3>2
  <2> QED BY <1>1, <2>1, <2>2
<1>7. \A u \in Threads : SerialOf(u)'
  BY <1>4 DEF SerialOf
<1> QED BY <1>1, <1>3, <1>5, <1>6, <1>7

Growing == ~overlapped => \A i \in issued, j \in issued' \ issued : j > i

LEMMA SerialTypesNext ==
  ASSUME TimeInv, SerialTypes, [GenNext]_genVars
  PROVE  SerialTypes'
<1> USE DEF SerialTypes, TimeInv, Types
<1>1. now' \in Times
  BY SnowflakeAssumption
     DEF GenNext, genVars, clock, ClockMoves, generate, Load, ReadClock, Spin, SameMillisecond,
         CompareExchange, ResetSequence, ClaimFirst, Times
<1>2. last_timestamp' \in Times /\ sequence' \in Nat /\ cur' \in [Threads -> Times]
  BY DEF GenNext, genVars, clock, ClockMoves, generate, Load, ReadClock, Spin, SameMillisecond,
         CompareExchange, ResetSequence, ClaimFirst
<1>3. \/ UNCHANGED <<overlapped, twice>>
      \/ \E t \in Threads : Load(t) \/ SameMillisecond(t) \/ ClaimFirst(t)
  BY DEF GenNext, genVars, ClockMoves, generate, ReadClock, Spin, CompareExchange,
         ResetSequence, returned
<1>4. overlapped' \in BOOLEAN /\ twice' \in BOOLEAN
  BY <1>3, Zenon DEF Load, SameMillisecond, ClaimFirst, Return, returned
<1> QED BY <1>1, <1>2, <1>4

LEMMA SerialInvNext ==
  ASSUME FieldsAdd
  PROVE  SerialInv /\ [GenNext]_genVars => SerialInv' /\ Growing
<1> SUFFICES ASSUME SerialInv, [GenNext]_genVars PROVE SerialInv' /\ Growing
  OBVIOUS
<1>0. SerialTypes' /\ TimeInv'
  BY TimeInvNext, SerialTypesNext DEF SerialInv
<1>a. ASSUME UNCHANGED issued PROVE Growing
  BY <1>a DEF Growing
<1>b. /\ at \in [Threads -> {"load", "clock", "behind", "same", "exhausted",
                              "cas", "reset", "claim"}]
      /\ last \in [Threads -> Nat] /\ cur \in [Threads -> Times]
      /\ last_timestamp \in Nat /\ sequence \in Nat
  BY DEF SerialInv, SerialTypes, TimeInv, Types
<1>c. ASSUME NEW t \in Threads, at[t] # "load", ~overlapped
      PROVE  SerialOf(t) /\ \A u \in Threads : u # t => at[u] = "load"
  BY <1>c DEF SerialInv, SerialOf
<1> USE DEF GoTo, returned
<1>1. ASSUME NEW t \in Threads, Load(t) PROVE SerialInv' /\ Growing
  <2>1. ~overlapped' => ~overlapped /\ \A u \in Threads : u # t => at[u] = "load"
    BY <1>1 DEF Load
  <2>2. overlapped' = overlapped \/ overlapped' = TRUE
    BY <1>1, Zenon DEF Load, SerialInv, SerialTypes
  <2>3. ~overlapped' => SerialOf(t)'
    BY <1>1, <1>b, <2>1 DEF Load, SerialOf
  <2>4. sequence' >= sequence
    BY <1>1, <1>b DEF Load
  <2> QED BY <1>0, <1>1, <1>a, <1>b, <2>1, <2>2, <2>3, <2>4, QuietStep DEF Load
<1>2. ASSUME NEW t \in Threads, ReadClock(t) \/ Spin(t) PROVE SerialInv' /\ Growing
  <2>1. at[t] # "load" /\ UNCHANGED <<last_timestamp, issued, twice, overlapped, sequence>>
    BY <1>2 DEF ReadClock, Spin
  <2>2. ~overlapped => SerialOf(t)'
    BY <1>2, <1>b, <1>c, <2>1 DEF ReadClock, Spin, SerialOf
  <2>3. \A u \in Threads : u # t => at'[u] = at[u] /\ last'[u] = last[u] /\ cur'[u] = cur[u]
    BY <1>2, <1>b DEF ReadClock, Spin
  <2>4. sequence' >= sequence
    BY <2>1, <1>b
  <2> QED BY <1>0, <1>a, <1>c, <2>1, <2>2, <2>3, <2>4, QuietStep
<1>3. ASSUME NEW t \in Threads, SameMillisecond(t) PROVE SerialInv' /\ Growing
  <2>0. at[t] # "load" /\ (~overlapped => cur[t] = last_timestamp)
    BY <1>3, <1>c DEF SameMillisecond, SerialOf, SerialInv, TimeInv, TimeOf
  <2>1. CASE sequence < MaxSequence
    <3>1. sequence \in Sequences
      BY <1>b, <2>1, 2^SeqBits \in Nat DEF Sequences, MaxSequence, FieldsAdd
    <3>2. /\ Return(t, cur[t], sequence) /\ sequence' = sequence + 1
          /\ UNCHANGED <<last_timestamp, last, cur>>
      BY <1>3, <2>1 DEF SameMillisecond
    <3> QED BY <1>0, <2>0, <3>1, <3>2, ReturnStep DEF Growing
  <2>2. CASE ~(sequence < MaxSequence)
    <3>1. /\ UNCHANGED <<last_timestamp, issued, twice, overlapped, last, cur>>
          /\ sequence' = sequence + 1 /\ at[t] = "same"
          /\ at' = [at EXCEPT ![t] = "exhausted"]
      BY <1>3, <2>2 DEF SameMillisecond
    <3>2. ~overlapped => SerialOf(t)'
      BY <3>1, <1>b, <1>c, <2>0 DEF SerialOf
    <3>3. sequence' >= sequence
      BY <3>1, <1>b
    <3> QED BY <1>0, <1>a, <1>b, <1>c, <2>0, <3>1, <3>2, <3>3, QuietStep
  <2> QED BY <2>1, <2>2
<1>5. ASSUME NEW t \in Threads, ResetSequence(t) PROVE SerialInv' /\ Growing
  <2>1. /\ UNCHANGED <<last_timestamp, issued, twice, overlapped, last, cur>>
        /\ sequence' = 0 /\ at[t] = "reset" /\ at' = [at EXCEPT ![t] = "claim"]
    BY <1>5 DEF ResetSequence
  <2>2. ~overlapped => SerialOf(t)'
    BY <2>1, <1>b, <1>c DEF SerialOf, IssuedBefore
  <2> QED BY <1>0, <1>a, <1>b, <1>c, <2>1, <2>2, QuietStep
<1>6. ASSUME NEW t \in Threads, ClaimFirst(t) PROVE SerialInv' /\ Growing
  <2>1. /\ at[t] = "claim" /\ sequence' = sequence + 1
        /\ Return(t, cur[t], sequence) /\ UNCHANGED <<last_timestamp, last, cur>>
    BY <1>6 DEF ClaimFirst
  <2>2. ~overlapped => cur[t] = last_timestamp /\ sequence = 0
    BY <2>1, <1>c DEF SerialOf
  <2>3. 0 \in Sequences
    BY DEF FieldsAdd, Sequences, MaxSequence
  <2> QED BY <1>0, <2>1, <2>2, <2>3, ReturnStep DEF Growing
<1>7. CASE ClockMoves \/ UNCHANGED genVars
  <2>1. UNCHANGED <<last_timestamp, sequence, at, last, cur, issued, twice, overlapped>>
    BY <1>7 DEF ClockMoves, genVars
  <2> QED BY <1>0, <1>a, <2>1 DEF SerialInv, SerialOf, IssuedBefore
<1>4. ASSUME NEW t \in Threads, CompareExchange(t) PROVE SerialInv' /\ Growing
  <2>0. /\ at[t] = "cas" /\ UNCHANGED <<issued, twice, overlapped, last, cur, sequence>>
        /\ \A u \in Threads : u # t => at'[u] = at[u]
    BY <1>4, <1>b DEF CompareExchange
  <2> SUFFICES ASSUME ~overlapped
               PROVE  /\ \A u \in Threads : SerialOf(u)'
                      /\ IssuedBefore(last_timestamp, sequence)'
    BY <1>0, <1>a, <2>0 DEF SerialInv
  <2>1. last_timestamp = last[t] /\ \A u \in Threads : u # t => at[u] = "load"
    BY <1>c, <2>0 DEF SerialOf
  <2>2. last_timestamp' = cur[t] /\ at'[t] = "reset"
    BY <1>4, <1>b, <2>1 DEF CompareExchange
  <2>3. last_timestamp < last_timestamp'
    BY <2>0, <2>1, <2>2 DEF SerialInv, TimeInv, TimeOf
  <2>4. ASSUME NEW s PROVE \A i \in issued : \E a \in Times, b \in Sequences :
          /\ i = compose_id(a, WorkerId, b)
          /\ a < last_timestamp' \/ (a = last_timestamp' /\ b < s)
    <3> SUFFICES ASSUME NEW i \in issued
                 PROVE  \E a \in Times, b \in Sequences :
                          i = compose_id(a, WorkerId, b) /\ a < last_timestamp'
      OBVIOUS
    <3>1. PICK a \in Times, b \in Sequences :
            /\ i = compose_id(a, WorkerId, b)
            /\ a < last_timestamp \/ (a = last_timestamp /\ b < sequence)
      BY DEF SerialInv, IssuedBefore
    <3>2. a \in Nat /\ last_timestamp \in Nat /\ last_timestamp' \in Nat
      BY <1>0, <1>b DEF Times, SerialTypes
    <3> QED BY <2>3, <3>1, <3>2
  <2>5. IssuedBefore(last_timestamp, 0)' /\ IssuedBefore(last_timestamp, sequence)'
    BY <2>0, <2>4 DEF IssuedBefore
  <2> QED BY <2>0, <2>1, <2>2, <2>5 DEF SerialOf
<1> QED
  BY <1>1, <1>2, <1>3, <1>4, <1>5, <1>6, <1>7 DEF GenNext, generate

(* Calls of generate that never overlapped, by any number of threads and   *)
(* under any clock, received different ids, and the worker id can be read  *)
(* back from each, as no sequence number runs over into its bits.          *)
THEOREM SerialCallsGetGoodIds ==
  ASSUME FieldsAdd
  PROVE  GenSpec => []SerialIdsAreGood
<1>1. SerialInv => SerialIdsAreGood
  <2> SUFFICES ASSUME SerialInv, ~overlapped, NEW i \in issued
               PROVE  (i \div 2^SeqBits) % 2^WorkerBits = WorkerId
    BY DEF SerialInv, SerialIdsAreGood
  <2>1. PICK a \in Times, b \in Sequences : i = compose_id(a, WorkerId, b)
    BY DEF SerialInv, IssuedBefore
  <2> QED BY <2>1, WorkerReadsBack
<1>2. SerialInv /\ [GenNext]_genVars => SerialInv'
  BY SerialInvNext
<1> QED BY <1>1, <1>2, SerialInvInit, PTL DEF GenSpec

(* Their ids also grow: a clock that was set back is waited for, and an    *)
(* exhausted millisecond is left.                                          *)
THEOREM SerialCallsGetLargerIds ==
  ASSUME FieldsAdd
  PROVE  GenSpec => IdsIncrease
<1>1. SerialInv /\ [GenNext]_genVars => SerialInv' /\ (~overlapped => \A i \in issued, j \in issued' \ issued : j > i)
  BY SerialInvNext DEF Growing
<1> QED BY <1>1, SerialInvInit, PTL DEF GenSpec, IdsIncrease

=============================================================================
