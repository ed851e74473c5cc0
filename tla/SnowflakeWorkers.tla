-------------------------- MODULE SnowflakeWorkers --------------------------
(***************************************************************************)
(* The registry that gives every server instance its Snowflake worker id:  *)
(* the snowflake_worker table, registration, heartbeats and deregistration *)
(* of instances that start, stop, crash and lose their database.  Time     *)
(* passes in heartbeat intervals (10 s); a row carries the age of its      *)
(* heartbeat.  Each instance reads its own clock, and two clocks may be    *)
(* Skew intervals apart.                                                   *)
(***************************************************************************)
EXTENDS Integers

CONSTANTS Instances,
          MaxWorker,  \* MAX_WORKER_ID
          Stale,      \* STALE_WORKER_SECS, in heartbeat intervals
          MaxLate,    \* intervals an instance can go without a heartbeat
          Skew        \* intervals by which two instances' clocks can differ

ASSUME WorkersAssumption ==
  MaxWorker \in Nat /\ Stale \in Nat /\ MaxLate \in Nat \ {0} /\ Skew \in Nat

Workers == 0..MaxWorker
NoRow == Stale + Skew + 2
Ages == 0..NoRow      \* ages that every clock takes for stale are one

VARIABLES
  age,     \* age[w]: intervals since the heartbeat of w's row, or NoRow
  pc,      \* pc[i]: where instance i is
  used,    \* used[i]: worker ids i found taken
  next,    \* next[i]: lowest id that i has not tried yet
  wid,     \* wid[i]: worker id of i's generator
  since    \* since[i]: intervals since i's last heartbeat

vars == <<age, pc, used, next, wid, since>>

TypeOK ==
  /\ age \in [Workers -> Ages]
  /\ pc \in [Instances -> {"off", "clean", "scan", "insert", "run", "stop", "failed"}]
  /\ used \in [Instances -> SUBSET Workers]
  /\ next \in [Instances -> 0..(MaxWorker + 1)]
  /\ wid \in [Instances -> Workers]
  /\ since \in [Instances -> 0..MaxLate]

Init ==
  /\ age = [w \in Workers |-> NoRow]
  /\ pc = [i \in Instances |-> "off"]
  /\ used = [i \in Instances |-> {}]
  /\ next = [i \in Instances |-> 0]
  /\ wid = [i \in Instances |-> 0]
  /\ since = [i \in Instances |-> 0]

Goto(i, step) == pc' = [pc EXCEPT ![i] = step]

(* The locals of register_worker are gone when it returns *)
Forget(i) ==
  /\ used' = [used EXCEPT ![i] = {}]
  /\ next' = [next EXCEPT ![i] = 0]

(* ... and the whole memory when the process ends *)
Exit(i) ==
  /\ Goto(i, "off")
  /\ Forget(i)
  /\ wid' = [wid EXCEPT ![i] = 0]
  /\ since' = [since EXCEPT ![i] = 0]

(* init: nothing registered in this process yet *)
Start(i) ==
  /\ pc[i] = "off"
  /\ Goto(i, "clean")
  /\ UNCHANGED <<age, used, next, wid, since>>

(* Mutant: every row that missed an interval is stale *)
CleanLate(i) ==
  /\ pc[i] = "clean"
  /\ \E ahead \in [Workers -> (-Skew)..Skew] :
       age' = [w \in Workers |-> IF age[w] + ahead[w] > 1 THEN NoRow ELSE age[w]]
  /\ Goto(i, "scan")
  /\ UNCHANGED <<used, next, wid, since>>

(* DELETE ... WHERE heartbeat < now - 30 s, where now is this instance's   *)
(* clock and a heartbeat the clock of whoever wrote it                     *)
clean_stale_workers(i) ==
  /\ pc[i] = "clean"
  /\ \E ahead \in [Workers -> (-Skew)..Skew] :
       age' = [w \in Workers |-> IF age[w] + ahead[w] > Stale THEN NoRow ELSE age[w]]
  /\ Goto(i, "scan")
  /\ UNCHANGED <<used, next, wid, since>>

(* SELECT worker_id *)
Scan(i) ==
  /\ pc[i] = "scan"
  /\ used' = [used EXCEPT ![i] = {w \in Workers : age[w] # NoRow}]
  /\ next' = [next EXCEPT ![i] = 0]
  /\ Goto(i, "insert")
  /\ UNCHANGED <<age, wid, since>>

Candidates(i) == {w \in Workers \ used[i] : w >= next[i]}

(* Mutant: an upsert in place of INSERT under the primary key *)
UpsertWorker(i, w) ==
  /\ pc[i] = "insert"
  /\ w \in Candidates(i) /\ \A v \in Candidates(i) : w <= v
  /\ age' = [age EXCEPT ![w] = 0]
  /\ wid' = [wid EXCEPT ![i] = w]
  /\ Goto(i, "run")
  /\ Forget(i)
  /\ UNCHANGED since

(* INSERT of the lowest id that looks free; the primary key refuses a row  *)
(* another instance inserted meanwhile, and the next id is tried           *)
try_insert_worker(i, w) ==
  /\ pc[i] = "insert"
  /\ w \in Candidates(i) /\ \A v \in Candidates(i) : w <= v
  /\ \/ /\ age[w] = NoRow
        /\ age' = [age EXCEPT ![w] = 0]
        /\ wid' = [wid EXCEPT ![i] = w]
        /\ Goto(i, "run")
        /\ Forget(i)
     \/ /\ age[w] # NoRow
        /\ next' = [next EXCEPT ![i] = w + 1]
        /\ UNCHANGED <<age, wid, pc, used>>
  /\ UNCHANGED since

NoAvailableWorker(i) ==
  /\ pc[i] = "insert" /\ Candidates(i) = {}
  /\ Goto(i, "failed")
  /\ UNCHANGED <<age, used, next, wid, since>>

(* UPDATE ... WHERE worker_id = $1: touches the row whoever inserted it,   *)
(* and nothing is noticed when there is none                               *)
heartbeat(i) ==
  /\ pc[i] = "run"
  /\ age' = IF age[wid[i]] = NoRow THEN age ELSE [age EXCEPT ![wid[i]] = 0]
  /\ since' = [since EXCEPT ![i] = 0]
  /\ UNCHANGED <<pc, used, next, wid>>

(* The handle is dropped: the heartbeat task ends with a DELETE *)
Stop(i) ==
  /\ pc[i] = "run"
  /\ Goto(i, "stop")
  /\ UNCHANGED <<age, used, next, wid, since>>

deregister_worker(i) ==
  /\ pc[i] = "stop"
  /\ age' = [age EXCEPT ![wid[i]] = NoRow]
  /\ Exit(i)

(* The process dies, or a statement of its start-up or shutdown fails: its *)
(* row stays                                                               *)
Crash(i) ==
  /\ pc[i] # "off"
  /\ Exit(i)
  /\ UNCHANGED age

Registered(i) == pc[i] \in {"run", "stop"}

(* An interval passes; heartbeats that fail or come late are the ones that *)
(* do not happen in it                                                     *)
Tick ==
  /\ \A i \in Instances : Registered(i) => since[i] < MaxLate
  /\ age' = [w \in Workers |-> IF age[w] <= Stale + Skew THEN age[w] + 1 ELSE age[w]]
  /\ since' = [i \in Instances |-> IF Registered(i) THEN since[i] + 1 ELSE since[i]]
  /\ UNCHANGED <<pc, used, next, wid>>

register_worker(i) ==
  \/ clean_stale_workers(i) \/ Scan(i) \/ NoAvailableWorker(i)
  \/ \E w \in Workers : try_insert_worker(i, w)

Next ==
  \/ \E i \in Instances :
       \/ Start(i) \/ register_worker(i) \/ heartbeat(i) \/ Stop(i)
       \/ deregister_worker(i) \/ Crash(i)
  \/ Tick

Spec == Init /\ [][Next]_vars

-----------------------------------------------------------------------------
(* "With several nodes, worker ids are assigned without repetition": no    *)
(* two instances that generate ids share a worker id, through concurrent   *)
(* registrations, crashes and clean-ups.                                   *)
UniqueWorkerIds ==
  \A i, j \in Instances :
    Registered(i) /\ Registered(j) /\ i # j => wid[i] # wid[j]

(* heartbeat ignores how many rows it updated.  It never has to look: the  *)
(* row of a registered instance is there and as fresh as its last          *)
(* heartbeat.                                                              *)
HeartbeatReachesOwnRow ==
  \A i \in Instances : Registered(i) => age[wid[i]] <= since[i]
=============================================================================
