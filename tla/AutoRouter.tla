----------------------------- MODULE AutoRouter -----------------------------
(***************************************************************************)
(* AutoRouter: reads spread over N connected replicas, with a circuit      *)
(* breaker per replica, retries within a request, the writer as fallback,  *)
(* and the background health check.  A request is one read statement; the  *)
(* health mutex is held within a step, never across an await.  A breaker   *)
(* holds the ticks left until its deadline; at 0 the deadline has passed   *)
(* and the slot is still Some.                                             *)
(***************************************************************************)
EXTENDS Integers, FiniteSets

CONSTANTS Requests,
          N,           \* number of connected read replicas
          Retries,     \* retry_attempts
          Break,       \* circuit_break in ticks
          HealthCheck  \* health_check_interval_secs > 0

Replicas == 0 .. N - 1

ASSUME RouterAssumption ==
  /\ IsFiniteSet(Requests)
  /\ N \in Nat /\ Retries \in Nat /\ Break \in Nat \ {0}
  /\ HealthCheck \in BOOLEAN

Closed == -1

VARIABLES
  up,       \* replicas that can be reached
  down,     \* down[i]: down_until of replica i
  fallback, \* fallback_to_write, as configured
  at,       \* control point of each request
  idx,      \* idx[r]: replica the request's statement is at, or 0
  tried,    \* tried[r]: replicas tried in phase 1
  round,    \* round[r]: rounds of phase 2 that are over
  res,      \* how the request ended
  toProbe,  \* replicas the health check has yet to ping
  pinged,   \* what the ping of the first of them has answered
  skipped,  \* history: open breakers r ended phase 1 at
  asked     \* history: replicas r's statement was sent to

health == <<up, down>>
reading == <<idx, tried, round, res, skipped, asked>>
probing == <<toProbe, pinged>>
routerVars == <<health, fallback, at, reading, probing>>

RouterTypeOK ==
  /\ up \subseteq Replicas
  /\ down \in [Replicas -> Closed..Break]
  /\ fallback \in BOOLEAN
  /\ at \in [Requests -> {"start", "pick", "read", "retry", "reread", "write", "done"}]
  /\ idx \in [Requests -> Replicas \cup {0}]
  /\ tried \in [Requests -> SUBSET Replicas]
  /\ round \in [Requests -> 0..Retries]
  /\ res \in [Requests -> {"none", "answer", "conn", "exhausted"}]
  /\ toProbe \subseteq Replicas /\ pinged \in {"none", "ok", "failed"}
  /\ skipped \in [Requests -> SUBSET Replicas]
  /\ asked \in [Requests -> SUBSET Replicas]

(* A replica that did not connect at start-up is not among the N *)
RouterInit ==
  /\ up = Replicas /\ down = [i \in Replicas |-> Closed]
  /\ fallback \in BOOLEAN
  /\ at = [r \in Requests |-> "start"]
  /\ idx = [r \in Requests |-> 0]
  /\ tried = [r \in Requests |-> {}]
  /\ round = [r \in Requests |-> 0]
  /\ res = [r \in Requests |-> "none"]
  /\ toProbe = {} /\ pinged = "none"
  /\ skipped = [r \in Requests |-> {}]
  /\ asked = [r \in Requests |-> {}]

GoTo(r, l) == at' = [at EXCEPT ![r] = l]

Answer(r, a) == GoTo(r, "done") /\ res' = [res EXCEPT ![r] = a]

-----------------------------------------------------------------------------

(* query_one and query_all: without replicas, to the writer *)
Start(r) ==
  /\ at[r] = "start"
  /\ GoTo(r, IF N = 0 THEN "write" ELSE "pick")
  /\ UNCHANGED <<health, fallback, reading, probing>>

(* Mutant: only the first replica is tried *)
CandidatesOnce(r) ==
  IF tried[r] = {} THEN {i \in Replicas : down[i] \in {Closed, 0}} ELSE {}

(* pick_next_read: replicas not yet tried whose breaker is not open *)
Candidates(r) == {i \in Replicas \ tried[r] : down[i] \in {Closed, 0}}

(* The strategy (round-robin, random, weighted) may yield any of them; all *)
(* their breakers are closed on the way                                    *)
PhaseOne(r) ==
  /\ at[r] = "pick" /\ Candidates(r) # {}
  /\ \E i \in Candidates(r) :
       /\ idx' = [idx EXCEPT ![r] = i]
       /\ tried' = [tried EXCEPT ![r] = @ \cup {i}]
       /\ asked' = [asked EXCEPT ![r] = @ \cup {i}]
  /\ down' = [i \in Replicas |-> IF i \in Candidates(r) THEN Closed ELSE down[i]]
  /\ GoTo(r, "read")
  /\ UNCHANGED <<up, fallback, round, res, probing, skipped>>

(* After phase 2, or after phase 1 when nothing failed *)
GiveUp(r) ==
  IF fallback THEN GoTo(r, "write") /\ UNCHANGED res
  ELSE Answer(r, IF tried[r] = {} THEN "exhausted" ELSE "conn")

(* No replica is left: phase 2 if one has failed *)
PhaseOneOver(r) ==
  /\ at[r] = "pick" /\ Candidates(r) = {}
  /\ IF tried[r] # {} /\ Retries > 0
     THEN GoTo(r, "retry") /\ UNCHANGED res
     ELSE GiveUp(r)
  /\ skipped' = [skipped EXCEPT ![r] = {i \in Replicas \ tried[r] : down[i] > 0}]
  /\ UNCHANGED <<health, fallback, idx, tried, round, asked, probing>>

mark_down(i) == down' = [down EXCEPT ![i] = Break]

(* The statement's outcome: an answer (a value, or an error of the query,  *)
(* both returned as they are) or an error of the connection (also a pool   *)
(* without a free connection)                                              *)
Read(r) ==
  /\ at[r] = "read"
  /\ \/ /\ idx[r] \in up /\ Answer(r, "answer")
        /\ UNCHANGED down
     \/ mark_down(idx[r]) /\ GoTo(r, "pick") /\ UNCHANGED res
  /\ idx' = [idx EXCEPT ![r] = 0]
  /\ UNCHANGED <<up, fallback, tried, round, skipped, asked, probing>>

(* Mutant: every round goes to the same replica *)
SameReplica(r) == Cardinality(tried[r]) % N

(* Round k of phase 2 goes to replica (|tried| + k) % N, its breaker open  *)
(* or not                                                                  *)
RetryIndex(r) == (Cardinality(tried[r]) + round[r]) % N

PhaseTwo(r) ==
  /\ at[r] = "retry"
  /\ \/ /\ round[r] < Retries
        /\ idx' = [idx EXCEPT ![r] = RetryIndex(r)]
        /\ asked' = [asked EXCEPT ![r] = @ \cup {RetryIndex(r)}]
        /\ GoTo(r, "reread") /\ UNCHANGED res
     \/ round[r] = Retries /\ GiveUp(r) /\ UNCHANGED <<idx, asked>>
  /\ UNCHANGED <<health, fallback, tried, round, skipped, probing>>

(* Mutant: rounds are not counted *)
RereadUncounted(r) ==
  /\ at[r] = "reread"
  /\ \/ idx[r] \in up /\ Answer(r, "answer") /\ UNCHANGED down
     \/ mark_down(idx[r]) /\ GoTo(r, "retry") /\ UNCHANGED res
  /\ idx' = [idx EXCEPT ![r] = 0]
  /\ UNCHANGED <<up, fallback, tried, round, skipped, asked, probing>>

Reread(r) ==
  /\ at[r] = "reread"
  /\ \/ /\ idx[r] \in up /\ Answer(r, "answer")
        /\ UNCHANGED <<down, round>>
     \/ /\ mark_down(idx[r]) /\ GoTo(r, "retry") /\ UNCHANGED res
        /\ round' = [round EXCEPT ![r] = @ + 1]
  /\ idx' = [idx EXCEPT ![r] = 0]
  /\ UNCHANGED <<up, fallback, tried, skipped, asked, probing>>

(* The writer: the statement's answer, or an error *)
Write(r) ==
  /\ at[r] = "write"
  /\ \E a \in {"answer", "conn"} : Answer(r, a)
  /\ UNCHANGED <<health, fallback, idx, tried, round, skipped, asked, probing>>

-----------------------------------------------------------------------------
(* The health check, when an interval is configured                        *)

(* probe_reads: replicas marked down whose deadline has passed *)
Collect ==
  /\ HealthCheck /\ toProbe = {}
  /\ toProbe' = {i \in Replicas : down[i] = 0}
  /\ UNCHANGED <<health, fallback, at, reading, pinged>>

(* The ping of the first of them, without the mutex *)
Ping(i) ==
  /\ i \in toProbe /\ pinged = "none" /\ \A j \in toProbe : i <= j
  /\ pinged' = IF i \in up THEN "ok" ELSE "failed"
  /\ UNCHANGED <<health, fallback, at, reading, toProbe>>

(* Mutant: the breaker is set again also when the ping succeeded *)
ProbeOpening(i) ==
  /\ i \in toProbe /\ pinged # "none" /\ \A j \in toProbe : i <= j
  /\ toProbe' = toProbe \ {i} /\ pinged' = "none"
  /\ mark_down(i)
  /\ UNCHANGED <<up, fallback, at, reading>>

(* Its answer: a success closes the breaker if it is Some, also one that   *)
(* mark_down has set since the collection or the ping, a failure opens it  *)
(* again                                                                   *)
Probe(i) ==
  /\ i \in toProbe /\ pinged # "none" /\ \A j \in toProbe : i <= j
  /\ toProbe' = toProbe \ {i} /\ pinged' = "none"
  /\ \/ pinged = "ok" /\ down' = [down EXCEPT ![i] = Closed]
     \/ pinged = "failed" /\ mark_down(i)
  /\ UNCHANGED <<up, fallback, at, reading>>

(* Replicas come and go, and time passes *)
Fail(i) ==
  /\ i \in up /\ up' = up \ {i}
  /\ UNCHANGED <<down, fallback, at, reading, probing>>

Recover(i) ==
  /\ i \in Replicas \ up /\ up' = up \cup {i}
  /\ UNCHANGED <<down, fallback, at, reading, probing>>

TimePasses ==
  /\ down' = [i \in Replicas |-> IF down[i] > 0 THEN down[i] - 1 ELSE down[i]]
  /\ UNCHANGED <<up, fallback, at, reading, probing>>

Request(r) ==
  \/ Start(r) \/ PhaseOne(r) \/ PhaseOneOver(r) \/ Read(r)
  \/ PhaseTwo(r) \/ Reread(r) \/ Write(r)

RouterNext ==
  \/ \E r \in Requests : Request(r)
  \/ Collect
  \/ \E i \in Replicas : Ping(i) \/ Probe(i) \/ Fail(i) \/ Recover(i)
  \/ TimePasses

RouterSpec == RouterInit /\ [][RouterNext]_routerVars

(* Statements end (pool and statement timeouts), the health check's        *)
(* interval task runs, and time passes                                     *)
FairRouterSpec ==
  /\ RouterSpec
  /\ \A r \in Requests : WF_routerVars(Request(r))
  /\ WF_routerVars(Collect)
  /\ \A i \in Replicas : WF_routerVars(Ping(i) \/ Probe(i))
  /\ WF_routerVars(TimePasses)

-----------------------------------------------------------------------------
(* execute_read_retry gives up, or turns to the writer, only after every   *)
(* replica was tried or had its breaker open when the request ran out of   *)
(* candidates, whatever breakers other requests opened and closed.         *)
GivesUpOnlyAfterAll ==
  \A r \in Requests :
    /\ at[r] = "write" \/ res[r] \in {"conn", "exhausted"}
    /\ N > 0
    => tried[r] \cup skipped[r] = Replicas

(* Phase 2 "allows giving each replica a second chance": with a            *)
(* retry_attempts of at least the number of replicas, a read that gives up *)
(* after an error has sent its statement to every replica, also to those   *)
(* whose breaker other reads had opened and phase 1 therefore left out.    *)
EveryReplicaIsAsked ==
  \A r \in Requests :
    /\ at[r] = "write" \/ res[r] = "conn"
    /\ tried[r] # {} /\ Retries >= N
    => asked[r] = Replicas

(* The health check, if configured: a replica that stays reachable gets    *)
(* its breaker closed, also when no request asks for it any more, and also *)
(* when requests set it between the collection, the ping and its answer.   *)
RecoveredReplicaReturns ==
  HealthCheck => \A i \in Replicas : (<>[](i \in up)) => <>[](down[i] = Closed)

(* Every read ends, by an answer, an error or the writer.                  *)
EveryReadReturns == \A r \in Requests : <>(at[r] = "done")
=============================================================================
