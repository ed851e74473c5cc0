----------------------------- MODULE Snowflake ------------------------------
(***************************************************************************)
(* SnowflakeGenerator::generate, called by the threads of one server       *)
(* process.  Every atomic operation and every reading of the clock is a    *)
(* step of its own; the wall clock may be set back at any time.            *)
(***************************************************************************)
EXTENDS Integers, FiniteSetsExt

CONSTANTS Threads,      \* threads that call generate
          Calls,        \* bound: ids each thread asks for
          MaxTime,      \* bound: the clock runs in 1..MaxTime milliseconds
          MaxMoves,     \* bound: times the clock shows a new value
          SeqBits,      \* SEQUENCE_BITS
          WorkerBits,   \* WORKER_ID_BITS
          WorkerId      \* worker_id of this process

ASSUME SnowflakeAssumption ==
  /\ Calls \in Nat /\ MaxTime \in Nat \ {0} /\ MaxMoves \in Nat
  /\ SeqBits \in Nat /\ WorkerBits \in Nat
  /\ WorkerId \in 0..(2^WorkerBits - 1)

MaxSequence == 2^SeqBits - 1

VARIABLES
  now,             \* the wall clock, in ms since the custom epoch
  moves,           \* how often it moved
  last_timestamp,  \* AtomicI64
  sequence,        \* AtomicI64
  at,              \* at[t]: where thread t is in generate
  last,            \* last[t]: its last_ts
  cur,             \* cur[t]: its current_ts
  left,            \* left[t]: calls it has still to make
  issued,          \* history: every id returned
  twice,           \* history: some id was returned twice
  own,             \* history: own[t]: timestamp in t's latest id
  overlapped       \* history: two calls were in progress together

clock == <<now, moves>>
returned == <<left, issued, twice, own, overlapped>>
genVars == <<clock, last_timestamp, sequence, at, last, cur, returned>>

GenTypeOK ==
  /\ now \in Nat /\ moves \in 0..MaxMoves /\ last_timestamp \in Nat /\ sequence \in Nat
  /\ at \in [Threads -> {"load", "clock", "behind", "same", "exhausted",
                         "cas", "reset", "claim"}]
  /\ last \in [Threads -> Nat]
  /\ cur \in [Threads -> Nat]
  /\ left \in [Threads -> 0..Calls]
  /\ issued \subseteq Int
  /\ twice \in BOOLEAN
  /\ own \in [Threads -> Nat]
  /\ overlapped \in BOOLEAN

(* The clock has passed the epoch when the generator is created *)
GenInit ==
  /\ now = 1 /\ moves = 0
  /\ last_timestamp = 0
  /\ sequence = 0
  /\ at = [t \in Threads |-> "load"]
  /\ last = [t \in Threads |-> 0]
  /\ cur = [t \in Threads |-> 0]
  /\ left = [t \in Threads |-> Calls]
  /\ issued = {}
  /\ twice = FALSE
  /\ own = [t \in Threads |-> 0]
  /\ overlapped = FALSE

-----------------------------------------------------------------------------
Bit(n, k) == (n \div 2^k) % 2

(* a | b, for numbers of at most bits bits *)
BitOr(a, b, bits) ==
  MapThenSumSet(LAMBDA k : IF Bit(a, k) + Bit(b, k) > 0 THEN 2^k ELSE 0, 0..bits)

(* The three fields shifted into place and or-ed, without a range check *)
compose_id(ts, worker, seq) ==
  ts * 2^(SeqBits + WorkerBits)
    + BitOr(worker * 2^SeqBits, seq, SeqBits + WorkerBits)

(* What the shifts are for: worker id and sequence inside their bits meet  *)
(* no bit of each other, so that the id is a number in a mixed radix.      *)
FieldsAdd ==
  /\ 2^SeqBits \in Nat \ {0} /\ 2^WorkerBits \in Nat \ {0}
  /\ \A ts \in 0..MaxTime, seq \in 0..MaxSequence :
       compose_id(ts, WorkerId, seq)
         = (ts * 2^WorkerBits + WorkerId) * 2^SeqBits + seq

GoTo(t, step) == at' = [at EXCEPT ![t] = step]

(* generate returns; the thread may call it again *)
Return(t, ts, seq) ==
  LET id == compose_id(ts, WorkerId, seq) IN
  /\ issued' = issued \cup {id}
  /\ twice' = (twice \/ id \in issued)
  /\ own' = [own EXCEPT ![t] = ts]
  /\ left' = [left EXCEPT ![t] = @ - 1]
  /\ GoTo(t, "load")
  /\ UNCHANGED overlapped

-----------------------------------------------------------------------------
Load(t) ==
  /\ at[t] = "load" /\ left[t] > 0
  /\ last' = [last EXCEPT ![t] = last_timestamp]
  /\ overlapped' = (overlapped \/ \E u \in Threads \ {t} : at[u] # "load")
  /\ GoTo(t, "clock")
  /\ UNCHANGED <<clock, last_timestamp, sequence, cur, left, issued, twice, own>>

(* Mutant: a clock that was set back counts as a new millisecond *)
ReadClockTrusting(t) ==
  /\ at[t] = "clock"
  /\ cur' = [cur EXCEPT ![t] = now]
  /\ GoTo(t, IF now = last[t] THEN "same" ELSE "cas")
  /\ UNCHANGED <<clock, last_timestamp, sequence, last, returned>>

ReadClock(t) ==
  /\ at[t] = "clock"
  /\ cur' = [cur EXCEPT ![t] = now]
  /\ GoTo(t, IF now < last[t] THEN "behind"
             ELSE IF now = last[t] THEN "same" ELSE "cas")
  /\ UNCHANGED <<clock, last_timestamp, sequence, last, returned>>

(* The two spin loops *)
Spin(t) ==
  /\ \/ at[t] = "behind" /\ now >= last[t]
     \/ at[t] = "exhausted" /\ now > cur[t]
  /\ GoTo(t, "load")
  /\ UNCHANGED <<clock, last_timestamp, sequence, last, cur, returned>>

(* Mutant: the limit of the sequence is not checked *)
SameMillisecondUnchecked(t) ==
  /\ at[t] = "same"
  /\ sequence' = sequence + 1
  /\ Return(t, cur[t], sequence)
  /\ UNCHANGED <<clock, last_timestamp, last, cur>>

SameMillisecond(t) ==
  /\ at[t] = "same"
  /\ sequence' = sequence + 1
  /\ IF sequence < MaxSequence
     THEN Return(t, cur[t], sequence)
     ELSE GoTo(t, "exhausted") /\ UNCHANGED returned
  /\ UNCHANGED <<clock, last_timestamp, last, cur>>

(* Mutant: store instead of compare_exchange *)
StoreTimestamp(t) ==
  /\ at[t] = "cas"
  /\ last_timestamp' = cur[t]
  /\ GoTo(t, "reset")
  /\ UNCHANGED <<clock, sequence, last, cur, returned>>

CompareExchange(t) ==
  /\ at[t] = "cas"
  /\ IF last_timestamp = last[t]
     THEN last_timestamp' = cur[t] /\ GoTo(t, "reset")
     ELSE GoTo(t, "load") /\ UNCHANGED last_timestamp
  /\ UNCHANGED <<clock, sequence, last, cur, returned>>

ResetSequence(t) ==
  /\ at[t] = "reset"
  /\ sequence' = 0
  /\ GoTo(t, "claim")
  /\ UNCHANGED <<clock, last_timestamp, last, cur, returned>>

(* The winner takes whatever number is next, without checking the limit *)
ClaimFirst(t) ==
  /\ at[t] = "claim"
  /\ sequence' = sequence + 1
  /\ Return(t, cur[t], sequence)
  /\ UNCHANGED <<clock, last_timestamp, last, cur>>

(* SystemTime::now() goes anywhere, backwards included *)
ClockMoves ==
  /\ moves < MaxMoves
  /\ now' \in (1..MaxTime) \ {now}
  /\ moves' = moves + 1
  /\ UNCHANGED <<last_timestamp, sequence, at, last, cur, returned>>

generate(t) ==
  \/ Load(t) \/ ReadClock(t) \/ Spin(t) \/ SameMillisecond(t)
  \/ CompareExchange(t) \/ ResetSequence(t) \/ ClaimFirst(t)

GenNext == ClockMoves \/ \E t \in Threads : generate(t)

GenSpec == GenInit /\ [][GenNext]_genVars

-----------------------------------------------------------------------------
(* Whatever the clock does and whoever wins the race for a millisecond,    *)
(* the timestamps of the ids one thread receives never go back.            *)
OwnTimeNeverDecreases == [][\A t \in Threads : own'[t] >= own[t]]_genVars

(* Calls that never overlapped, whichever threads made them, received      *)
(* strictly increasing ids, through clock corrections, new milliseconds    *)
(* and exhausted ones.                                                     *)
IdsIncrease ==
  [][~overlapped => \A i \in issued, j \in issued' \ issued : j > i]_genVars

(* ... and never the same id twice; all of them carry this worker's id, as *)
(* the sequence stays inside its bits.                                     *)
SerialIdsAreGood ==
  ~overlapped =>
    /\ ~twice
    /\ \A i \in issued : (i \div 2^SeqBits) % 2^WorkerBits = WorkerId

=============================================================================
