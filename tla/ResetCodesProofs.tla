-------------------------- MODULE ResetCodesProofs --------------------------
(* Proofs about ResetCodes, for any number of requests and any limits.     *)
EXTENDS ResetCodes, FiniteSetTheorems, TLAPS

(* What a control point says of a request: on which side of its effect it  *)
(* is, and that a guess is only counted once some code was stored.         *)
Control(p) ==
  /\ pc[p] \in {"store", "mail"} => p \in Asking
  /\ pc[p] \in {"claim", "commit"} => p \notin Asking /\ stored # {}
  /\ pc[p] \in {"start", "store"} => p \notin stored
  /\ pc[p] = "mail" => p \in stored
  /\ pc[p] \in {"start", "claim", "commit"} => p \notin used

(* The clocks that were read are in the past. *)
Past ==
  /\ \A p \in Requests : at[p] <= now
  /\ sent # Null => sent <= now

ControlInv ==
  /\ TypeOK /\ Past
  /\ hash # None => hash \in stored
  /\ \A p \in Requests : Control(p)

(* The codes of the running series fit the time up to the last one; every  *)
(* earlier series fitted the time up to now.                               *)
SeriesFits ==
  Cardinality(stored) <=
    (1 + now \div Cooldown) * Cardinality(used)
      + (IF sent = Null THEN 0 ELSE 1 + sent \div Cooldown)

ResetInv == ControlInv /\ ResetsNeedCodes /\ GuessesAreBounded /\ SeriesFits

-----------------------------------------------------------------------------
(* Arithmetic *)

LEMMA DivMonotone ==
  ASSUME NEW a \in Nat, NEW b \in Nat, NEW c \in Nat \ {0}, a <= b
  PROVE  a \div c \in Nat /\ b \div c \in Nat /\ a \div c <= b \div c
OBVIOUS

LEMMA DivSeparated ==
  ASSUME NEW a \in Nat, NEW b \in Nat, NEW c \in Nat \ {0}, a + c <= b
  PROVE  1 + a \div c <= b \div c
OBVIOUS

LEMMA TimesMonotone ==
  ASSUME NEW a \in Nat, NEW b \in Nat, NEW c \in Nat, a <= b
  PROVE  a * c \in Nat /\ b * c \in Nat /\ a * c <= b * c
OBVIOUS

LEMMA TimesSuccessor ==
  ASSUME NEW a \in Nat, NEW c \in Nat
  PROVE  a * (c + 1) = a * c + a /\ a * c \in Nat
OBVIOUS

(* The histories are finite, and a request that joins one of them counts. *)
LEMMA Histories ==
  ASSUME TypeOK
  PROVE  /\ Cardinality(stored) \in Nat /\ Cardinality(used) \in Nat
         /\ stored # {} => Cardinality(stored) >= 1
         /\ \A p : p \notin stored =>
              Cardinality(stored \cup {p}) = Cardinality(stored) + 1
         /\ \A p : p \notin used =>
              Cardinality(used \cup {p}) = Cardinality(used) + 1
<1>1. IsFiniteSet(stored) /\ IsFiniteSet(used)
  <2>1. stored \in SUBSET Requests /\ used \in SUBSET Requests
    BY ResetAssumption DEF TypeOK
  <2> QED BY <2>1, ResetAssumption, FS_Subset
<1>2. Cardinality(stored) \in Nat /\ Cardinality(used) \in Nat
  BY <1>1, FS_CardinalityType
<1>3. stored # {} => Cardinality(stored) >= 1
  BY <1>1, <1>2, FS_EmptySet
<1> QED BY <1>1, <1>2, <1>3, FS_AddElement

-----------------------------------------------------------------------------
LEMMA ControlInvInit == Init => ControlInv
BY ResetAssumption
   DEF Init, ControlInv, TypeOK, Past, Control, Times, Null

LEMMA ControlInvNext == ControlInv /\ [Next]_vars => ControlInv'
<1> SUFFICES ASSUME ControlInv, [Next]_vars PROVE ControlInv'
  OBVIOUS
<1> USE ResetAssumption DEF ControlInv, TypeOK, Past, Times, Null
<1>1. ASSUME NEW p \in Requests, RequestRead(p) PROVE ControlInv'
  BY <1>1 DEF RequestRead, Goto, row, hist, Control
<1>2. ASSUME NEW p \in Requests, RequestStore(p) PROVE ControlInv'
  BY <1>2 DEF RequestStore, Goto, row, hist, Control
<1>3. ASSUME NEW p \in Requests, RequestMail(p) PROVE ControlInv'
  BY <1>3 DEF RequestMail, Goto, row, hist, Control
<1>4. ASSUME NEW p \in Requests, ResetRead(p) PROVE ControlInv'
  BY <1>4 DEF ResetRead, Goto, row, hist, Control
<1>5. ASSUME NEW p \in Requests, increment_failed_attempts(p) PROVE ControlInv'
  BY <1>5 DEF increment_failed_attempts, Goto, row, hist, Control
<1>6. ASSUME NEW p \in Requests, ResetCommit(p) PROVE ControlInv'
  BY <1>6 DEF ResetCommit, Goto, row, hist, Control
<1>7. ASSUME NEW p \in Requests, DbError(p) PROVE ControlInv'
  BY <1>7 DEF DbError, Leave, Goto, row, hist, Control
<1>8. CASE Tick
  BY <1>8 DEF Tick, row, hist, Control
<1>9. CASE UNCHANGED vars
  BY <1>9 DEF vars, row, hist, Control
<1> QED
  BY <1>1, <1>2, <1>3, <1>4, <1>5, <1>6, <1>7, <1>8, <1>9
     DEF Next, request_reset, reset_password

-----------------------------------------------------------------------------
(* A stored code adds one to the codes, and starts the count of guesses    *)
(* and the cooldown anew.                                                  *)
LEMMA StoreKeepsCounts ==
  ASSUME ResetInv, ControlInv', NEW p \in Requests, RequestStore(p)
  PROVE  ResetsNeedCodes' /\ GuessesAreBounded' /\ SeriesFits'
<1> USE ResetAssumption DEF ResetInv, ControlInv
<1>1. CASE ~(sent = Null \/ sent + Cooldown <= at[p])
  BY <1>1 DEF RequestStore, row, hist, ResetsNeedCodes, GuessesAreBounded, SeriesFits
<1>2. CASE sent = Null \/ sent + Cooldown <= at[p]
  <2> DEFINE S == Cardinality(stored)
             U == Cardinality(used)
             M == MaxAttempts
             D == now \div Cooldown
  <2>1. /\ hash' = p /\ sent' = at[p] /\ attempts' = 0 /\ stored' = stored \cup {p}
        /\ UNCHANGED <<now, used, tries>> /\ p \notin stored /\ p # None
    BY <1>2 DEF RequestStore, Control
  <2>2. Cardinality(stored') = S + 1 /\ Cardinality(used') = U /\ S \in Nat /\ U \in Nat
    BY <2>1, Histories
  <2>3. ResetsNeedCodes'
    BY <2>1, <2>2 DEF ResetsNeedCodes
  <2>4. GuessesAreBounded'
    <3>1. M * (S + U + 1) = M * (S + U) + M /\ M * (S + U) \in Nat
      BY <2>2, TimesSuccessor
    <3>2. attempts \in Nat /\ attempts <= M /\ tries \in Nat
      BY DEF TypeOK
    <3>3. tries # 0 => tries + M <= M * (S + U) + attempts
      BY DEF GuessesAreBounded
    <3>4. tries # 0 => tries + M <= M * (S + U + 1) + 0
      BY <3>1, <3>2, <3>3
    <3>5. S + U + 1 = (S + 1) + U
      BY <2>2
    <3> QED BY <2>1, <2>2, <3>4, <3>5 DEF GuessesAreBounded
  <2>5. SeriesFits'
    <3>1. /\ now \in Nat /\ at[p] \in Nat /\ at[p] <= now /\ at[p] # Null
          /\ sent # Null => sent \in Nat
      BY DEF TypeOK, Past, Times, Null
    <3>2. at[p] \div Cooldown \in Nat /\ D \in Nat
      BY <3>1, DivMonotone
    <3>3. sent # Null => /\ sent \div Cooldown \in Nat
                         /\ 1 + sent \div Cooldown <= at[p] \div Cooldown
      BY <1>2, <3>1, DivSeparated, DivMonotone
    <3>4. (1 + D) * U \in Nat
      BY <2>2, <3>2, TimesSuccessor
    <3>5. S <= (1 + D) * U + (IF sent = Null THEN 0 ELSE 1 + sent \div Cooldown)
      BY DEF SeriesFits
    <3>6. S + 1 <= (1 + D) * U + (1 + at[p] \div Cooldown)
      BY <2>2, <3>2, <3>3, <3>4, <3>5
    <3> QED BY <2>1, <2>2, <3>1, <3>6 DEF SeriesFits, Null
  <2> QED BY <2>3, <2>4, <2>5
<1> QED BY <1>1, <1>2

(* A reset takes the code away and clears the limits. *)
LEMMA ResetKeepsCounts ==
  ASSUME ResetInv, ControlInv', NEW p \in Requests, ResetCommit(p)
  PROVE  ResetsNeedCodes' /\ GuessesAreBounded' /\ SeriesFits'
<1> USE ResetAssumption DEF ResetInv, ControlInv
<1>1. CASE hash = None
  BY <1>1 DEF ResetCommit, row, hist, ResetsNeedCodes, GuessesAreBounded, SeriesFits
<1>2. CASE hash # None
  <2> DEFINE S == Cardinality(stored)
             U == Cardinality(used)
             M == MaxAttempts
             D == now \div Cooldown
  <2>1. /\ hash' = None /\ sent' = Null /\ attempts' = 0 /\ used' = used \cup {p}
        /\ UNCHANGED <<now, stored, tries>> /\ p \notin used
    BY <1>2 DEF ResetCommit, Control, Null
  <2>2. Cardinality(used') = U + 1 /\ Cardinality(stored') = S /\ S \in Nat /\ U \in Nat
    BY <2>1, Histories
  <2>3. ResetsNeedCodes'
    BY <1>2, <2>1, <2>2 DEF ResetsNeedCodes
  <2>4. GuessesAreBounded'
    <3>1. M * (S + U + 1) = M * (S + U) + M /\ M * (S + U) \in Nat
      BY <2>2, TimesSuccessor
    <3>2. attempts \in Nat /\ attempts <= M /\ tries \in Nat
      BY DEF TypeOK
    <3>3. tries # 0 => tries + M <= M * (S + U) + attempts
      BY DEF GuessesAreBounded
    <3>4. tries # 0 => tries + M <= M * (S + U + 1) + 0
      BY <3>1, <3>2, <3>3
    <3>5. S + U + 1 = S + (U + 1)
      BY <2>2
    <3> QED BY <2>1, <2>2, <3>4, <3>5 DEF GuessesAreBounded
  <2>5. SeriesFits'
    <3>1. now \in Nat /\ (sent # Null => sent \in Nat /\ sent <= now)
      BY DEF TypeOK, Past, Times, Null
    <3>2. D \in Nat
      BY <3>1, DivMonotone
    <3>3. sent # Null => sent \div Cooldown \in Nat /\ sent \div Cooldown <= D
      BY <3>1, DivMonotone
    <3>4. (1 + D) * (U + 1) = (1 + D) * U + (1 + D) /\ (1 + D) * U \in Nat
      BY <2>2, <3>2, TimesSuccessor
    <3>5. S <= (1 + D) * U + (IF sent = Null THEN 0 ELSE 1 + sent \div Cooldown)
      BY DEF SeriesFits
    <3>6. S <= (1 + D) * (U + 1)
      BY <2>2, <3>2, <3>3, <3>4, <3>5
    <3> QED BY <2>1, <2>2, <3>2, <3>4, <3>6 DEF SeriesFits
  <2> QED BY <2>3, <2>4, <2>5
<1> QED BY <1>1, <1>2

LEMMA ResetInvNext == ResetInv /\ [Next]_vars => ResetInv'
<1> SUFFICES ASSUME ResetInv, [Next]_vars PROVE ResetInv'
  OBVIOUS
<1>0. ControlInv'
  BY ControlInvNext DEF ResetInv
<1> SUFFICES ResetsNeedCodes' /\ GuessesAreBounded' /\ SeriesFits'
  BY <1>0 DEF ResetInv
<1> DEFINE Counts == <<hash, sent, attempts, stored, used, tries, now>>
<1>1. ASSUME UNCHANGED Counts
      PROVE  ResetsNeedCodes' /\ GuessesAreBounded' /\ SeriesFits'
  BY <1>1 DEF ResetInv, ResetsNeedCodes, GuessesAreBounded, SeriesFits
<1>2. ASSUME NEW p \in Requests, RequestRead(p) \/ RequestMail(p) \/ ResetRead(p) \/ DbError(p)
      PROVE  UNCHANGED Counts
  BY <1>2 DEF RequestRead, RequestMail, ResetRead, DbError, Leave, row, hist
<1>3. ASSUME NEW p \in Requests, increment_failed_attempts(p)
      PROVE  ResetsNeedCodes' /\ GuessesAreBounded' /\ SeriesFits'
  <2>1. CASE attempts >= MaxAttempts
    <3>1. UNCHANGED Counts
      BY <1>3, <2>1, ResetAssumption DEF increment_failed_attempts, ResetInv, ControlInv, TypeOK
    <3> QED BY <1>1, <3>1
  <2>2. CASE attempts < MaxAttempts
    <3>1. /\ attempts' = attempts + 1 /\ tries' = tries + 1 /\ stored # {}
          /\ UNCHANGED <<hash, sent, stored, used, now>>
      BY <1>3, <2>2 DEF increment_failed_attempts, ResetInv, ControlInv, Control
    <3> DEFINE N == Cardinality(stored) + Cardinality(used)
    <3>2. N \in Nat /\ N - 1 \in Nat
      BY <3>1, Histories DEF ResetInv, ControlInv
    <3>3. MaxAttempts * N = MaxAttempts * (N - 1) + MaxAttempts /\ MaxAttempts * (N - 1) \in Nat
      <4>1. (N - 1) + 1 = N
        BY <3>2
      <4>2. MaxAttempts \in Nat
        BY ResetAssumption
      <4> QED BY <3>2, <4>1, <4>2, TimesSuccessor
    <3>4. attempts \in Nat /\ tries \in Nat /\ MaxAttempts \in Nat
      BY ResetAssumption DEF ResetInv, ControlInv, TypeOK
    <3>5. tries # 0 => tries + MaxAttempts <= MaxAttempts * N + attempts
      BY DEF ResetInv, GuessesAreBounded
    <3>6. tries + 1 + MaxAttempts <= MaxAttempts * N + (attempts + 1)
      BY <3>3, <3>4, <3>5
    <3>7. GuessesAreBounded'
      BY <3>1, <3>6 DEF GuessesAreBounded
    <3> QED BY <3>1, <3>7 DEF ResetInv, ResetsNeedCodes, SeriesFits
  <2> QED BY <2>1, <2>2, ResetAssumption DEF ResetInv, ControlInv, TypeOK
<1>4. CASE Tick
  <2>1. now' = now + 1 /\ UNCHANGED <<hash, sent, attempts, stored, used, tries>>
    BY <1>4 DEF Tick, row, hist
  <2>2. now \in Nat /\ (sent # Null => sent \in Nat)
    BY ResetAssumption DEF ResetInv, ControlInv, TypeOK, Times, Null
  <2>3. /\ now \div Cooldown \in Nat /\ now' \div Cooldown \in Nat
        /\ now \div Cooldown <= now' \div Cooldown
    BY <2>1, <2>2, ResetAssumption, DivMonotone
  <2> DEFINE D == 1 + now \div Cooldown
             E == 1 + now' \div Cooldown
             U == Cardinality(used)
  <2>4. D * U \in Nat /\ E * U \in Nat /\ D * U <= E * U
    <3>1. U \in Nat /\ D \in Nat /\ E \in Nat /\ D <= E
      BY <2>3, Histories DEF ResetInv, ControlInv
    <3> QED BY <3>1, TimesMonotone
  <2> DEFINE L == IF sent = Null THEN 0 ELSE 1 + sent \div Cooldown
  <2>5. Cardinality(stored) \in Nat /\ L \in Nat
    BY <2>2, ResetAssumption, Histories, DivMonotone DEF ResetInv, ControlInv
  <2>6. Cardinality(stored) <= D * U + L
    BY DEF ResetInv, SeriesFits
  <2>7. Cardinality(stored) <= E * U + L
    <3> HIDE DEF D, E, U, L
    <3> QED BY <2>4, <2>5, <2>6
  <2>8. SeriesFits'
    BY <2>1, <2>7 DEF SeriesFits, Null
  <2> QED BY <2>1, <2>8 DEF ResetInv, ResetsNeedCodes, GuessesAreBounded
<1>5. ASSUME UNCHANGED vars PROVE UNCHANGED Counts
  BY <1>5 DEF vars, row, hist
<1> QED
  BY <1>0, <1>1, <1>2, <1>3, <1>4, <1>5, StoreKeepsCounts, ResetKeepsCounts
     DEF Next, request_reset, reset_password

LEMMA ResetInvInit == Init => ResetInv
<1> SUFFICES ASSUME Init PROVE ResetInv
  OBVIOUS
<1>1. Cardinality(stored) = 0 /\ Cardinality(used) = 0 /\ tries = 0 /\ hash = None /\ sent = Null /\ now = 0
  BY FS_EmptySet DEF Init
<1>2. 0 \div Cooldown \in Nat
  BY ResetAssumption, DivMonotone
<1>3. SeriesFits
  BY <1>1, <1>2 DEF SeriesFits
<1> QED BY <1>1, <1>3, ControlInvInit
        DEF ResetInv, ResetsNeedCodes, GuessesAreBounded

-----------------------------------------------------------------------------
(* reset_password never succeeds more often than codes were stored,        *)
(* however many requests verified the same code before one of them ran its *)
(* claim.                                                                  *)
THEOREM NoResetWithoutCode == Spec => []ResetsNeedCodes
<1>1. ResetInv => ResetsNeedCodes
  BY DEF ResetInv
<1> QED BY <1>1, ResetInvInit, ResetInvNext, PTL DEF Spec

(* increment_failed_attempts lets MAX_FAILED_ATTEMPTS guesses through per  *)
(* code stored and reset made, whatever requests run side by side.         *)
THEOREM GuessingIsLimited == Spec => []GuessesAreBounded
<1>1. ResetInv => GuessesAreBounded
  BY DEF ResetInv
<1> QED BY <1>1, ResetInvInit, ResetInvNext, PTL DEF Spec

(* request_reset stores no more codes than the cooldown lets through, for  *)
(* every cooldown and any number of requests that read the clock before    *)
(* another one stored its code.                                            *)
THEOREM CodesAreSpaced == Spec => []CooldownLimitsCodes
<1>1. ResetInv => CooldownLimitsCodes
  <2> SUFFICES ASSUME ResetInv PROVE CooldownLimitsCodes
    OBVIOUS
  <2> DEFINE D == now \div Cooldown
             S == Cardinality(stored)
             U == Cardinality(used)
  <2>1. now \in Nat /\ (sent # Null => sent \in Nat /\ sent <= now)
    BY ResetAssumption DEF ResetInv, ControlInv, TypeOK, Past, Times, Null
  <2>2. D \in Nat /\ (sent # Null => sent \div Cooldown \in Nat /\ sent \div Cooldown <= D)
    BY <2>1, ResetAssumption, DivMonotone
  <2>3. S \in Nat /\ U \in Nat
    BY Histories DEF ResetInv, ControlInv
  <2>4. (1 + D) * (U + 1) = (1 + D) * U + (1 + D) /\ (1 + D) * U \in Nat
    BY <2>2, <2>3, TimesSuccessor
  <2>5. S <= (1 + D) * U + (IF sent = Null THEN 0 ELSE 1 + sent \div Cooldown)
    BY DEF ResetInv, SeriesFits
  <2>6. S <= (1 + D) * (U + 1)
    BY <2>2, <2>3, <2>4, <2>5
  <2>7. U + 1 = 1 + U
    BY <2>3
  <2> QED BY <2>6, <2>7 DEF CooldownLimitsCodes
<1> QED BY <1>1, ResetInvInit, ResetInvNext, PTL DEF Spec
=============================================================================
