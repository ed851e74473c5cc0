------------------------- MODULE UserDirectoryProofs ------------------------
(* Proofs about UserDirectory, for any accounts, requests and balances.    *)
EXTENDS UserDirectory, FiniteSetTheorems, TLAPS

Balance == {"set", "adjust"}

(* The control points of each kind of request *)
Points ==
  [k \in Kinds |->
     CASE k = "get" -> {"start", "exists", "db", "fill", "done"}
       [] k = "list" -> {"start", "db", "fill", "done"}
       [] k = "create" -> {"start", "counts", "verify", "done"}
       [] k \in {"rename", "role"} -> {"start", "write", "inv", "done"}
       [] k = "delete" -> {"start", "write", "inv", "counts", "done"}
       [] k = "verify" -> {"start", "done"}
       [] k \in Balance -> {"start", "write", "inv", "done"}]

(* Between FOR UPDATE and COMMIT the row is what the request read, and the *)
(* checks it made still hold.                                              *)
Holds(p) ==
  /\ lock[Target(p)] = p /\ row[Target(p)] # None /\ row[Target(p)] = seen[p]
  /\ check_balance_rbac(seen[p], ask[p].actor)
  /\ NewBalance(ask[p], seen[p]) \in 0..MaxBalance

(* Nothing is known about an account before it is created. *)
Unborn(p) == ask[p].kind = "create" /\ pc[p] = "start"

Untouched(p) ==
  LET u == Target(p) IN
  /\ row[u] = None /\ lock[u] = None /\ entry[u] = None /\ u \notin null
  /\ \A q \in Requests :
       q # p /\ Target(q) = u /\ ask[q].kind # "list" => pc[q] = "start"

Control(p) ==
  /\ pc[p] \in Points[ask[p].kind]
  /\ ask[p].kind \in Balance =>
       /\ pc[p] \in {"start", "write"} => out[p] = None
       /\ pc[p] = "inv" => out[p] # None
       /\ pc[p] = "write" => Holds(p)
  /\ pc[p] = "fill" /\ ask[p].kind = "get" /\ seen[p] = None => row[Target(p)] = None
  /\ pc[p] = "fill" /\ ask[p].kind = "list" => seen[p] # None
  /\ Unborn(p) => Untouched(p)

OneCreator ==
  \A p, q \in Requests :
    ask[p].kind = "create" /\ ask[q].kind = "create" /\ Target(p) = Target(q) => p = q

DirectoryInv == TypeOK /\ OneCreator /\ \A p \in Requests : Control(p)

-----------------------------------------------------------------------------
LEMMA VisibleCount ==
  \A r \in Actors : Cardinality(Visible(r)) \in Nat /\ Cardinality(VisibleThere(r)) \in Nat
<1>1. \A r : Visible(r) \in SUBSET Users /\ VisibleThere(r) \in SUBSET Users
  BY DEF Visible, VisibleThere
<1> QED BY <1>1, DirectoryAssumption, FS_Subset, FS_CardinalityType

(* The rows that the statements write *)
LEMMA RowsWritten ==
  /\ \A r \in Actors : NewRow(r) \in Row
  /\ \A r \in Row : [r EXCEPT !.verified = TRUE] \in Row
  /\ \A r \in Row, a \in Actors : [r EXCEPT !.role = a] \in Row
  /\ \A r \in Row : [r EXCEPT !.name = 1 - @] \in Row
  /\ \A r \in Row, b \in 0..MaxBalance : [r EXCEPT !.balance = b] \in Row
<1> USE DirectoryAssumption DEF NewRow, Row
<1>1. \A r \in Actors : NewRow(r) \in Row
  OBVIOUS
<1>2. \A r \in Row : [r EXCEPT !.verified = TRUE] \in Row
  OBVIOUS
<1>3. \A r \in Row, a \in Actors : [r EXCEPT !.role = a] \in Row
  OBVIOUS
<1>4. \A r \in Row : [r EXCEPT !.name = 1 - @] \in Row
  OBVIOUS
<1>5. \A r \in Row, b \in 0..MaxBalance : [r EXCEPT !.balance = b] \in Row
  OBVIOUS
<1> QED BY <1>1, <1>2, <1>3, <1>4, <1>5

LEMMA DirectoryInvInit == Init => DirectoryInv
<1> SUFFICES ASSUME Init PROVE DirectoryInv
  OBVIOUS
<1>1. TypeOK
  <2>1. ask \in [Requests -> Ask]
    BY DirectoryAssumption DEF Init
  <2>2. row \in [Users -> Row \cup {None}]
    BY RowsWritten DEF Init
  <2>3. replica \in [Users -> Actors \cup {None}]
    BY <2>2 DEF Init, Table, Row
  <2> QED BY <2>1, <2>2, <2>3 DEF Init, TypeOK
<1>2. OneCreator
  BY DEF Init, OneCreator, Target
<1>3. \A p \in Requests : Control(p)
  <2> SUFFICES ASSUME NEW p \in Requests PROVE Control(p)
    OBVIOUS
  <2>1. ask[p].kind \in Kinds /\ Target(p) \in Users
    BY <1>1 DEF TypeOK, Ask, Target
  <2>2. "start" \in Points[ask[p].kind]
    BY <2>1 DEF Points, Kinds, Balance
  <2>3. Unborn(p) => Untouched(p)
    BY <2>1 DEF Init, Unborn, Untouched, Target
  <2> QED BY <2>2, <2>3 DEF Init, Control
<1> QED BY <1>1, <1>2, <1>3 DEF DirectoryInv

(* The type of every variable under the steps that one request takes. *)
LEMMA TypeStep ==
  ASSUME DirectoryInv, NEW p \in Requests, Step(p)
  PROVE  TypeOK'
<1> USE DirectoryAssumption DEF TypeOK
<1>0. /\ TypeOK /\ Control(p) /\ Target(p) \in Users /\ ask[p].kind \in Kinds
      /\ ask[p].role \in Roles /\ ask[p].actor \in Actors /\ ask[p].user = Target(p)
  BY DEF DirectoryInv, Ask, Target
<1>a. ASSUME NEW a \in Answers, Answer(p, a)
      PROVE  /\ out' \in [Requests -> Answers \cup {None}]
             /\ pc' \in [Requests -> {"start", "exists", "db", "fill", "write",
                                      "inv", "counts", "verify", "done"}]
  BY <1>0, <1>a DEF Answer, Goto
<1>b. /\ \A x \in {"ok", "error", "refused", "absent"} : Just(x) \in Answers
      /\ \A r \in Row : Scoped(p, r) \in Answers
      /\ \A n \in Nat : With("count", n) \in Answers
      /\ \A n \in 0..MaxBalance : With("balance", n) \in Answers
  BY DEF Just, With, Scoped, Answers
<1>c. ASSUME NEW S, Overtake(S), S \subseteq Requests PROVE old' \subseteq Requests
  BY <1>0, <1>c DEF Overtake
<1>d. Counts \subseteq Requests /\ \A u : Profiles(u) \subseteq Requests
  BY DEF Counts, Profiles
<1>1. CASE GetCache(p)
  BY <1>0, <1>1, <1>a, <1>b DEF GetCache, Goto, db, cache
<1>2. CASE GetMarker(p)
  BY <1>0, <1>2, <1>a, <1>b DEF GetMarker, Goto, db, cache
<1>3. CASE GetRow(p)
  BY <1>0, <1>3 DEF GetRow, Goto, db, cache
<1>4. CASE GetFill(p)
  BY <1>0, <1>4, <1>a, <1>b DEF GetFill, db
<1>5. CASE ListCache(p)
  BY <1>0, <1>5, <1>a, <1>b DEF ListCache, Goto, db, cache
<1>6. CASE ListCount(p)
  BY <1>0, <1>6, VisibleCount DEF ListCount, Goto, db, cache
<1>7. CASE ListFill(p)
  BY <1>0, <1>7, <1>a, <1>b DEF ListFill, Control, db
<1>8. CASE Create(p)
  <2>1. (IF ask[p].actor = "system" THEN ask[p].role ELSE "user") \in Actors
    BY <1>0 DEF Actors, Roles
  <2>2. row' \in [Users -> Row \cup {None}]
    BY <1>0, <1>8, <2>1, RowsWritten DEF Create
  <2>3. old' \subseteq Requests
    BY <1>0, <1>8, <1>c, <1>d DEF Create
  <2>4. /\ out' \in [Requests -> Answers \cup {None}]
        /\ pc' \in [Requests -> {"start", "exists", "db", "fill", "write",
                                 "inv", "counts", "verify", "done"}]
    BY <1>0, <1>8, <1>a, <1>b DEF Create, Goto
  <2>5. UNCHANGED <<lock, replica, entry, null, count, late, ask, seen>>
    BY <1>8 DEF Create
  <2> QED BY <1>0, <2>2, <2>3, <2>4, <2>5
<1>9. CASE ReadAndCheck(p)
  BY <1>0, <1>9, <1>a, <1>b DEF ReadAndCheck, Goto, db, cache
<1>10. CASE UpdateUser(p)
  <2>1. old' \subseteq Requests
    BY <1>0, <1>10, <1>c, <1>d DEF UpdateUser
  <2> QED BY <1>0, <1>10, <1>a, <1>b, <2>1, RowsWritten DEF UpdateUser, Goto, Actors
<1>11. CASE DeleteUser(p)
  <2>1. old' \subseteq Requests
    BY <1>0, <1>11, <1>c, <1>d DEF DeleteUser
  <2> QED BY <1>0, <1>11, <1>a, <1>b, <2>1 DEF DeleteUser, Goto
<1>12. CASE Verify(p)
  BY <1>0, <1>12, <1>a, <1>b, <1>c, <1>d, RowsWritten DEF Verify, cache
<1>13. CASE BalanceLock(p)
  BY <1>0, <1>13, <1>a, <1>b DEF BalanceLock, Goto, cache
<1>14. CASE BalanceCommit(p)
  <2>1. old' \subseteq Requests
    BY <1>0, <1>14, <1>c, <1>d DEF BalanceCommit
  <2> QED
    BY <1>0, <1>14, <1>a, <1>b, <2>1, RowsWritten DEF BalanceCommit, Goto, Control, Holds, Balance
<1>15. CASE BalanceRollback(p)
  BY <1>0, <1>15, <1>a, <1>b DEF BalanceRollback, cache
<1>16. CASE Invalidate(p)
  BY <1>0, <1>16, <1>a, <1>b DEF Invalidate, Done, Goto, db
<1>17. CASE InvalidateCounts(p)
  BY <1>0, <1>17, <1>a, <1>b DEF InvalidateCounts, Done, Goto, db
<1> QED
  BY <1>1, <1>2, <1>3, <1>4, <1>5, <1>6, <1>7, <1>8, <1>9, <1>10, <1>11, <1>12,
     <1>13, <1>14, <1>15, <1>16, <1>17
     DEF Step, GetUser, ListUsers, CreateUser, UpdateOrDelete, ChangeBalance

-----------------------------------------------------------------------------
(* What a step of request p leaves alone: the other requests and accounts, *)
(* a row that somebody else has locked, and an account that is not created *)
(* yet; a row only appears when it is created.                             *)
Frame(p) ==
  LET t == Target(p) IN
  /\ ask' = ask
  /\ \A q \in Requests \ {p} : pc'[q] = pc[q] /\ out'[q] = out[q] /\ seen'[q] = seen[q]
  /\ \A u \in Users \ {t} :
       /\ row'[u] = row[u] /\ lock'[u] = lock[u] /\ entry'[u] = entry[u] /\ (u \in null' <=> u \in null)
       /\ (u \in late' <=> u \in late)
  /\ lock[t] \in {None, p} \/ (row'[t] = row[t] /\ lock'[t] = lock[t])
  /\ row[t] = None /\ row'[t] # None => Unborn(p)
  /\ ask[p].kind = "list" => UNCHANGED <<row, lock, entry, null>>
  /\ pc[p] = "start" /\ ask[p].kind # "list" => Unborn(p) \/ Known(t)

LEMMA StepFrame ==
  ASSUME DirectoryInv, NEW p \in Requests, Step(p)
  PROVE  Frame(p)
<1>0. /\ TypeOK /\ Control(p) /\ Target(p) \in Users /\ ask[p].kind \in Kinds
      /\ ask[p].user = Target(p)
  BY DEF DirectoryInv, TypeOK, Ask, Target
<1> USE <1>0, DirectoryAssumption DEF TypeOK, Frame, Answer, Goto, db, cache
<1>p. /\ ask[p].kind = "list" => pc[p] \in {"start", "db", "fill", "done"}
      /\ ask[p].kind \in Balance /\ pc[p] = "write" => Holds(p)
  BY DEF Control, Points, Kinds, Balance
<1>1. CASE GetCache(p)
  BY <1>1 DEF GetCache
<1>2. CASE GetMarker(p)
  BY <1>2, <1>p DEF GetMarker
<1>3. CASE GetRow(p)
  BY <1>3 DEF GetRow
<1>4. CASE GetFill(p)
  BY <1>4 DEF GetFill
<1>5. CASE ListCache(p)
  BY <1>5 DEF ListCache
<1>6. CASE ListCount(p)
  BY <1>6 DEF ListCount
<1>7. CASE ListFill(p)
  <2>1. ask[p].actor \notin Users
    BY DEF Ask
  <2> QED BY <1>7, <2>1 DEF ListFill
<1>8. CASE Create(p)
  <2>1. Unborn(p) /\ Untouched(p)
    BY <1>8 DEF Create, Unborn, Control
  <2> QED BY <1>8, <2>1 DEF Create, Untouched
<1>9. CASE ReadAndCheck(p)
  BY <1>9 DEF ReadAndCheck
<1>10. CASE UpdateUser(p)
  BY <1>10 DEF UpdateUser
<1>11. CASE DeleteUser(p)
  BY <1>11 DEF DeleteUser
<1>12. CASE Verify(p)
  BY <1>12 DEF Verify
<1>13. CASE BalanceLock(p)
  BY <1>13 DEF BalanceLock
<1>14. CASE BalanceCommit(p)
  BY <1>14, <1>p DEF BalanceCommit, Holds, Balance
<1>15. CASE BalanceRollback(p)
  BY <1>15, <1>p DEF BalanceRollback, Holds, Balance
<1>16. CASE Invalidate(p)
  BY <1>16, <1>p DEF Invalidate, Done
<1>17. CASE InvalidateCounts(p)
  BY <1>17, <1>p DEF InvalidateCounts, Done
<1> QED
  BY <1>1, <1>2, <1>3, <1>4, <1>5, <1>6, <1>7, <1>8, <1>9, <1>10, <1>11, <1>12,
     <1>13, <1>14, <1>15, <1>16, <1>17
     DEF Step, GetUser, ListUsers, CreateUser, UpdateOrDelete, ChangeBalance

(* The other requests keep what their control points say. *)
LEMMA ControlOfOthers ==
  ASSUME DirectoryInv, NEW p \in Requests, Step(p), NEW q \in Requests, q # p
  PROVE  Control(q)'
<1>1. Frame(p) /\ Control(q) /\ Control(p) /\ Target(p) \in Users /\ Target(q) \in Users
  BY StepFrame DEF DirectoryInv, TypeOK, Ask, Target
<1>2. pc'[q] = pc[q] /\ out'[q] = out[q] /\ seen'[q] = seen[q] /\ ask' = ask
  BY <1>1 DEF Frame
<1>3. ASSUME Holds(q) PROVE Holds(q)'
  <2>1. row'[Target(q)] = row[Target(q)] /\ lock'[Target(q)] = lock[Target(q)]
    <3>1. CASE Target(q) = Target(p)
      <4>1. lock[Target(p)] \notin {None, p}
        BY <1>3, <3>1, DirectoryAssumption DEF Holds
      <4> QED BY <1>1, <3>1, <4>1 DEF Frame
    <3>2. CASE Target(q) # Target(p)
      BY <1>1, <3>2 DEF Frame
    <3> QED BY <3>1, <3>2
  <2> QED BY <1>2, <1>3, <2>1 DEF Holds, Target, check_balance_rbac, InScope, NewBalance
<1>4. ASSUME Unborn(q) PROVE Untouched(q)'
  <2>1. Untouched(q)
    BY <1>1, <1>4 DEF Control
  <2>2. CASE Target(q) # Target(p)
    BY <1>1, <1>2, <2>1, <2>2 DEF Frame, Untouched, Target
  <2>3. CASE Target(q) = Target(p)
    <3>1. ~Known(Target(p))
      BY <1>4, <2>3 DEF Known, Unborn, Target
    <3>2. ~Unborn(p)
      BY <1>4, <2>3 DEF DirectoryInv, OneCreator, Unborn
    <3>3. ask[p].kind = "list"
      BY <1>1, <2>1, <2>3, <3>1, <3>2 DEF Frame, Untouched
    <3>4. UNCHANGED <<row, lock, entry, null>>
      BY <1>1, <3>3 DEF Frame
    <3> QED BY <1>1, <1>2, <2>1, <2>3, <3>3, <3>4 DEF Frame, Untouched, Target
  <2> QED BY <2>2, <2>3
<1>5. ASSUME pc[q] = "fill", ask[q].kind = "get", row[Target(q)] = None
      PROVE  row'[Target(q)] = None
  <2>1. CASE Target(q) = Target(p)
    <3>1. ~Unborn(p)
      BY <1>1, <1>5, <2>1 DEF Control, Untouched
    <3> QED BY <1>1, <1>5, <2>1, <3>1 DEF Frame
  <2>2. CASE Target(q) # Target(p)
    BY <1>1, <1>5, <2>2 DEF Frame
  <2> QED BY <2>1, <2>2
<1>6. Unborn(q)' <=> Unborn(q)
  BY <1>2 DEF Unborn
<1> QED BY <1>1, <1>2, <1>3, <1>4, <1>5, <1>6 DEF Control, Target

(* So does the request that takes the step. *)
LEMMA ControlOfOwn ==
  ASSUME DirectoryInv, NEW p \in Requests, Step(p)
  PROVE  Control(p)'
<1>0. /\ TypeOK /\ Control(p) /\ Target(p) \in Users /\ ask[p].kind \in Kinds
      /\ ask[p].user = Target(p) /\ ask' = ask /\ Target(p)' = Target(p)
  BY StepFrame DEF DirectoryInv, TypeOK, Ask, Target, Frame
<1>p. /\ pc[p] \in Points[ask[p].kind]
      /\ ask[p].kind = "get" => Points[ask[p].kind] = {"start", "exists", "db", "fill", "done"}
      /\ ask[p].kind = "list" => Points[ask[p].kind] = {"start", "db", "fill", "done"}
      /\ ask[p].kind = "create" => Points[ask[p].kind] = {"start", "counts", "verify", "done"}
      /\ ask[p].kind \in {"rename", "role"} => Points[ask[p].kind] = {"start", "write", "inv", "done"}
      /\ ask[p].kind = "delete" => Points[ask[p].kind] = {"start", "write", "inv", "counts", "done"}
      /\ ask[p].kind = "verify" => Points[ask[p].kind] = {"start", "done"}
      /\ ask[p].kind \in Balance => Points[ask[p].kind] = {"start", "write", "inv", "done"}
      /\ ask[p].kind \in {"get", "list", "create", "rename", "role", "delete", "verify"} \cup Balance
  BY <1>0 DEF Control, Points, Kinds, Balance
<1>b. ask[p].kind \in Balance <=> ask[p].kind \in {"set", "adjust"}
  BY DEF Balance
<1>d. ASSUME pc'[p] = "done" PROVE Control(p)'
  BY <1>0, <1>p, <1>d DEF Control, Unborn
<1>e. ASSUME NEW a, Answer(p, a) PROVE pc'[p] = "done"
  BY <1>0, <1>e DEF Answer, Goto, TypeOK
<1>f. ASSUME NEW l, Goto(p, l) PROVE pc'[p] = l
  BY <1>0, <1>f DEF Goto, TypeOK
<1>1. CASE GetCache(p)
  <2>1. pc'[p] \in {"exists", "done"} /\ ask[p].kind = "get"
    BY <1>1, <1>e, <1>f DEF GetCache
  <2> QED BY <1>0, <1>d, <1>p, <1>b, <2>1 DEF Control, Unborn
<1>2. CASE GetMarker(p)
  <2>1. pc'[p] \in {"db", "done"} /\ ask[p].kind = "get"
    BY <1>2, <1>p, <1>e, <1>f DEF GetMarker
  <2> QED BY <1>0, <1>d, <1>p, <1>b, <2>1 DEF Control, Unborn
<1>3. CASE GetRow(p)
  <2>1. /\ pc'[p] = "fill" /\ ask[p].kind = "get" /\ seen'[p] = row[Target(p)]
        /\ row' = row
    BY <1>0, <1>3, <1>f DEF GetRow, db, TypeOK
  <2> QED BY <1>0, <1>p, <1>b, <2>1 DEF Control, Unborn
<1>4. CASE GetFill(p)
  BY <1>4, <1>d, <1>e DEF GetFill
<1>5. CASE ListCache(p)
  <2>1. pc'[p] \in {"db", "done"} /\ ask[p].kind = "list"
    BY <1>5, <1>e, <1>f DEF ListCache
  <2> QED BY <1>0, <1>d, <1>p, <1>b, <2>1 DEF Control, Unborn
<1>6. CASE ListCount(p)
  <2>1. pc'[p] = "fill" /\ ask[p].kind = "list" /\ seen'[p] \in Nat
    BY <1>0, <1>6, <1>f, VisibleCount DEF ListCount, TypeOK, Ask
  <2> QED BY <1>0, <1>p, <1>b, <2>1, DirectoryAssumption DEF Control, Unborn
<1>7. CASE ListFill(p)
  BY <1>7, <1>d, <1>e DEF ListFill
<1>8. CASE Create(p)
  <2>1. pc'[p] \in {"counts", "done"} /\ ask[p].kind = "create"
    BY <1>8, <1>e, <1>f DEF Create
  <2> QED BY <1>0, <1>d, <1>p, <1>b, <2>1 DEF Control, Unborn
<1>9. CASE ReadAndCheck(p)
  <2>1. pc'[p] \in {"write", "done"} /\ ask[p].kind \in {"rename", "role", "delete"}
    BY <1>9, <1>e, <1>f DEF ReadAndCheck
  <2> QED BY <1>0, <1>d, <1>p, <1>b, <2>1 DEF Control, Unborn
<1>10. CASE UpdateUser(p)
  <2>1. pc'[p] \in {"inv", "done"} /\ ask[p].kind \in {"rename", "role"}
    BY <1>10, <1>e, <1>f DEF UpdateUser
  <2> QED BY <1>0, <1>d, <1>p, <1>b, <2>1 DEF Control, Unborn
<1>11. CASE DeleteUser(p)
  <2>1. pc'[p] \in {"inv", "done"} /\ ask[p].kind = "delete"
    BY <1>11, <1>e, <1>f DEF DeleteUser
  <2> QED BY <1>0, <1>d, <1>p, <1>b, <2>1 DEF Control, Unborn
<1>12. CASE Verify(p)
  BY <1>12, <1>d, <1>e DEF Verify
<1>13. CASE BalanceLock(p)
  <2>1. CASE pc'[p] = "done"
    BY <1>d, <2>1
  <2>2. CASE pc'[p] # "done"
    <3>1. /\ row[Target(p)] # None /\ check_balance_rbac(row[Target(p)], ask[p].actor)
          /\ NewBalance(ask[p], row[Target(p)]) \in 0..MaxBalance
          /\ lock' = [lock EXCEPT ![Target(p)] = p]
          /\ seen' = [seen EXCEPT ![p] = row[Target(p)]]
          /\ Goto(p, "write") /\ out' = out /\ row' = row
          /\ pc[p] = "start" /\ ask[p].kind \in Balance
      BY <1>0, <1>13, <1>b, <1>e, <2>2 DEF BalanceLock
    <3>2. pc'[p] = "write" /\ out'[p] = None
      BY <1>0, <1>f, <3>1 DEF Control
    <3>3. Holds(p)'
      BY <1>0, <3>1 DEF Holds, TypeOK, check_balance_rbac, InScope, NewBalance
    <3> QED BY <1>0, <1>p, <3>1, <3>2, <3>3 DEF Control, Unborn
  <2> QED BY <2>1, <2>2
<1>14. CASE BalanceCommit(p)
  <2>1. CASE pc'[p] = "done"
    BY <1>d, <2>1
  <2>2. CASE pc'[p] # "done"
    <3>1. /\ out' = [out EXCEPT ![p] = With("balance", NewBalance(ask[p], seen[p]))]
          /\ pc'[p] = "inv" /\ pc[p] = "write" /\ ask[p].kind \in Balance
      BY <1>0, <1>14, <1>b, <1>e, <1>f, <2>2 DEF BalanceCommit
    <3>2. NewBalance(ask[p], seen[p]) \in 0..MaxBalance
      BY <1>0, <3>1 DEF Control, Holds
    <3>3. out'[p] # None
      BY <1>0, <3>1, <3>2, DirectoryAssumption DEF TypeOK, With, Answers
    <3> QED BY <1>0, <1>p, <1>b, <3>1, <3>3 DEF Control, Unborn, Balance
  <2> QED BY <2>1, <2>2
<1>15. CASE BalanceRollback(p)
  BY <1>15, <1>d, <1>e DEF BalanceRollback
<1>16. CASE Invalidate(p)
  <2>1. pc'[p] = "done" \/ (pc'[p] = "counts" /\ ask[p].kind = "delete")
    BY <1>16, <1>e, <1>f DEF Invalidate, Done
  <2> QED BY <1>0, <1>d, <1>p, <1>b, <2>1 DEF Control, Unborn
<1>17. CASE InvalidateCounts(p)
  <2>1. pc'[p] = "done" \/ (pc'[p] = "verify" /\ ask[p].kind = "create")
    BY <1>17, <1>e, <1>f DEF InvalidateCounts, Done
  <2> QED BY <1>0, <1>d, <1>p, <1>b, <2>1 DEF Control, Unborn
<1> QED
  BY <1>1, <1>2, <1>3, <1>4, <1>5, <1>6, <1>7, <1>8, <1>9, <1>10, <1>11, <1>12,
     <1>13, <1>14, <1>15, <1>16, <1>17
     DEF Step, GetUser, ListUsers, CreateUser, UpdateOrDelete, ChangeBalance

LEMMA DirectoryInvNext == DirectoryInv /\ [Next]_vars => DirectoryInv'
<1> SUFFICES ASSUME DirectoryInv, [Next]_vars PROVE DirectoryInv'
  OBVIOUS
<1>1. ASSUME NEW p \in Requests, Step(p) PROVE DirectoryInv'
  <2>1. TypeOK'
    BY <1>1, TypeStep
  <2>2. OneCreator'
    BY <1>1, StepFrame DEF DirectoryInv, Frame, OneCreator, Target
  <2>3. \A q \in Requests : Control(q)'
    BY <1>1, ControlOfOwn, ControlOfOthers
  <2> QED BY <2>1, <2>2, <2>3 DEF DirectoryInv
<1>2. ASSUME NEW u \in Users, EntryExpires(u) \/ MarkerExpires(u) PROVE DirectoryInv'
  <2>1. /\ UNCHANGED <<row, lock, count, ask, pc, seen, out>>
        /\ null' \subseteq null /\ \A v \in Users : entry'[v] \in {entry[v], None}
    BY <1>2 DEF EntryExpires, MarkerExpires, db, DirectoryInv, TypeOK
  <2>2. TypeOK'
    BY <1>2 DEF EntryExpires, MarkerExpires, db, DirectoryInv, TypeOK
  <2>3. \A q \in Requests : Target(q) \in Users
    BY DEF DirectoryInv, TypeOK, Ask, Target
  <2> QED BY <2>1, <2>2, <2>3
          DEF DirectoryInv, OneCreator, Control, Unborn, Untouched, Holds, Target,
              check_balance_rbac, InScope, NewBalance
<1>3. ASSUME NEW r \in Actors, CountExpires(r) PROVE DirectoryInv'
  <2>1. UNCHANGED <<row, lock, entry, null, ask, pc, seen, out>>
    BY <1>3 DEF CountExpires, db
  <2>2. TypeOK'
    BY <1>3 DEF CountExpires, db, DirectoryInv, TypeOK
  <2> QED BY <2>1, <2>2
          DEF DirectoryInv, OneCreator, Control, Unborn, Untouched, Holds, Target,
              check_balance_rbac, InScope, NewBalance
<1>r. CASE Replicate
  <2>1. UNCHANGED <<row, lock, entry, null, ask, pc, seen, out>>
    BY <1>r DEF Replicate, cache
  <2>2. TypeOK'
    <3>1. replica' \in [Users -> Actors \cup {None}]
      BY <1>r DEF Replicate, Table, DirectoryInv, TypeOK, Row
    <3> QED BY <1>r, <3>1 DEF Replicate, cache, DirectoryInv, TypeOK
  <2> QED BY <2>1, <2>2
          DEF DirectoryInv, OneCreator, Control, Unborn, Untouched, Holds, Target,
              check_balance_rbac, InScope, NewBalance
<1>4. CASE UNCHANGED vars
  BY <1>4 DEF vars, db, cache, DirectoryInv, TypeOK, OneCreator, Control, Unborn,
              Untouched, Holds, Target, check_balance_rbac, InScope, NewBalance
<1> QED BY <1>1, <1>2, <1>3, <1>r, <1>4 DEF Next

-----------------------------------------------------------------------------
(* The refinement of Ledger                                                *)

(* A step of a request that is no balance change, or that ends neither in  *)
(* an answer nor in a write, does not show.                                *)
LEMMA Unseen ==
  ASSUME DirectoryInv, row' = row, out' = out, ask' = ask
  PROVE  UNCHANGED Abstract!vars
BY DEF Abstract!vars, Account, Change, Reply

LEMMA ReplyOf ==
  ASSUME DirectoryInv, NEW p \in Requests, Step(p)
  PROVE  /\ Change' = Change
         /\ ask[p].kind \notin Balance => Reply' = Reply
         /\ ask[p].kind \in Balance => \A a :
              out' = [out EXCEPT ![p] = a] => Reply' = [Reply EXCEPT ![p] = a]
<1>1. Frame(p) /\ DOMAIN out = Requests
  BY StepFrame DEF DirectoryInv, TypeOK
<1>2. Change' = Change
  BY <1>1 DEF Frame, Change
<1>3. ASSUME ask[p].kind \notin Balance PROVE Reply' = Reply
  BY <1>1, <1>3 DEF Frame, Reply, Balance
<1>4. ASSUME ask[p].kind \in Balance, NEW a, out' = [out EXCEPT ![p] = a]
      PROVE  Reply' = [Reply EXCEPT ![p] = a]
  BY <1>1, <1>4 DEF Frame, Reply, Balance
<1> QED BY <1>2, <1>3, <1>4

(* A row that changes in another column, or not at all, keeps its account. *)
LEMMA AccountOf ==
  ASSUME DirectoryInv, NEW p \in Requests, Step(p), row'[Target(p)] = row[Target(p)]
  PROVE  Account' = Account
BY StepFrame DEF Frame, Account, DirectoryInv, TypeOK, Target, Ask

LEMMA Changing ==
  ASSUME DirectoryInv, NEW p \in Requests, ask[p].kind \in Balance
  PROVE  /\ Change[p] = ask[p] /\ Change[p] # None /\ Reply[p] = out[p]
         /\ Abstract!Granted(Change[p]) <=>
              /\ row[Target(p)] # None
              /\ check_balance_rbac(row[Target(p)], ask[p].actor)
              /\ NewBalance(ask[p], row[Target(p)]) \in 0..MaxBalance
         /\ row[Target(p)] # None =>
              Abstract!Result(Change[p]) = NewBalance(ask[p], row[Target(p)])
<1> DEFINE t == Target(p)
<1>1. /\ Change[p] = ask[p] /\ Reply[p] = out[p] /\ ask[p] \in Ask /\ t \in Users
      /\ ask[p].actor \in Actors /\ ask[p].user = t /\ row[t] \in Row \cup {None}
  BY DEF DirectoryInv, TypeOK, Ask, Change, Reply, Balance, Target
<1>2. Change[p] # None
  BY <1>1, DirectoryAssumption
<1>3. ASSUME row[t] # None
      PROVE  /\ Account[t] = [role |-> row[t].role, balance |-> row[t].balance]
             /\ row[t].role \in Actors /\ Account[t] # None
  BY <1>1, <1>3, DirectoryAssumption DEF Account, Row
<1>4. ASSUME row[t] # None
      PROVE  Abstract!Result(Change[p]) = NewBalance(ask[p], row[t])
  BY <1>1, <1>3, <1>4 DEF Abstract!Result, NewBalance
<1>5. row[t] # None => (Abstract!MayChange(Change[p]) <=> check_balance_rbac(row[t], ask[p].actor))
  BY <1>1, <1>3 DEF Abstract!MayChange, check_balance_rbac, InScope, Actors, Roles
<1>6. row[t] = None => ~Abstract!MayChange(Change[p])
  BY <1>1 DEF Abstract!MayChange, Account
<1> QED BY <1>1, <1>2, <1>4, <1>5, <1>6 DEF Abstract!Granted

(* The rest of the service only administers accounts. *)
LEMMA AdministersAccount ==
  ASSUME DirectoryInv, NEW p \in Requests, Step(p), ask[p].kind \notin Balance,
         \/ row'[Target(p)] = row[Target(p)]
         \/ row'[Target(p)] = None
         \/ row[Target(p)] = None /\ \E r \in Actors : row'[Target(p)] = NewRow(r)
         \/ /\ row[Target(p)] # None /\ row'[Target(p)] # None
            /\ row'[Target(p)].role \in Actors
            /\ row'[Target(p)].balance = row[Target(p)].balance
  PROVE  [Abstract!Next]_(Abstract!vars)
<1> DEFINE t == Target(p)
<1>1. /\ Change' = Change /\ Reply' = Reply /\ t \in Users /\ Frame(p)
      /\ \A u \in Users \ {t} : row'[u] = row[u]
  BY ReplyOf, StepFrame DEF Frame, DirectoryInv, TypeOK, Ask, Target
<1>2. CASE row'[t] = row[t]
  BY <1>1, <1>2, AccountOf DEF Abstract!vars
<1>3. ASSUME Account' = [Account EXCEPT ![t] = Account'[t]],
             Account'[t] \in {None} \cup IF Account[t] = None THEN Abstract!NewAccount
                ELSE [role : Abstract!Roles, balance : {Account[t].balance}]
      PROVE  Abstract!Next
  BY <1>1, <1>3 DEF Abstract!Next, Abstract!Administer
<1>4. Account' = [Account EXCEPT ![t] = Account'[t]]
  BY <1>1 DEF Account
<1>5. CASE row'[t] = None
  BY <1>1, <1>3, <1>4, <1>5 DEF Account
<1>6. ASSUME row[t] = None, NEW r \in Actors, row'[t] = NewRow(r) PROVE Abstract!Next
  <2>1. NewRow(r) # None
    BY RowsWritten, DirectoryAssumption
  <2>2. Account[t] = None /\ Account'[t] = [role |-> r, balance |-> 0]
    BY <1>1, <1>6, <2>1 DEF Account, NewRow
  <2> QED BY <1>3, <1>4, <2>2 DEF Abstract!NewAccount, Abstract!Roles, Actors, Roles
<1>7. ASSUME row[t] # None, row'[t] # None, row'[t].role \in Actors,
             row'[t].balance = row[t].balance
      PROVE  Abstract!Next
  <2>1. /\ Account[t] = [role |-> row[t].role, balance |-> row[t].balance]
        /\ Account'[t] = [role |-> row'[t].role, balance |-> row[t].balance]
    BY <1>1, <1>7 DEF Account
  <2>2. Account[t] # None
    BY <1>1, <1>7, <2>1, DirectoryAssumption DEF DirectoryInv, TypeOK, Row
  <2>3. Account'[t] \in [role : Abstract!Roles, balance : {Account[t].balance}]
    BY <1>7, <2>1 DEF Abstract!Roles, Actors, Roles
  <2> QED BY <1>3, <1>4, <2>2, <2>3
<1> QED BY <1>2, <1>5, <1>6, <1>7

(* A balance change shows at its refusal, its commit and its rollback. *)
LEMMA BalanceSteps ==
  ASSUME DirectoryInv, NEW p \in Requests, Step(p), ask[p].kind \in Balance
  PROVE  [Abstract!Next]_(Abstract!vars)
<1> DEFINE t == Target(p)
<1>0. /\ Change' = Change /\ t \in Users /\ ask[p].user = t /\ Control(p) /\ Frame(p)
      /\ pc[p] \in {"start", "write", "inv", "done"} /\ ask[p].kind \in {"set", "adjust"}
      /\ \A u \in Users \ {t} : row'[u] = row[u]
  BY ReplyOf, StepFrame DEF DirectoryInv, TypeOK, Ask, Target, Control, Points, Balance, Kinds, Frame
<1>1. /\ Change[p] = ask[p] /\ Change[p] # None /\ Reply[p] = out[p]
      /\ pc[p] \in {"start", "write"} => Reply[p] = None
  BY <1>0, Changing DEF Control
<1>a. ASSUME NEW a, Answer(p, a), Reply[p] = None PROVE Abstract!Answer(p, a)
  BY <1>a, ReplyOf DEF Abstract!Answer, Answer
<1>2. CASE BalanceLock(p)
  <2>1. row' = row /\ ask' = ask
    BY <1>2 DEF BalanceLock
  <2>2. CASE out' = out
    BY <2>1, <2>2, Unseen
  <2>3. CASE out' # out
    <3>1. Answer(p, Just("refused")) /\ pc[p] = "start" /\ ~Abstract!Granted(Change[p])
      BY <1>0, <1>2, <2>3, Changing DEF BalanceLock
    <3>2. Abstract!Answer(p, [is |-> "refused"])
      BY <1>1, <1>a, <3>1 DEF Just
    <3>3. Account' = Account
      BY <2>1 DEF Account
    <3>4. Abstract!Refuse(p)
      BY <3>1, <3>2, <3>3 DEF Abstract!Refuse
    <3> QED BY <1>0, <1>1, <3>4 DEF Abstract!Next
  <2> QED BY <2>2, <2>3
<1>3. CASE BalanceCommit(p)
  <2> DEFINE b == NewBalance(ask[p], seen[p])
  <2>1. pc[p] = "write" /\ Holds(p) /\ Reply[p] = None
    BY <1>0, <1>1, <1>3 DEF BalanceCommit, Control
  <2>2. Abstract!Granted(Change[p]) /\ Abstract!Result(Change[p]) = b
    BY <2>1, Changing DEF Holds
  <2>3. Account' = [Account EXCEPT ![t].balance = b]
    <3>1. row' = [row EXCEPT ![t].balance = b]
      BY <1>0, <1>3 DEF BalanceCommit
    <3>2. row[t] \in Row /\ b \in 0..MaxBalance
      BY <1>0, <2>1 DEF DirectoryInv, TypeOK, Holds
    <3>3. /\ row'[t] = [row[t] EXCEPT !.balance = b]
          /\ row'[t].role = row[t].role /\ row'[t].balance = b
      BY <1>0, <3>1, <3>2 DEF DirectoryInv, TypeOK, Row
    <3>4. row'[t] # None /\ row[t] # None
      BY <3>2, <3>3, RowsWritten, DirectoryAssumption
    <3>5. /\ Account[t] = [role |-> row[t].role, balance |-> row[t].balance]
          /\ Account'[t] = [role |-> row[t].role, balance |-> b]
      BY <1>0, <3>3, <3>4 DEF Account
    <3>6. Account'[t] = [Account[t] EXCEPT !.balance = b]
      BY <3>5
    <3> QED BY <1>0, <3>6 DEF Account
  <2>4. Abstract!Answer(p, [is |-> "balance", value |-> b]) \/ Abstract!Answer(p, [is |-> "error"])
    <3>1. CASE Answer(p, Just("error"))
      BY <1>a, <2>1, <3>1 DEF Just
    <3>2. CASE out' = [out EXCEPT ![p] = With("balance", b)]
      BY <2>1, <3>2, ReplyOf DEF Abstract!Answer, With
    <3> QED BY <1>3, <3>1, <3>2 DEF BalanceCommit
  <2>5. Abstract!Apply(p)
    BY <1>0, <1>1, <2>2, <2>3, <2>4 DEF Abstract!Apply, Abstract!Error
  <2> QED BY <1>0, <1>1, <2>5 DEF Abstract!Next
<1>4. CASE BalanceRollback(p)
  <2>1. Answer(p, Just("error")) /\ Reply[p] = None /\ row' = row
    BY <1>1, <1>4 DEF BalanceRollback
  <2>2. Abstract!Fail(p)
    BY <1>a, <2>1 DEF Abstract!Fail, Abstract!Error, Just, Account
  <2> QED BY <1>0, <1>1, <2>2 DEF Abstract!Next
<1>5. CASE Invalidate(p)
  <2>1. pc[p] = "inv" /\ out[p] # None /\ row' = row /\ ask' = ask
    BY <1>0, <1>5 DEF Invalidate, Control, db
  <2>2. out' = out
    BY <1>0, <1>5, <2>1 DEF Invalidate, Done
  <2> QED BY <2>1, <2>2, Unseen
<1>6. \/ BalanceLock(p) \/ BalanceCommit(p) \/ BalanceRollback(p) \/ Invalidate(p)
  BY <1>0 DEF Step, GetUser, ListUsers, CreateUser, UpdateOrDelete, ChangeBalance,
       GetCache, GetMarker, GetRow, GetFill, ListCache, ListCount, ListFill, Create,
       InvalidateCounts, Verify, ReadAndCheck, UpdateUser, DeleteUser
<1> QED BY <1>2, <1>3, <1>4, <1>5, <1>6

LEMMA LedgerStep == DirectoryInv /\ [Next]_vars => [Abstract!Next]_(Abstract!vars)
<1> SUFFICES ASSUME DirectoryInv, [Next]_vars PROVE [Abstract!Next]_(Abstract!vars)
  OBVIOUS
<1>1. ASSUME NEW p \in Requests, Step(p), ask[p].kind \notin Balance
      PROVE  [Abstract!Next]_(Abstract!vars)
  <2> DEFINE t == Target(p)
  <2>0. /\ t \in Users /\ ask[p].user = t /\ row \in [Users -> Row \cup {None}]
        /\ ask[p].role \in Roles /\ Control(p) /\ Frame(p) /\ TypeOK'
        /\ ask[p].kind \notin {"set", "adjust"}
    BY <1>1, StepFrame, TypeStep DEF DirectoryInv, TypeOK, Ask, Target, Balance
  <2>1. CASE row'[t] = row[t]
    BY <1>1, <2>1, AdministersAccount
  <2>2. CASE Create(p)
    <3>1. row[t] = None
      BY <2>0, <2>2 DEF Create, Control, Unborn, Untouched
    <3>2. row'[t] = row[t] \/ \E r \in Actors : row'[t] = NewRow(r)
      BY <2>0, <2>2 DEF Create, Actors, Roles
    <3> QED BY <1>1, <3>1, <3>2, AdministersAccount
  <2>3. CASE UpdateUser(p) \/ Verify(p)
    <3>1. CASE row' = row
      BY <2>1, <3>1
    <3>2. CASE row' # row
      <4>1. row[t] # None /\ row[t] \in Row
        BY <2>0, <2>3, <3>2 DEF UpdateUser, Verify
      <4>2. \/ row'[t] = [row[t] EXCEPT !.verified = TRUE]
            \/ row'[t] = [row[t] EXCEPT !.name = 1 - @]
            \/ row'[t] = [row[t] EXCEPT !.role = ask[p].role]
        BY <2>0, <2>3, <3>2, <4>1 DEF UpdateUser, Verify
      <4>3. row'[t].balance = row[t].balance /\ row'[t].role \in Actors
        BY <2>0, <4>1, <4>2 DEF Row, Actors
      <4>4. row'[t] # None
        BY <2>0, <4>1, <4>2, RowsWritten, DirectoryAssumption DEF Actors
      <4> QED BY <1>1, <4>1, <4>3, <4>4, AdministersAccount
    <3> QED BY <3>1, <3>2
  <2>4. CASE DeleteUser(p)
    <3>1. row'[t] = row[t] \/ row'[t] = None
      BY <2>0, <2>4 DEF DeleteUser
    <3> QED BY <1>1, <3>1, AdministersAccount
  <2>5. Create(p) \/ UpdateUser(p) \/ Verify(p) \/ DeleteUser(p) \/ row' = row
    BY <1>1, <2>0 DEF Step, GetUser, ListUsers, CreateUser, UpdateOrDelete, ChangeBalance,
         GetCache, GetMarker, GetRow, GetFill, ListCache, ListCount, ListFill,
         InvalidateCounts, ReadAndCheck, Invalidate, BalanceLock, BalanceCommit,
         BalanceRollback, db
  <2> QED BY <2>1, <2>2, <2>3, <2>4, <2>5
<1>2. ASSUME NEW u \in Users, EntryExpires(u) \/ MarkerExpires(u)
      PROVE  UNCHANGED Abstract!vars
  BY <1>2, Unseen DEF EntryExpires, MarkerExpires, db
<1>3. ASSUME NEW r \in Actors, CountExpires(r) PROVE UNCHANGED Abstract!vars
  BY <1>3, Unseen DEF CountExpires, db
<1>r. CASE Replicate
  BY <1>r, Unseen DEF Replicate
<1>4. CASE UNCHANGED vars
  BY <1>4, Unseen DEF vars, db
<1> QED BY <1>1, <1>2, <1>3, <1>r, <1>4, BalanceSteps DEF Next

LEMMA LedgerStart == Init => Abstract!Init
<1> SUFFICES ASSUME Init PROVE Abstract!Init
  OBVIOUS
<1>1. Reply = [p \in Requests |-> None]
  BY DEF Init, Reply
<1>2. ASSUME NEW u \in Users PROVE Account[u] \in Abstract!NewAccount \cup {None}
  <2>1. CASE row[u] = None
    BY <2>1 DEF Account
  <2>2. ASSUME NEW r \in Actors, row[u] = NewRow(r) PROVE Account[u] \in Abstract!NewAccount
    <3>1. row[u] # None
      BY <2>2, RowsWritten, DirectoryAssumption
    <3> QED BY <2>2, <3>1 DEF Account, NewRow, Abstract!NewAccount, Abstract!Roles, Actors, Roles
  <2> QED BY <2>1, <2>2 DEF Init
<1>3. Account \in [Users -> Abstract!NewAccount \cup {None}]
  BY <1>2 DEF Account
<1> QED BY <1>1, <1>3 DEF Abstract!Init

-----------------------------------------------------------------------------
(* set_balance and adjust_balance implement the ledger: read, checks and   *)
(* write are separate statements, other handlers write the same row, and   *)
(* still each change takes effect at one instant on what holds then.       *)
THEOREM BalancesFormALedger == Spec => LedgerSpec
<1>1. Init => Abstract!Init
  BY LedgerStart
<1>2. DirectoryInv /\ [Next]_vars => [Abstract!Next]_(Abstract!vars)
  BY LedgerStep
<1> QED BY <1>1, <1>2, DirectoryInvInit, DirectoryInvNext, PTL DEF Spec, LedgerSpec, Abstract!Spec

-----------------------------------------------------------------------------
(* The caches                                                              *)

(* A marker is never wrong, not even after a fill that came late: ids are  *)
(* not used again.                                                         *)
MarkersFit == \A u \in null : row[u] = None

(* A reading that is not old is what the table says. *)
Current(q) ==
  pc[q] = "fill" /\ q \notin old =>
    /\ ask[q].kind = "get" => seen[q] = row[Target(q)]
    /\ ask[q].kind = "list" => seen[q] = Cardinality(Visible(ask[q].actor))

CacheInv ==
  /\ DirectoryInv /\ \A q \in Requests : Current(q)
  /\ MarkersFit /\ ProfileCacheFollowsRow /\ CountCacheFollowsTable

(* A step that creates or deletes no account and changes no role shows in  *)
(* no count.                                                               *)
LEMMA VisibleStays ==
  ASSUME DirectoryInv, NEW p \in Requests, NEW r \in Actors,
         (UpdateUser(p) /\ ask[p].kind # "role") \/ Verify(p) \/ BalanceCommit(p)
  PROVE  Visible(r)' = Visible(r)
<1> DEFINE t == Target(p)
<1>0. /\ Control(p) /\ t \in Users /\ TypeOK /\ ask[p].user = t
      /\ \A u \in Users \ {t} : row'[u] = row[u]
  <2>1. Step(p)
    BY DEF Step, UpdateOrDelete, CreateUser, ChangeBalance
  <2> QED BY <2>1, StepFrame DEF DirectoryInv, TypeOK, Ask, Target, Frame
<1>1. CASE row' = row
  BY <1>1 DEF Visible
<1>2. CASE row' # row
  <2>1. /\ row[t] # None /\ row[t] \in Row
        /\ \/ row'[t] = [row[t] EXCEPT !.verified = TRUE]
           \/ row'[t] = [row[t] EXCEPT !.name = 1 - @]
           \/ \E b \in 0..MaxBalance : row'[t] = [row[t] EXCEPT !.balance = b]
    <3>1. CASE Verify(p)
      BY <1>0, <1>2, <3>1 DEF Verify, TypeOK
    <3>2. CASE BalanceCommit(p)
      <4>0. Holds(p)
        BY <1>0, <3>2 DEF BalanceCommit, Control, Balance
      <4>1. /\ row[t] # None /\ row[t] \in Row /\ NewBalance(ask[p], seen[p]) \in 0..MaxBalance
        BY <1>0, <4>0 DEF Holds, TypeOK
      <4>2. row'[t] = [row[t] EXCEPT !.balance = NewBalance(ask[p], seen[p])]
        BY <1>0, <3>2, <4>1 DEF BalanceCommit, TypeOK
      <4> QED BY <4>1, <4>2
    <3>3. CASE UpdateUser(p) /\ ask[p].kind # "role"
      BY <1>0, <1>2, <3>3 DEF UpdateUser, TypeOK
    <3> QED BY <3>1, <3>2, <3>3
  <2>2. row'[t] # None
    BY <2>1, RowsWritten, DirectoryAssumption
  <2>3. row'[t].role = row[t].role
    BY <2>1 DEF Row
  <2> QED BY <1>0, <2>1, <2>2, <2>3 DEF Visible
<1> QED BY <1>1, <1>2

(* What a step of p does to the readings of the others *)
LEMMA ReadingsOvertaken ==
  ASSUME DirectoryInv, NEW p \in Requests, Step(p), NEW q \in Requests, q # p
  PROVE  /\ q \in old => q \in old'
         /\ \/ row' = row
            \/ pc[q] = "fill" /\ q \in Profiles(Target(p)) => q \in old'
         /\ \/ row' = row
            \/ pc[q] = "fill" /\ q \in Counts => q \in old'
            \/ \A r \in Actors : Visible(r)' = Visible(r)
<1>0. ask[p].user = Target(p)
  BY DEF Target
<1>1. CASE Create(p) \/ DeleteUser(p)
  BY <1>0, <1>1 DEF Create, DeleteUser, Overtake
<1>2. CASE UpdateUser(p)
  <2>1. CASE ask[p].kind = "role"
    BY <1>0, <1>2, <2>1 DEF UpdateUser, Overtake
  <2>2. CASE ask[p].kind # "role"
    BY <1>0, <1>2, <2>2, VisibleStays DEF UpdateUser, Overtake
  <2> QED BY <2>1, <2>2
<1>3. CASE Verify(p) \/ BalanceCommit(p)
  BY <1>0, <1>3, VisibleStays DEF Verify, BalanceCommit, Overtake
<1>4. CASE \/ GetCache(p) \/ GetMarker(p) \/ GetRow(p) \/ GetFill(p) \/ ListCache(p)
           \/ ListCount(p) \/ ListFill(p) \/ ReadAndCheck(p) \/ BalanceLock(p)
           \/ BalanceRollback(p) \/ Invalidate(p) \/ InvalidateCounts(p)
  BY <1>4 DEF GetCache, GetMarker, GetRow, GetFill, ListCache, ListCount, ListFill,
              ReadAndCheck, BalanceLock, BalanceRollback, Invalidate, InvalidateCounts,
              db, cache
<1> QED
  BY <1>1, <1>2, <1>3, <1>4
     DEF Step, GetUser, ListUsers, CreateUser, UpdateOrDelete, ChangeBalance

LEMMA CurrentStep ==
  ASSUME DirectoryInv, NEW p \in Requests, Step(p), NEW q \in Requests, Current(q)
  PROVE  Current(q)'
<1>0. /\ TypeOK /\ Frame(p) /\ ask' = ask /\ Target(q) \in Users /\ ask[q].actor \in Actors
      /\ Target(q)' = Target(q)
  BY StepFrame DEF DirectoryInv, TypeOK, Ask, Target, Frame
<1>1. CASE q # p
  <2>1. pc'[q] = pc[q] /\ seen'[q] = seen[q]
    BY <1>0, <1>1 DEF Frame
  <2> SUFFICES ASSUME pc[q] = "fill", q \notin old'
               PROVE  /\ ask[q].kind = "get" => seen[q] = row'[Target(q)]
                      /\ ask[q].kind = "list" => seen[q] = Cardinality(Visible(ask[q].actor)')
    BY <1>0, <2>1 DEF Current
  <2>2. q \notin old
    BY <1>1, ReadingsOvertaken
  <2>3. CASE row' = row
    <3>1. Visible(ask[q].actor)' = Visible(ask[q].actor)
      BY <1>0, <2>3 DEF Visible
    <3> QED BY <2>2, <2>3, <3>1 DEF Current
  <2>4. CASE row' # row
    <3>1. ASSUME ask[q].kind = "get" PROVE seen[q] = row'[Target(q)]
      <4>1. q \notin Profiles(Target(p))
        BY <1>1, <2>4, ReadingsOvertaken
      <4>2. Target(q) # Target(p)
        BY <3>1, <4>1 DEF Profiles, Target
      <4> QED BY <1>0, <2>2, <3>1, <4>2 DEF Current, Frame
    <3>2. ASSUME ask[q].kind = "list" PROVE seen[q] = Cardinality(Visible(ask[q].actor)')
      <4>1. q \in Counts
        BY <3>2 DEF Counts
      <4>2. Visible(ask[q].actor)' = Visible(ask[q].actor)
        <5>1. \A r \in Actors : Visible(r)' = Visible(r)
          BY <1>1, <2>4, <4>1, ReadingsOvertaken
        <5> QED BY <1>0, <5>1 DEF Visible
      <4> QED BY <2>2, <3>2, <4>2 DEF Current
    <3> QED BY <3>1, <3>2
  <2> QED BY <2>3, <2>4
<1>2. CASE q = p
  <2>1. CASE GetRow(p)
    <3>1. seen'[p] = row[Target(p)] /\ row' = row /\ ask[p].kind = "get"
      BY <1>0, <2>1 DEF GetRow, db, TypeOK
    <3> QED BY <1>0, <1>2, <3>1 DEF Current
  <2>2. CASE ListCount(p)
    <3>1. /\ row' = row /\ ask[p].kind = "list"
          /\ p \in old' \/ seen'[p] = Cardinality(Visible(ask[p].actor))
      BY <1>0, <2>2 DEF ListCount, db, TypeOK
    <3>2. Visible(ask[p].actor)' = Visible(ask[p].actor)
      BY <1>0, <3>1 DEF Visible
    <3> QED BY <1>0, <1>2, <3>1, <3>2 DEF Current
  <2>3. CASE ~GetRow(p) /\ ~ListCount(p)
    <3>1. pc'[p] # "fill"
      <4> USE <1>0 DEF TypeOK, Answer, Goto
      <4>1. CASE GetCache(p) \/ GetMarker(p) \/ GetFill(p)
        BY <4>1 DEF GetCache, GetMarker, GetFill
      <4>2. CASE ListCache(p) \/ ListFill(p)
        BY <4>2 DEF ListCache, ListFill
      <4>3. CASE Create(p) \/ Verify(p)
        BY <4>3 DEF Create, Verify
      <4>4. CASE ReadAndCheck(p) \/ UpdateUser(p) \/ DeleteUser(p)
        BY <4>4 DEF ReadAndCheck, UpdateUser, DeleteUser
      <4>5. CASE BalanceLock(p) \/ BalanceCommit(p) \/ BalanceRollback(p)
        BY <4>5 DEF BalanceLock, BalanceCommit, BalanceRollback
      <4>6. CASE Invalidate(p) \/ InvalidateCounts(p)
        BY <4>6 DEF Invalidate, InvalidateCounts, Done
      <4> QED
        BY <2>3, <4>1, <4>2, <4>3, <4>4, <4>5, <4>6
           DEF Step, GetUser, ListUsers, CreateUser, UpdateOrDelete, ChangeBalance
    <3> QED BY <1>2, <3>1 DEF Current
  <2> QED BY <2>1, <2>2, <2>3
<1> QED BY <1>1, <1>2

(* The part of ProfileCacheFollowsRow that is about the entry of u *)
EntryFits(u) ==
  u \notin late /\ ~Pending(u) /\ entry[u] # None =>
    row[u] # None /\ [entry[u] EXCEPT !.verified = row[u].verified] = row[u]

LEMMA ProfileParts ==
  MarkersFit => (ProfileCacheFollowsRow <=> \A u \in Users : EntryFits(u))
BY DEF MarkersFit, ProfileCacheFollowsRow, EntryFits

LEMMA MarkersStep ==
  ASSUME CacheInv, NEW p \in Requests, Step(p)
  PROVE  MarkersFit'
<1> DEFINE t == Target(p)
<1>0. Frame(p) /\ Control(p) /\ t \in Users /\ null' \subseteq Users
  BY StepFrame, TypeStep DEF CacheInv, DirectoryInv, TypeOK, Ask, Target
<1>1. ASSUME NEW u \in null', u # t PROVE row'[u] = None
  BY <1>0, <1>1 DEF Frame, CacheInv, MarkersFit
<1>2. ASSUME t \in null' PROVE row'[t] = None
  <2>1. t \in null \/ (GetFill(p) /\ seen[p] = None)
    BY <1>2 DEF Step, GetUser, ListUsers, CreateUser, UpdateOrDelete, ChangeBalance,
         GetCache, GetMarker, GetRow, GetFill, ListCache, ListCount, ListFill, Create,
         InvalidateCounts, Verify, ReadAndCheck, UpdateUser, DeleteUser, Invalidate,
         BalanceLock, BalanceCommit, BalanceRollback, cache
  <2>2. CASE t \in null
    <3>1. row[t] = None /\ ~Unborn(p)
      BY <1>0, <2>2 DEF CacheInv, MarkersFit, Control, Untouched
    <3> QED BY <1>0, <3>1 DEF Frame
  <2>3. CASE GetFill(p) /\ seen[p] = None
    BY <1>0, <2>3 DEF GetFill, Control, db
  <2> QED BY <2>1, <2>2, <2>3
<1> QED BY <1>1, <1>2 DEF MarkersFit

LEMMA EntriesStep ==
  ASSUME CacheInv, NEW p \in Requests, Step(p), NEW u \in Users
  PROVE  EntryFits(u)'
<1> DEFINE t == Target(p)
<1>0. /\ Frame(p) /\ Control(p) /\ t \in Users /\ ask' = ask /\ TypeOK /\ ask[p].user = t
      /\ \A v \in Users : EntryFits(v)
  BY StepFrame, ProfileParts DEF CacheInv, DirectoryInv, TypeOK, Ask, Target, Frame
<1>1. CASE u # t
  <2>1. Pending(u)' <=> Pending(u)
    BY <1>0, <1>1 DEF Pending, Frame, Target
  <2> QED BY <1>0, <1>1, <2>1 DEF Frame, EntryFits
<1>2. CASE u = t
  <2>1. Pending(u)' \/ (pc'[p] # "inv" /\ ~\E q \in Requests \ {p} : pc[q] = "inv" /\ Target(q) = u)
    BY <1>0, <1>2 DEF Pending, Frame, Target
  <2>2. ASSUME pc'[p] = "inv" PROVE EntryFits(u)'
    BY <1>0, <1>2, <2>2 DEF EntryFits, Pending, Target
  <2>3. ASSUME u \in late' \/ entry'[u] = None PROVE EntryFits(u)'
    BY <2>3 DEF EntryFits
  <2>4. ASSUME pc[p] # "inv", row'[u] = row[u], entry'[u] = entry[u], u \in late' <=> u \in late
        PROVE  EntryFits(u)'
    BY <1>0, <1>2, <2>1, <2>4 DEF EntryFits, Pending
  <2>5. CASE GetFill(p)
    <3>1. CASE u \in late'
      BY <2>3, <3>1
    <3>2. CASE u \notin late' /\ entry' = entry /\ late' = late
      BY <1>0, <1>2, <2>4, <2>5, <3>2 DEF GetFill, db
    <3>3. CASE u \notin late' /\ entry' = [entry EXCEPT ![u] = seen[p]] /\ seen[p] # None
               /\ p \notin old
      <4>0. seen[p] = row[u]
        BY <1>2, <2>5, <3>3 DEF GetFill, CacheInv, Current
      <4>1. entry'[u] = row[u] /\ row'[u] = row[u] /\ row[u] \in Row /\ row[u] # None
        BY <1>0, <1>2, <2>5, <3>3, <4>0 DEF GetFill, db, TypeOK
      <4>2. [row[u] EXCEPT !.verified = row[u].verified] = row[u]
        BY <4>1 DEF Row
      <4> QED BY <4>1, <4>2 DEF EntryFits
    <3> QED BY <1>0, <1>2, <2>5, <3>1, <3>2, <3>3 DEF GetFill
  <2>6. CASE Create(p)
    <3>1. entry'[u] = None
      BY <1>0, <1>2, <2>6 DEF Create, cache, Control, Unborn, Untouched
    <3> QED BY <2>3, <3>1
  <2>7. CASE UpdateUser(p)
    <3>1. pc'[p] = "inv" \/ u \in late' \/ (row' = row /\ late' = late)
      BY <1>0, <1>2, <2>7 DEF UpdateUser, Goto, TypeOK
    <3> QED BY <2>2, <2>3, <2>4, <2>7, <3>1 DEF UpdateUser
  <2>8. CASE DeleteUser(p)
    <3>1. pc'[p] = "inv" \/ (row' = row /\ late' = late)
      BY <1>0, <1>2, <2>8 DEF DeleteUser, Goto, TypeOK, cache
    <3> QED BY <2>2, <2>4, <2>8, <3>1 DEF DeleteUser, cache
  <2>9. CASE Verify(p)
    <3>1. CASE row' = row
      BY <2>4, <2>9, <3>1 DEF Verify, cache
    <3>2. CASE row' # row
      <4>1. /\ row[u] \in Row /\ row'[u] = [row[u] EXCEPT !.verified = TRUE]
            /\ entry' = entry /\ late' = late /\ pc[p] # "inv"
        BY <1>0, <1>2, <2>9, <3>2 DEF Verify, TypeOK, cache
      <4> SUFFICES ASSUME u \notin late', ~Pending(u)', entry'[u] # None
                   PROVE  row'[u] # None /\ [entry'[u] EXCEPT !.verified = row'[u].verified] = row'[u]
        BY DEF EntryFits
      <4>2. [entry[u] EXCEPT !.verified = row[u].verified] = row[u]
        BY <1>0, <1>2, <2>1, <4>1 DEF EntryFits, Pending
      <4>3. entry[u] \in Row /\ row'[u].verified = TRUE
        BY <1>0, <1>2, <4>1 DEF TypeOK, Row
      <4>4. [entry[u] EXCEPT !.verified = TRUE] = [row[u] EXCEPT !.verified = TRUE]
        BY <4>1, <4>2, <4>3 DEF Row
      <4>5. row'[u] # None
        BY <4>1, RowsWritten, DirectoryAssumption
      <4> QED BY <4>1, <4>3, <4>4, <4>5
    <3> QED BY <3>1, <3>2
  <2>10. CASE BalanceCommit(p)
    <3>1. pc'[p] = "inv" \/ u \in late'
      BY <1>0, <1>2, <2>10 DEF BalanceCommit, Goto, TypeOK
    <3> QED BY <2>2, <2>3, <3>1
  <2>11. CASE Invalidate(p)
    <3>1. entry'[u] = None \/ u \in late'
      BY <1>0, <1>2, <2>11 DEF Invalidate, TypeOK
    <3> QED BY <2>3, <3>1
  <2>12. CASE \/ GetCache(p) \/ GetMarker(p) \/ GetRow(p) \/ ListCache(p) \/ ListCount(p)
              \/ ReadAndCheck(p) \/ BalanceLock(p) \/ BalanceRollback(p)
    BY <2>4, <2>12 DEF GetCache, GetMarker, GetRow, ListCache, ListCount, ReadAndCheck,
                       BalanceLock, BalanceRollback, db, cache
  <2>13. CASE ListFill(p) \/ InvalidateCounts(p)
    <3>1. u \notin Actors /\ ask[p].actor \in Actors
      BY <1>0, <1>2, DirectoryAssumption DEF TypeOK, Ask
    <3>2. u \in late' <=> u \in late
      BY <2>13, <3>1 DEF ListFill, InvalidateCounts
    <3> QED BY <2>4, <2>13, <3>2 DEF ListFill, InvalidateCounts, db
  <2> QED
    BY <1>2, <2>5, <2>6, <2>7, <2>8, <2>9, <2>10, <2>11, <2>12, <2>13
       DEF Step, GetUser, ListUsers, CreateUser, UpdateOrDelete, ChangeBalance
<1> QED BY <1>1, <1>2

(* What the count of role r may be *)
CountFits(r) ==
  /\ count[r] # None /\ ~PendingCounts /\ r \notin late
  /\ r = "admin" => \A p \in Requests : ask[p].kind # "role"
  => count[r] = Cardinality(Visible(r))

LEMMA CountParts == CountCacheFollowsTable <=> \A r \in Actors : CountFits(r)
BY DEF CountCacheFollowsTable, CountFits

LEMMA CountsStep ==
  ASSUME CacheInv, NEW p \in Requests, Step(p), NEW r \in Actors
  PROVE  CountFits(r)'
<1> DEFINE t == Target(p)
<1>0. /\ Frame(p) /\ Control(p) /\ t \in Users /\ ask' = ask /\ TypeOK /\ ask[p].user = t
      /\ CountFits(r) /\ t \notin Actors /\ ask[p].kind \in Kinds
      /\ \A u \in Users \ {t} : row'[u] = row[u]
  BY StepFrame, CountParts, DirectoryAssumption
     DEF CacheInv, DirectoryInv, TypeOK, Ask, Target, Frame
<1>1. ASSUME pc'[p] = "counts" \/ (pc'[p] = "inv" /\ ask[p].kind = "delete")
      PROVE  CountFits(r)'
  BY <1>0, <1>1 DEF CountFits, PendingCounts
<1>2. ASSUME count'[r] = count[r], r \in late' <=> r \in late,
             pc[p] # "counts", ~(pc[p] = "inv" /\ ask[p].kind = "delete"),
             (r = "admin" /\ ask[p].kind = "role") \/ Visible(r)' = Visible(r)
      PROVE  CountFits(r)'
  <2>1. PendingCounts => PendingCounts'
    BY <1>0, <1>2 DEF PendingCounts, Frame
  <2> QED BY <1>0, <1>2, <2>1 DEF CountFits
<1>3. ASSUME row' = row PROVE Visible(r)' = Visible(r)
  BY <1>3 DEF Visible
<1>4. CASE \/ GetCache(p) \/ GetMarker(p) \/ GetRow(p) \/ GetFill(p) \/ ListCache(p)
           \/ ListCount(p) \/ ReadAndCheck(p) \/ BalanceLock(p) \/ BalanceRollback(p)
  <2>1. /\ row' = row /\ count' = count /\ pc[p] \notin {"counts", "inv"}
        /\ late' = late \/ late' = late \ {t} \/ late' = late \cup {t}
    BY <1>0, <1>4
       DEF GetCache, GetMarker, GetRow, GetFill, ListCache, ListCount, ReadAndCheck,
           BalanceLock, BalanceRollback, db, cache
  <2> QED BY <1>0, <1>2, <1>3, <2>1
<1>5. CASE ListFill(p)
  <2>0. p \in old \/ seen[p] = Cardinality(Visible(ask[p].actor))
    BY <1>5 DEF ListFill, CacheInv, Current
  <2>1. CASE ask[p].actor = r /\ count' # count
    <3>1. /\ count'[r] = seen[p] /\ Visible(r)' = Visible(r)
          /\ r \in late' \/ seen[p] = Cardinality(Visible(r))
      BY <1>0, <1>3, <1>5, <2>0, <2>1 DEF ListFill, db, TypeOK
    <3> QED BY <3>1 DEF CountFits
  <2>2. CASE ask[p].actor = r /\ count' = count
    <3>1. CASE late' = late
      BY <1>2, <1>3, <1>5, <2>2, <3>1 DEF ListFill, db
    <3>2. CASE late' # late
      <4>1. /\ count'[r] = seen[p] /\ Visible(r)' = Visible(r)
            /\ r \in late' \/ seen[p] = Cardinality(Visible(r))
        BY <1>0, <1>3, <1>5, <2>0, <2>2, <3>2 DEF ListFill, db, TypeOK
      <4> QED BY <4>1 DEF CountFits
    <3> QED BY <3>1, <3>2
  <2>3. CASE ask[p].actor # r
    <3>1. row' = row /\ count'[r] = count[r] /\ (r \in late' <=> r \in late) /\ pc[p] = "fill"
      BY <1>0, <1>5, <2>3 DEF ListFill, db, TypeOK
    <3> QED BY <1>2, <1>3, <3>1
  <2> QED BY <2>1, <2>2, <2>3
<1>6. CASE Create(p)
  <2>1. pc'[p] = "counts" \/ row' = row
    BY <1>0, <1>6 DEF Create, Goto, TypeOK
  <2> QED BY <1>1, <1>2, <1>3, <1>6, <2>1 DEF Create
<1>7. CASE UpdateUser(p)
  <2>1. /\ count' = count /\ pc[p] = "write" /\ (r \in late' <=> r \in late)
    BY <1>0, <1>7 DEF UpdateUser
  <2>2. CASE ask[p].kind # "role"
    BY <1>2, <1>7, <2>1, <2>2, VisibleStays DEF CacheInv
  <2>3. CASE ask[p].kind = "role" /\ r = "admin"
    BY <1>2, <2>1, <2>3
  <2>4. CASE ask[p].kind = "role" /\ r # "admin"
    <3>1. \A u \in Users : row'[u] = None <=> row[u] = None
      <4>1. CASE row' = row
        BY <4>1
      <4>2. CASE row' # row
        <5>1. /\ row[t] # None /\ row[t] \in Row /\ ask[p].role \in Actors
              /\ row'[t] = [row[t] EXCEPT !.role = ask[p].role]
          BY <1>0, <1>7, <2>4, <4>2 DEF UpdateUser, TypeOK, Ask, Actors
        <5>2. row'[t] # None
          BY <5>1, RowsWritten, DirectoryAssumption
        <5> QED BY <1>0, <5>1, <5>2
      <4> QED BY <4>1, <4>2
    <3>2. Visible(r)' = Visible(r)
      BY <2>4, <3>1 DEF Visible
    <3> QED BY <1>2, <2>1, <3>2
  <2> QED BY <2>2, <2>3, <2>4
<1>8. CASE DeleteUser(p)
  <2>1. (pc'[p] = "inv" /\ ask[p].kind = "delete") \/ row' = row
    BY <1>0, <1>8 DEF DeleteUser, Goto, TypeOK
  <2> QED BY <1>1, <1>2, <1>3, <1>8, <2>1 DEF DeleteUser
<1>9. CASE Verify(p) \/ BalanceCommit(p)
  <2>1. /\ count' = count /\ pc[p] \notin {"counts", "inv"} /\ (r \in late' <=> r \in late)
    BY <1>0, <1>9 DEF Verify, BalanceCommit
  <2>2. Visible(r)' = Visible(r)
    BY <1>9, VisibleStays DEF CacheInv
  <2> QED BY <1>2, <2>1, <2>2
<1>10. CASE Invalidate(p)
  <2>1. /\ row' = row /\ count' = count /\ pc[p] = "inv" /\ (r \in late' <=> r \in late)
        /\ ask[p].kind = "delete" => pc'[p] = "counts"
    BY <1>0, <1>10 DEF Invalidate, Goto, db, TypeOK
  <2> QED BY <1>1, <1>2, <1>3, <2>1
<1>11. CASE InvalidateCounts(p)
  <2>1. count'[r] = None \/ r \in late'
    BY <1>11 DEF InvalidateCounts
  <2> QED BY <2>1 DEF CountFits
<1> QED
  BY <1>4, <1>5, <1>6, <1>7, <1>8, <1>9, <1>10, <1>11
     DEF Step, GetUser, ListUsers, CreateUser, UpdateOrDelete, ChangeBalance

LEMMA CacheInvInit == Init => CacheInv
<1>1. Init => MarkersFit /\ ProfileCacheFollowsRow /\ CountCacheFollowsTable
  BY DEF Init, MarkersFit, ProfileCacheFollowsRow, CountCacheFollowsTable
<1>2. Init => \A q \in Requests : Current(q)
  BY DEF Init, Current
<1> QED BY <1>1, <1>2, DirectoryInvInit DEF CacheInv

LEMMA CacheInvNext == CacheInv /\ [Next]_vars => CacheInv'
<1> SUFFICES ASSUME CacheInv, [Next]_vars PROVE CacheInv'
  OBVIOUS
<1>0. DirectoryInv'
  BY DirectoryInvNext DEF CacheInv
<1>i. (\A u \in Users : EntryFits(u)) /\ (\A r \in Actors : CountFits(r)) /\ MarkersFit
  BY ProfileParts, CountParts DEF CacheInv
<1>a. SUFFICES /\ MarkersFit' /\ \A q \in Requests : Current(q)'
               /\ (\A u \in Users : EntryFits(u)') /\ (\A r \in Actors : CountFits(r)')
  <2>1. ProfileCacheFollowsRow'
    BY <1>a DEF MarkersFit, ProfileCacheFollowsRow, EntryFits
  <2>2. CountCacheFollowsTable'
    BY <1>a DEF CountCacheFollowsTable, CountFits
  <2> QED BY <1>0, <1>a, <2>1, <2>2 DEF CacheInv
<1>c. ASSUME UNCHANGED <<row, ask, pc, seen, old>> PROVE \A q \in Requests : Current(q)'
  <2>1. \A r : Visible(r)' = Visible(r)
    BY <1>c DEF Visible
  <2> QED BY <1>c, <2>1 DEF CacheInv, Current, Target, Visible
<1>1. ASSUME NEW p \in Requests, Step(p)
      PROVE  /\ MarkersFit' /\ \A q \in Requests : Current(q)'
             /\ (\A u \in Users : EntryFits(u)') /\ (\A r \in Actors : CountFits(r)')
  <2>1. \A q \in Requests : Current(q)'
    BY <1>1, CurrentStep DEF CacheInv
  <2> QED BY <1>1, <2>1, MarkersStep, EntriesStep, CountsStep
<1>2. ASSUME NEW v \in Users, EntryExpires(v) \/ MarkerExpires(v)
      PROVE  MarkersFit' /\ (\A u \in Users : EntryFits(u)') /\ (\A r \in Actors : CountFits(r)')
  <2>1. /\ UNCHANGED <<row, count, ask, pc>> /\ null' \subseteq null /\ v \notin Actors
        /\ \A u \in Users : entry'[u] = None \/ (entry'[u] = entry[u] /\ (u \in late' <=> u \in late))
        /\ \A r \in Actors : r \in late' <=> r \in late
    BY <1>2, DirectoryAssumption
       DEF EntryExpires, MarkerExpires, db, CacheInv, DirectoryInv, TypeOK
  <2> QED BY <1>i, <2>1 DEF MarkersFit, EntryFits, Pending, Target, CountFits, PendingCounts, Visible
<1>3. ASSUME NEW s \in Actors, CountExpires(s)
      PROVE  MarkersFit' /\ (\A u \in Users : EntryFits(u)') /\ (\A r \in Actors : CountFits(r)')
  <2>1. /\ UNCHANGED <<row, entry, null, ask, pc>> /\ s \notin Users
        /\ \A u \in Users : u \in late' <=> u \in late
        /\ \A r \in Actors : count'[r] = None \/ (count'[r] = count[r] /\ (r \in late' <=> r \in late))
    BY <1>3, DirectoryAssumption DEF CountExpires, db, CacheInv, DirectoryInv, TypeOK
  <2> QED BY <1>i, <2>1 DEF MarkersFit, EntryFits, Pending, Target, CountFits, PendingCounts, Visible
<1>4. CASE Replicate \/ UNCHANGED vars
  <2>1. UNCHANGED <<row, entry, null, count, late, ask, pc>>
    BY <1>4 DEF Replicate, vars, db, cache
  <2> QED BY <1>i, <2>1, <1>c, <1>4
          DEF Replicate, vars, db, cache, MarkersFit, EntryFits, Pending, Target, CountFits,
              PendingCounts, Visible
<1>5. ASSUME NEW v \in Users, EntryExpires(v) \/ MarkerExpires(v)
      PROVE  \A q \in Requests : Current(q)'
  BY <1>5, <1>c DEF EntryExpires, MarkerExpires, db
<1>6. ASSUME NEW s \in Actors, CountExpires(s) PROVE \A q \in Requests : Current(q)'
  BY <1>6, <1>c DEF CountExpires, db
<1> QED BY <1>1, <1>2, <1>3, <1>4, <1>5, <1>6 DEF Next

(* A cached profile shows the row's name, role and balance whenever no     *)
(* writer is between its commit and its invalidation, unless a write       *)
(* overtook its fill or an invalidation failed; a null marker is never     *)
(* wrong at all.                                                           *)
THEOREM ProfilesFollowRows == Spec => []ProfileCacheFollowsRow
<1>1. CacheInv => ProfileCacheFollowsRow
  BY DEF CacheInv
<1> QED BY <1>1, CacheInvInit, CacheInvNext, PTL DEF Spec

(* The cached counts of list_users follow every creation and deletion,     *)
(* unless the count was read on a replica that was behind or was overtaken *)
(* by a write, or an invalidation failed.                                  *)
THEOREM CountsFollowTable == Spec => []CountCacheFollowsTable
<1>1. CacheInv => CountCacheFollowsTable
  BY DEF CacheInv
<1> QED BY <1>1, CacheInvInit, CacheInvNext, PTL DEF Spec
=============================================================================
