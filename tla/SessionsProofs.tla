--------------------------- MODULE SessionsProofs ---------------------------
(* Proofs about Sessions, for any set of accounts and requests.            *)
EXTENDS Sessions, TLAPS

(* Where a request can be, given its operation, and what it then knows.    *)
Control ==
  \A p \in Requests :
    /\ pc[p] = "idle" => op[p] = None
    /\ pc[p] # "idle" => who[p] \in Users /\ op[p] \in Ops
    /\ pc[p] # "idle" /\ op[p] \in {"refresh", "logout", "verify"} =>
         tok[p] \in Ids /\ jwt[tok[p]] # None
    /\ pc[p] # "idle" /\ op[p] = "update_role" => arg[p] \in Roles
    /\ pc[p] = "ruser" => op[p] = "refresh"
    /\ pc[p] = "plain" => op[p] = "update_role"
    /\ pc[p] \in {"vdb", "vset"} => op[p] = "verify"
    /\ pc[p] \in {"snap", "del"} =>
         op[p] \in {"login", "logout_all", "change_password", "reset", "delete"}
    /\ pc[p] \in {"snap", "del", "commit"} /\ op[p] \in {"login", "refresh"} =>
         seenRole[p] \in Roles
    /\ pc[p] = "inv" /\ op[p] = "change_password" => seenRole[p] \in Roles

TypeInv == TypeOK /\ Control

LEMMA TypeInvInit == Init => TypeInv
BY SessionsAssumption
   DEF Init, TypeInv, TypeOK, Control, Ids, Jwts, Steps, Roles

(* What the pieces that actions are made of do to the types *)
LEMMA PieceTypes ==
  ASSUME TypeOK, NEW p \in Requests, who[p] \in Users
  PROVE  /\ \A s \in Steps : Goto(p, s) => pc' \in [Requests -> Steps]
         /\ ReadRow(p) => /\ seenVer' \in [Requests -> Nat]
                           /\ seenRole' \in [Requests -> Roles \cup {None}]
         /\ Release(p) => /\ usrLock' \in [Users -> Requests \cup {None}]
                          /\ tokLock' \in [Ids -> Requests \cup {None}]
         /\ \A ins : RowsAfter(p, ins) \in [Ids -> Users \cup {None}]
         /\ Bump(p) => ver' \in [Users -> Nat] /\ bumped' \in [Requests -> Nat]
         /\ \A v \in Nat, r \in Roles :
              Sign(p, v, r) => jwt' \in [Ids -> Jwts \cup {None}]
         /\ \A v : Decide(p, v) =>
              verdict' \in [Requests -> {"none", "ok", "rejected"}]
         /\ [verdict EXCEPT ![p] = "rejected"] \in [Requests -> {"none", "ok", "rejected"}]
         /\ [usrLock EXCEPT ![who[p]] = p] \in [Users -> Requests \cup {None}]
         /\ ver[who[p]] \in Nat /\ ver[who[p]] + 1 \in Nat /\ role[who[p]] \in Roles
<1>1. \A s \in Steps : Goto(p, s) => pc' \in [Requests -> Steps]
  BY DEF TypeOK, Goto
<1>2. ReadRow(p) => /\ seenVer' \in [Requests -> Nat]
                     /\ seenRole' \in [Requests -> Roles \cup {None}]
  BY DEF TypeOK, ReadRow
<1>3. Release(p) => /\ usrLock' \in [Users -> Requests \cup {None}]
                    /\ tokLock' \in [Ids -> Requests \cup {None}]
  BY DEF TypeOK, Release
<1>4. \A ins : RowsAfter(p, ins) \in [Ids -> Users \cup {None}]
  BY DEF TypeOK, RowsAfter
<1>5. Bump(p) => ver' \in [Users -> Nat] /\ bumped' \in [Requests -> Nat]
  BY DEF TypeOK, Bump
<1>6. \A v \in Nat, r \in Roles : Sign(p, v, r) => jwt' \in [Ids -> Jwts \cup {None}]
  BY DEF TypeOK, Sign, Jwts, Ids
<1>7. \A v : Decide(p, v) => verdict' \in [Requests -> {"none", "ok", "rejected"}]
  BY DEF TypeOK, Decide
<1>8. [verdict EXCEPT ![p] = "rejected"] \in [Requests -> {"none", "ok", "rejected"}]
  BY DEF TypeOK
<1>9. [usrLock EXCEPT ![who[p]] = p] \in [Users -> Requests \cup {None}]
  BY DEF TypeOK
<1>10. ver[who[p]] \in Nat /\ ver[who[p]] + 1 \in Nat /\ role[who[p]] \in Roles
  BY DEF TypeOK
<1> QED BY <1>1, <1>2, <1>3, <1>4, <1>5, <1>6, <1>7, <1>8, <1>9, <1>10

(* ... and to the request's own control state *)
LEMMA PieceEffects ==
  ASSUME TypeOK, NEW p \in Requests, who[p] \in Users
  PROVE  /\ \A s : Goto(p, s) =>
              \A q \in Requests : pc'[q] = IF q = p THEN s ELSE pc[q]
         /\ ReadRow(p) =>
              /\ seenRole'[p] \in Roles
              /\ \A q \in Requests : q # p => seenRole'[q] = seenRole[q]
         /\ \A v \in Nat, r \in Roles : Sign(p, v, r) =>
              \A i \in Ids : jwt[i] # None => jwt'[i] # None
<1>1. \A s : Goto(p, s) => \A q \in Requests : pc'[q] = IF q = p THEN s ELSE pc[q]
  BY DEF TypeOK, Goto
<1>2. ReadRow(p) => /\ seenRole'[p] \in Roles
                     /\ \A q \in Requests : q # p => seenRole'[q] = seenRole[q]
  BY DEF TypeOK, ReadRow
<1>3. ASSUME NEW v \in Nat, NEW r \in Roles, Sign(p, v, r), NEW i \in Ids, jwt[i] # None
      PROVE  jwt'[i] # None
  <2>1. CASE i = p
    <3>1. jwt'[p] = [user |-> who[p], ver |-> v, role |-> r]
      BY <1>3 DEF TypeOK, Sign, Ids
    <3>2. [user |-> who[p], ver |-> v, role |-> r] # None
      BY SessionsAssumption DEF Jwts
    <3> QED BY <2>1, <3>1, <3>2
  <2>2. CASE i # p
    BY <1>3, <2>2 DEF TypeOK, Sign
  <2> QED BY <2>1, <2>2
<1> QED BY <1>1, <1>2, <1>3

LEMMA TypeInvNext == TypeInv /\ [Next]_vars => TypeInv'
<1> SUFFICES ASSUME TypeOK, Control, [Next]_vars PROVE TypeInv'
  BY DEF TypeInv
<1> USE SessionsAssumption
<1> USE DEF rowVars, tokVars, lockVars, reqVars, seenVars, delVars
<1>1. ASSUME NEW p \in Requests, Begin(p) PROVE TypeInv'
  <2>1. TypeOK'
    <3>1. PICK o \in Allowed[p], u \in Users :
            /\ op' = [op EXCEPT ![p] = o]
            /\ who' = [who EXCEPT ![p] = u]
      BY <1>1 DEF Begin
    <3>2. op' \in [Requests -> Ops \cup {None}] /\ who' \in [Requests -> Users \cup {None}]
      BY <3>1 DEF TypeOK
    <3>3. /\ tok' = tok \/ \E i \in Ids : tok' = [tok EXCEPT ![p] = i]
          /\ arg' = arg \/ \E r \in Roles : arg' = [arg EXCEPT ![p] = r]
      BY <1>1 DEF Begin, Roles
    <3>4. pc' \in [Requests -> Steps]
      BY <1>1 DEF Begin, Goto, TypeOK, Steps
    <3>5. tok' \in [Requests -> Ids \cup {None}]
      BY <3>3 DEF TypeOK
    <3>6. arg' \in [Requests -> Roles \cup {None}]
      BY <3>3 DEF TypeOK
    <3> QED
      BY <1>1, <3>2, <3>4, <3>5, <3>6 DEF Begin, TypeOK
  <2>2. Control'
    BY <1>1 DEF Begin, Goto, TypeOK, Control, Ids, Steps, Roles, Ops
  <2> QED BY <2>1, <2>2 DEF TypeInv
<1>2. ASSUME NEW p \in Requests, DeleteSnapshot(p) PROVE TypeInv'
  <2>0. who[p] \in Users
    BY <1>2 DEF DeleteSnapshot, RowsOf, Control
  <2>1. TypeOK'
    BY <1>2, <2>0, PieceTypes DEF DeleteSnapshot, RowsOf, TypeOK, Control, Ids, Steps, Roles
  <2>2. Control'
    BY <1>2, <2>0, PieceEffects DEF DeleteSnapshot, TypeOK, Control, Roles, Ops
  <2> QED BY <2>1, <2>2 DEF TypeInv
<1>3. ASSUME NEW p \in Requests, NEW t \in Ids, DeleteRow(p, t) PROVE TypeInv'
  <2>0. who[p] \in Users
    BY <1>3 DEF DeleteRow, Control
  <2>1. TypeOK'
    BY <1>3, <2>0, PieceTypes DEF DeleteRow, TypeOK, Control, Ids, Steps, Roles
  <2>2. Control'
    BY <1>3, <2>0, PieceEffects DEF DeleteRow, TypeOK, Control, Roles, Ops
  <2> QED BY <2>1, <2>2 DEF TypeInv
<1>4. ASSUME NEW p \in Requests, DeleteEnd(p) PROVE TypeInv'
  <2>0. who[p] \in Users
    BY <1>4 DEF DeleteEnd, Control
  <2>1. TypeOK'
    BY <1>4, <2>0, PieceTypes DEF DeleteEnd, TypeOK, Control, Ids, Steps, Roles
  <2>2. Control'
    BY <1>4, <2>0, PieceEffects DEF DeleteEnd, TypeOK, Control, Roles, Ops
  <2> QED BY <2>1, <2>2 DEF TypeInv
<1>5. ASSUME NEW p \in Requests, LoginRead(p) PROVE TypeInv'
  <2>0. who[p] \in Users
    BY <1>5 DEF LoginRead, ReadUser, At, Finish, Control
  <2>1. TypeOK'
    <3>1. pc' \in [Requests -> Steps]
      BY <1>5, <2>0, PieceTypes DEF LoginRead, ReadUser, At, Finish, TypeOK, Steps
    <3>2. jwt' \in [Ids -> Jwts \cup {None}]
      BY <1>5, <2>0, PieceTypes DEF LoginRead, ReadUser, At, Finish, TypeOK, Steps, Control
    <3>3. seenVer' \in [Requests -> Nat] /\ seenRole' \in [Requests -> Roles \cup {None}]
      BY <1>5, <2>0, PieceTypes DEF LoginRead, ReadUser, At, Finish, TypeOK, Steps
    <3> QED BY <1>5, <3>1, <3>2, <3>3 DEF LoginRead, ReadUser, At, Finish, TypeOK
  <2>2. Control'
    <3>1. pc[p] = "start" /\ op[p] = "login" /\ UNCHANGED <<op, who, tok, arg>>
      BY <1>5 DEF LoginRead, ReadUser, At, Finish
    <3>2. \/ UNCHANGED <<seenRole, jwt>> /\ Goto(p, "done")
          \/ UNCHANGED seenRole /\ Goto(p, "done") /\ Sign(p, ver[who[p]], role[who[p]])
          \/ UNCHANGED jwt /\ Goto(p, "snap") /\ ReadUser(p)
      BY <1>5 DEF LoginRead, ReadUser, Finish
    <3>3. \A i \in Ids : jwt[i] # None => jwt'[i] # None
      BY <2>0, <3>2, PieceEffects DEF TypeOK
    <3>4. /\ \A q \in Requests : q # p => seenRole'[q] = seenRole[q] /\ pc'[q] = pc[q]
          /\ pc'[p] = "done" \/ (pc'[p] = "snap" /\ seenRole'[p] \in Roles)
      <4>1. CASE UNCHANGED seenRole /\ Goto(p, "done")
        BY <2>0, <4>1, PieceEffects
      <4>2. CASE Goto(p, "snap") /\ ReadUser(p)
        BY <2>0, <4>2, PieceEffects DEF ReadUser
      <4> QED BY <3>2, <4>1, <4>2
    <3> QED BY <3>1, <3>3, <3>4 DEF Control
  <2> QED BY <2>1, <2>2 DEF TypeInv
<1>6. ASSUME NEW p \in Requests, LoginCommit(p) PROVE TypeInv'
  <2>0. who[p] \in Users
    BY <1>6 DEF LoginCommit, At, InsertAndCommit, Control
  <2>1. TypeOK'
    <3>1. pc' \in [Requests -> Steps] /\ usrLock' \in [Users -> Requests \cup {None}] /\ tokLock' \in [Ids -> Requests \cup {None}]
      BY <1>6, <2>0, PieceTypes DEF LoginCommit, At, InsertAndCommit, TypeOK, Steps
    <3>2. owner' \in [Ids -> Users \cup {None}]
      BY <1>6, <2>0, PieceTypes DEF LoginCommit, At, InsertAndCommit, TypeOK, Steps
    <3>3. jwt' \in [Ids -> Jwts \cup {None}]
      BY <1>6, <2>0, PieceTypes DEF LoginCommit, At, InsertAndCommit, TypeOK, Steps, Control
    <3> QED BY <1>6, <3>1, <3>2, <3>3 DEF LoginCommit, At, InsertAndCommit, TypeOK
  <2>2. Control'
    <3>1. pc[p] # "idle" /\ UNCHANGED <<op, who, tok, arg, seenRole>>
      BY <1>6 DEF LoginCommit, At, InsertAndCommit
    <3>2. \A q \in Requests : pc'[q] = IF q = p THEN "done" ELSE pc[q]
      BY <1>6, <2>0, PieceEffects DEF LoginCommit, At, InsertAndCommit
    <3>3. seenVer[p] \in Nat /\ seenRole[p] \in Roles
      BY <1>6 DEF LoginCommit, At, InsertAndCommit, TypeOK, Control
    <3>4. jwt' = jwt \/ Sign(p, seenVer[p], seenRole[p])
      BY <1>6 DEF LoginCommit, At, InsertAndCommit
    <3>5. \A i \in Ids : jwt[i] # None => jwt'[i] # None
      BY <2>0, <3>3, <3>4, PieceEffects
    <3> QED BY <3>1, <3>2, <3>5 DEF Control
  <2> QED BY <2>1, <2>2 DEF TypeInv
<1>7. ASSUME NEW p \in Requests, RotateLock(p) PROVE TypeInv'
  <2>0. who[p] \in Users
    BY <1>7 DEF RotateLock, At, Control
  <2>1. TypeOK'
    BY <1>7, <2>0, PieceTypes DEF RotateLock, At, TypeOK, Control, Ids, Steps, Roles
  <2>2. Control'
    BY <1>7, <2>0, PieceEffects DEF RotateLock, At, TypeOK, Control, Roles, Ops
  <2> QED BY <2>1, <2>2 DEF TypeInv
<1>8. ASSUME NEW p \in Requests, RotateRefused(p) PROVE TypeInv'
  <2>0. who[p] \in Users
    BY <1>8 DEF RotateRefused, At, Finish, Control
  <2>1. TypeOK'
    BY <1>8, <2>0, PieceTypes DEF RotateRefused, At, Finish, TypeOK, Control, Ids, Steps, Roles
  <2>2. Control'
    BY <1>8, <2>0, PieceEffects DEF RotateRefused, At, Finish, TypeOK, Control, Roles, Ops
  <2> QED BY <2>1, <2>2 DEF TypeInv
<1>9. ASSUME NEW p \in Requests, RotateReadUser(p) PROVE TypeInv'
  <2>0. who[p] \in Users
    BY <1>9 DEF RotateReadUser, ReadUser, Control
  <2>1. TypeOK'
    BY <1>9, <2>0, PieceTypes DEF RotateReadUser, ReadUser, TypeOK, Control, Ids, Steps, Roles
  <2>2. Control'
    BY <1>9, <2>0, PieceEffects DEF RotateReadUser, ReadUser, TypeOK, Control, Roles, Ops
  <2> QED BY <2>1, <2>2 DEF TypeInv
<1>10. ASSUME NEW p \in Requests, RotateCommit(p) PROVE TypeInv'
  <2>0. who[p] \in Users
    BY <1>10 DEF RotateCommit, At, InsertAndCommit, Control
  <2>1. TypeOK'
    <3>1. pc' \in [Requests -> Steps] /\ usrLock' \in [Users -> Requests \cup {None}] /\ tokLock' \in [Ids -> Requests \cup {None}]
      BY <1>10, <2>0, PieceTypes DEF RotateCommit, At, InsertAndCommit, TypeOK, Steps
    <3>2. owner' \in [Ids -> Users \cup {None}]
      BY <1>10, <2>0, PieceTypes DEF RotateCommit, At, InsertAndCommit, TypeOK, Steps
    <3>3. jwt' \in [Ids -> Jwts \cup {None}]
      BY <1>10, <2>0, PieceTypes DEF RotateCommit, At, InsertAndCommit, TypeOK, Steps, Control
    <3> QED BY <1>10, <3>1, <3>2, <3>3 DEF RotateCommit, At, InsertAndCommit, TypeOK
  <2>2. Control'
    <3>1. pc[p] # "idle" /\ UNCHANGED <<op, who, tok, arg, seenRole>>
      BY <1>10 DEF RotateCommit, At, InsertAndCommit
    <3>2. \A q \in Requests : pc'[q] = IF q = p THEN "done" ELSE pc[q]
      BY <1>10, <2>0, PieceEffects DEF RotateCommit, At, InsertAndCommit
    <3>3. seenVer[p] \in Nat /\ seenRole[p] \in Roles
      BY <1>10 DEF RotateCommit, At, InsertAndCommit, TypeOK, Control
    <3>4. jwt' = jwt \/ Sign(p, seenVer[p], seenRole[p])
      BY <1>10 DEF RotateCommit, At, InsertAndCommit
    <3>5. \A i \in Ids : jwt[i] # None => jwt'[i] # None
      BY <2>0, <3>3, <3>4, PieceEffects
    <3> QED BY <3>1, <3>2, <3>5 DEF Control
  <2> QED BY <2>1, <2>2 DEF TypeInv
<1>11. ASSUME NEW p \in Requests, Logout(p) PROVE TypeInv'
  <2>0. who[p] \in Users
    BY <1>11 DEF Logout, At, Control
  <2>1. TypeOK'
    BY <1>11, <2>0, PieceTypes DEF Logout, At, TypeOK, Control, Ids, Steps, Roles
  <2>2. Control'
    BY <1>11, <2>0, PieceEffects DEF Logout, At, TypeOK, Control, Roles, Ops
  <2> QED BY <2>1, <2>2 DEF TypeInv
<1>12. ASSUME NEW p \in Requests, LogoutAllBegin(p) PROVE TypeInv'
  <2>0. who[p] \in Users
    BY <1>12 DEF LogoutAllBegin, At, Control
  <2>1. TypeOK'
    BY <1>12, <2>0, PieceTypes DEF LogoutAllBegin, At, TypeOK, Control, Ids, Steps, Roles
  <2>2. Control'
    BY <1>12, <2>0, PieceEffects DEF LogoutAllBegin, At, TypeOK, Control, Roles, Ops
  <2> QED BY <2>1, <2>2 DEF TypeInv
<1>13. ASSUME NEW p \in Requests, LogoutAllCommit(p) PROVE TypeInv'
  <2>0. who[p] \in Users
    BY <1>13 DEF LogoutAllCommit, At, Control
  <2>1. TypeOK'
    BY <1>13, <2>0, PieceTypes DEF LogoutAllCommit, At, TypeOK, Control, Ids, Steps, Roles
  <2>2. Control'
    BY <1>13, <2>0, PieceEffects DEF LogoutAllCommit, At, TypeOK, Control, Roles, Ops
  <2> QED BY <2>1, <2>2 DEF TypeInv
<1>14. ASSUME NEW p \in Requests, ChangeRead(p) PROVE TypeInv'
  <2>0. who[p] \in Users
    BY <1>14 DEF ChangeRead, At, Finish, Control
  <2>1. TypeOK'
    BY <1>14, <2>0, PieceTypes DEF ChangeRead, At, Finish, TypeOK, Control, Ids, Steps, Roles
  <2>2. Control'
    BY <1>14, <2>0, PieceEffects DEF ChangeRead, At, Finish, TypeOK, Control, Roles, Ops
  <2> QED BY <2>1, <2>2 DEF TypeInv
<1>15. ASSUME NEW p \in Requests, ChangeLock(p) PROVE TypeInv'
  <2>0. who[p] \in Users
    BY <1>15 DEF ChangeLock, At, Control
  <2>1. TypeOK'
    <3>1. usrLock' \in [Users -> Requests \cup {None}]
      <4>1. usrLock' = [usrLock EXCEPT ![who[p]] = p] \/ usrLock' = usrLock
        BY <1>15 DEF ChangeLock, At
      <4>2. [usrLock EXCEPT ![who[p]] = p] \in [Users -> Requests \cup {None}]
        BY <2>0, PieceTypes
      <4>3. usrLock \in [Users -> Requests \cup {None}]
        BY DEF TypeOK
      <4> QED BY <4>1, <4>2, <4>3
    <3>2. pc' \in [Requests -> Steps]
      BY <1>15, <2>0, PieceTypes DEF ChangeLock, At, TypeOK, Steps
    <3> QED BY <1>15, <3>1, <3>2 DEF ChangeLock, At, TypeOK
  <2>2. Control'
    BY <1>15, <2>0, PieceEffects DEF ChangeLock, At, TypeOK, Control, Roles, Ops
  <2> QED BY <2>1, <2>2 DEF TypeInv
<1>16. ASSUME NEW p \in Requests, ChangeCommit(p) PROVE TypeInv'
  <2>0. who[p] \in Users
    BY <1>16 DEF ChangeCommit, At, Control
  <2>1. TypeOK'
    BY <1>16, <2>0, PieceTypes DEF ChangeCommit, At, TypeOK, Control, Ids, Steps, Roles
  <2>2. Control'
    BY <1>16, <2>0, PieceEffects DEF ChangeCommit, At, TypeOK, Control, Roles, Ops
  <2> QED BY <2>1, <2>2 DEF TypeInv
<1>17. ASSUME NEW p \in Requests, ResetRead(p) PROVE TypeInv'
  <2>0. who[p] \in Users
    BY <1>17 DEF ResetRead, At, Finish, Control
  <2>1. TypeOK'
    BY <1>17, <2>0, PieceTypes DEF ResetRead, At, Finish, TypeOK, Control, Ids, Steps, Roles
  <2>2. Control'
    BY <1>17, <2>0, PieceEffects DEF ResetRead, At, Finish, TypeOK, Control, Roles, Ops
  <2> QED BY <2>1, <2>2 DEF TypeInv
<1>18. ASSUME NEW p \in Requests, ResetClaim(p) PROVE TypeInv'
  <2>0. who[p] \in Users
    BY <1>18 DEF ResetClaim, At, Control
  <2>1. TypeOK'
    <3>1. usrLock' \in [Users -> Requests \cup {None}]
      <4>1. usrLock' = [usrLock EXCEPT ![who[p]] = p] \/ usrLock' = usrLock
        BY <1>18 DEF ResetClaim, At
      <4>2. [usrLock EXCEPT ![who[p]] = p] \in [Users -> Requests \cup {None}]
        BY <2>0, PieceTypes
      <4>3. usrLock \in [Users -> Requests \cup {None}]
        BY DEF TypeOK
      <4> QED BY <4>1, <4>2, <4>3
    <3>2. pc' \in [Requests -> Steps]
      BY <1>18, <2>0, PieceTypes DEF ResetClaim, At, TypeOK, Steps
    <3> QED BY <1>18, <3>1, <3>2 DEF ResetClaim, At, TypeOK
  <2>2. Control'
    BY <1>18, <2>0, PieceEffects DEF ResetClaim, At, TypeOK, Control, Roles, Ops
  <2> QED BY <2>1, <2>2 DEF TypeInv
<1>19. ASSUME NEW p \in Requests, ResetCommit(p) PROVE TypeInv'
  <2>0. who[p] \in Users
    BY <1>19 DEF ResetCommit, At, Control
  <2>1. TypeOK'
    <3>1. owner' \in [Ids -> Users \cup {None}] /\ ver' \in [Users -> Nat] /\ bumped' \in [Requests -> Nat]
      BY <1>19, <2>0, PieceTypes DEF ResetCommit, At, TypeOK, Steps
    <3>2. pw' \in [Users -> Ids] /\ code' \in [Users -> BOOLEAN]
      BY <1>19, <2>0, PieceTypes DEF ResetCommit, At, TypeOK, Steps, Ids
    <3>3. jwt' \in [Ids -> Jwts \cup {None}]
      BY <1>19, <2>0, PieceTypes DEF ResetCommit, At, TypeOK, Steps, Control
    <3>4. usrLock' \in [Users -> Requests \cup {None}] /\ tokLock' \in [Ids -> Requests \cup {None}] /\ pc' \in [Requests -> Steps]
      BY <1>19, <2>0, PieceTypes DEF ResetCommit, At, TypeOK, Steps
    <3> QED BY <1>19, <3>1, <3>2, <3>3, <3>4 DEF ResetCommit, At, TypeOK
  <2>2. Control'
    <3>1. \A i \in Ids : jwt[i] # None => jwt'[i] # None
      BY <1>19, <2>0, PieceEffects, PieceTypes DEF ResetCommit
    <3>2. \A q \in Requests : pc'[q] = IF q = p THEN "done" ELSE pc[q]
      BY <1>19, <2>0, PieceEffects DEF ResetCommit
    <3> QED BY <1>19, <3>1, <3>2 DEF ResetCommit, At, Control, Ops
  <2> QED BY <2>1, <2>2 DEF TypeInv
<1>20. ASSUME NEW p \in Requests, UpdateRoleRead(p) PROVE TypeInv'
  <2>0. who[p] \in Users
    BY <1>20 DEF UpdateRoleRead, At, Control
  <2>1. TypeOK'
    BY <1>20, <2>0, PieceTypes DEF UpdateRoleRead, At, TypeOK, Control, Ids, Steps, Roles
  <2>2. Control'
    BY <1>20, <2>0, PieceEffects DEF UpdateRoleRead, At, TypeOK, Control, Roles, Ops
  <2> QED BY <2>1, <2>2 DEF TypeInv
<1>21. ASSUME NEW p \in Requests, UpdateRolePlain(p) PROVE TypeInv'
  <2>0. who[p] \in Users
    BY <1>21 DEF UpdateRolePlain, Control
  <2>1. TypeOK'
    BY <1>21, <2>0, PieceTypes DEF UpdateRolePlain, TypeOK, Control, Ids, Steps, Roles
  <2>2. Control'
    BY <1>21, <2>0, PieceEffects DEF UpdateRolePlain, TypeOK, Control, Roles, Ops
  <2> QED BY <2>1, <2>2 DEF TypeInv
<1>22. ASSUME NEW p \in Requests, UpdateRoleLock(p) PROVE TypeInv'
  <2>0. who[p] \in Users
    BY <1>22 DEF UpdateRoleLock, At, Control
  <2>1. TypeOK'
    <3>1. usrLock' \in [Users -> Requests \cup {None}]
      <4>1. usrLock' = [usrLock EXCEPT ![who[p]] = p] \/ usrLock' = usrLock
        BY <1>22 DEF UpdateRoleLock, At
      <4>2. [usrLock EXCEPT ![who[p]] = p] \in [Users -> Requests \cup {None}]
        BY <2>0, PieceTypes
      <4>3. usrLock \in [Users -> Requests \cup {None}]
        BY DEF TypeOK
      <4> QED BY <4>1, <4>2, <4>3
    <3>2. pc' \in [Requests -> Steps]
      BY <1>22, <2>0, PieceTypes DEF UpdateRoleLock, At, TypeOK, Steps
    <3> QED BY <1>22, <3>1, <3>2 DEF UpdateRoleLock, At, TypeOK
  <2>2. Control'
    BY <1>22, <2>0, PieceEffects DEF UpdateRoleLock, At, TypeOK, Control, Roles, Ops
  <2> QED BY <2>1, <2>2 DEF TypeInv
<1>23. ASSUME NEW p \in Requests, UpdateRoleCommit(p) PROVE TypeInv'
  <2>0. who[p] \in Users
    BY <1>23 DEF UpdateRoleCommit, At, Control
  <2>1. TypeOK'
    BY <1>23, <2>0, PieceTypes DEF UpdateRoleCommit, At, TypeOK, Control, Ids, Steps, Roles
  <2>2. Control'
    BY <1>23, <2>0, PieceEffects DEF UpdateRoleCommit, At, TypeOK, Control, Roles, Ops
  <2> QED BY <2>1, <2>2 DEF TypeInv
<1>24. ASSUME NEW p \in Requests, DeleteUserRead(p) PROVE TypeInv'
  <2>0. who[p] \in Users
    BY <1>24 DEF DeleteUserRead, At, Control
  <2>1. TypeOK'
    BY <1>24, <2>0, PieceTypes DEF DeleteUserRead, At, TypeOK, Control, Ids, Steps, Roles
  <2>2. Control'
    BY <1>24, <2>0, PieceEffects DEF DeleteUserRead, At, TypeOK, Control, Roles, Ops
  <2> QED BY <2>1, <2>2 DEF TypeInv
<1>25. ASSUME NEW p \in Requests, DeleteUserLock(p) PROVE TypeInv'
  <2>0. who[p] \in Users
    BY <1>25 DEF DeleteUserLock, At, Control
  <2>1. TypeOK'
    <3>1. usrLock' \in [Users -> Requests \cup {None}]
      <4>1. usrLock' = [usrLock EXCEPT ![who[p]] = p] \/ usrLock' = usrLock
        BY <1>25 DEF DeleteUserLock, At
      <4>2. [usrLock EXCEPT ![who[p]] = p] \in [Users -> Requests \cup {None}]
        BY <2>0, PieceTypes
      <4>3. usrLock \in [Users -> Requests \cup {None}]
        BY DEF TypeOK
      <4> QED BY <4>1, <4>2, <4>3
    <3>2. pc' \in [Requests -> Steps]
      BY <1>25, <2>0, PieceTypes DEF DeleteUserLock, At, TypeOK, Steps
    <3> QED BY <1>25, <3>1, <3>2 DEF DeleteUserLock, At, TypeOK
  <2>2. Control'
    BY <1>25, <2>0, PieceEffects DEF DeleteUserLock, At, TypeOK, Control, Roles, Ops
  <2> QED BY <2>1, <2>2 DEF TypeInv
<1>26. ASSUME NEW p \in Requests, DeleteUserCommit(p) PROVE TypeInv'
  <2>0. who[p] \in Users
    BY <1>26 DEF DeleteUserCommit, At, Control
  <2>1. TypeOK'
    BY <1>26, <2>0, PieceTypes DEF DeleteUserCommit, At, TypeOK, Control, Ids, Steps, Roles
  <2>2. Control'
    BY <1>26, <2>0, PieceEffects DEF DeleteUserCommit, At, TypeOK, Control, Roles, Ops
  <2> QED BY <2>1, <2>2 DEF TypeInv
<1>27. ASSUME NEW p \in Requests, Requery(p) PROVE TypeInv'
  <2>0. who[p] \in Users
    BY <1>27 DEF Requery, ReadUser, Control
  <2>1. TypeOK'
    BY <1>27, <2>0, PieceTypes DEF Requery, ReadUser, TypeOK, Control, Ids, Steps, Roles
  <2>2. Control'
    BY <1>27, <2>0, PieceEffects DEF Requery, ReadUser, TypeOK, Control, Roles, Ops
  <2> QED BY <2>1, <2>2 DEF TypeInv
<1>28. ASSUME NEW p \in Requests, Invalidate(p) PROVE TypeInv'
  <2>0. who[p] \in Users
    BY <1>28 DEF Invalidate, Control
  <2>1. TypeOK'
    <3>1. tvCache' \in [Users -> Nat \cup {None}]
      BY <1>28, <2>0, PieceTypes DEF Invalidate, TypeOK, Steps
    <3>2. jwt' \in [Ids -> Jwts \cup {None}]
      BY <1>28, <2>0, PieceTypes DEF Invalidate, TypeOK, Steps, Control
    <3>3. pc' \in [Requests -> Steps]
      BY <1>28, <2>0, PieceTypes DEF Invalidate, TypeOK, Steps
    <3> QED BY <1>28, <3>1, <3>2, <3>3 DEF Invalidate, TypeOK
  <2>2. Control'
    BY <1>28, <2>0, PieceEffects DEF Invalidate, TypeOK, Control, Roles, Ops
  <2> QED BY <2>1, <2>2 DEF TypeInv
<1>29. ASSUME NEW p \in Requests, VerifyHit(p) PROVE TypeInv'
  <2>0. who[p] \in Users
    BY <1>29 DEF VerifyHit, At, Control
  <2>1. TypeOK'
    BY <1>29, <2>0, PieceTypes DEF VerifyHit, At, TypeOK, Control, Ids, Steps, Roles
  <2>2. Control'
    BY <1>29, <2>0, PieceEffects DEF VerifyHit, At, TypeOK, Control, Roles, Ops
  <2> QED BY <2>1, <2>2 DEF TypeInv
<1>30. ASSUME NEW p \in Requests, VerifyMiss(p) PROVE TypeInv'
  <2>0. who[p] \in Users
    BY <1>30 DEF VerifyMiss, At, Control
  <2>1. TypeOK'
    BY <1>30, <2>0, PieceTypes DEF VerifyMiss, At, TypeOK, Control, Ids, Steps, Roles
  <2>2. Control'
    BY <1>30, <2>0, PieceEffects DEF VerifyMiss, At, TypeOK, Control, Roles, Ops
  <2> QED BY <2>1, <2>2 DEF TypeInv
<1>31. ASSUME NEW p \in Requests, VerifyRead(p) PROVE TypeInv'
  <2>0. who[p] \in Users
    BY <1>31 DEF VerifyRead, ReadUser, Control
  <2>1. TypeOK'
    <3>1. seenVer' \in [Requests -> Nat] /\ seenRole' \in [Requests -> Roles \cup {None}]
      BY <1>31, <2>0, PieceTypes DEF VerifyRead, ReadUser, TypeOK, Steps
    <3>2. verdict' \in [Requests -> {"none", "ok", "rejected"}]
      <4>1. verdict' = [verdict EXCEPT ![p] = "rejected"] \/ verdict' = verdict
        BY <1>31 DEF VerifyRead, ReadUser
      <4>2. [verdict EXCEPT ![p] = "rejected"] \in [Requests -> {"none", "ok", "rejected"}]
        BY <2>0, PieceTypes
      <4>3. verdict \in [Requests -> {"none", "ok", "rejected"}]
        BY DEF TypeOK
      <4> QED BY <4>1, <4>2, <4>3
    <3>3. pc' \in [Requests -> Steps]
      BY <1>31, <2>0, PieceTypes DEF VerifyRead, ReadUser, TypeOK, Steps
    <3> QED BY <1>31, <3>1, <3>2, <3>3 DEF VerifyRead, ReadUser, TypeOK
  <2>2. Control'
    BY <1>31, <2>0, PieceEffects DEF VerifyRead, ReadUser, TypeOK, Control, Roles, Ops
  <2> QED BY <2>1, <2>2 DEF TypeInv
<1>32. ASSUME NEW p \in Requests, VerifySet(p) PROVE TypeInv'
  <2>0. who[p] \in Users
    BY <1>32 DEF VerifySet, Control
  <2>1. TypeOK'
    <3>1. tvCache' \in [Users -> Nat \cup {None}]
      BY <1>32, <2>0, PieceTypes DEF VerifySet, TypeOK, Steps
    <3>2. verdict' \in [Requests -> {"none", "ok", "rejected"}] /\ pc' \in [Requests -> Steps]
      BY <1>32, <2>0, PieceTypes DEF VerifySet, TypeOK, Steps
    <3> QED BY <1>32, <3>1, <3>2 DEF VerifySet, TypeOK
  <2>2. Control'
    BY <1>32, <2>0, PieceEffects DEF VerifySet, TypeOK, Control, Roles, Ops
  <2> QED BY <2>1, <2>2 DEF TypeInv
<1>33. ASSUME NEW p \in Requests, DbError(p) PROVE TypeInv'
  <2>0. who[p] \in Users
    BY <1>33 DEF DbError, Abort, Control
  <2>1. TypeOK'
    BY <1>33, <2>0, PieceTypes DEF DbError, Abort, TypeOK, Control, Ids, Steps, Roles
  <2>2. Control'
    BY <1>33, <2>0, PieceEffects DEF DbError, Abort, TypeOK, Control, Roles, Ops
  <2> QED BY <2>1, <2>2 DEF TypeInv
<1>34. ASSUME NEW p \in Requests, DeadlockDetected(p) PROVE TypeInv'
  <2>0. who[p] \in Users
    BY <1>34 DEF DeadlockDetected, Abort, Deadlocked, WaitsFor, At, Control
  <2>1. TypeOK'
    BY <1>34, <2>0, PieceTypes DEF DeadlockDetected, Abort, Deadlocked, WaitsFor, At, TypeOK, Control, Ids, Steps, Roles
  <2>2. Control'
    BY <1>34, <2>0, PieceEffects DEF DeadlockDetected, Abort, Deadlocked, WaitsFor, At, TypeOK, Control, Roles, Ops
  <2> QED BY <2>1, <2>2 DEF TypeInv
<1>40. CASE Environment
  <2>1. TypeOK'
    <3>1. /\ UNCHANGED <<rowVars, lockVars, jwt, pc, reqVars, seenVars, delVars, bumped, verdict>>
          /\ owner' \in [Ids -> Users \cup {None}] /\ expired' \subseteq Ids
          /\ tvCache' \in [Users -> Nat \cup {None}]
      BY <1>40 DEF Environment, CleanupExpired, CacheExpires, TokenExpires, TypeOK, Ids
    <3> QED BY <3>1 DEF TypeOK
  <2>2. Control'
    BY <1>40 DEF Environment, CleanupExpired, CacheExpires, TokenExpires, Control
  <2> QED BY <2>1, <2>2 DEF TypeInv
<1>41. CASE UNCHANGED vars
  BY <1>41 DEF vars, TypeInv, TypeOK, Control
<1> QED
  BY <1>1, <1>2, <1>3, <1>4, <1>5, <1>6, <1>7, <1>8, <1>9, <1>10, <1>11, <1>12,
     <1>13, <1>14, <1>15, <1>16, <1>17, <1>18, <1>19, <1>20, <1>21, <1>22,
     <1>23, <1>24, <1>25, <1>26, <1>27, <1>28, <1>29, <1>30, <1>31, <1>32,
     <1>33, <1>34, <1>40, <1>41
     DEF Next, Step, Delete, Login, Refresh, LogoutAll, ChangePassword, Reset,
         UpdateRole, DeleteUser, Verify

(* Every variable of the session model keeps its type in every reachable   *)
(* state, for any number of accounts and requests: in particular every JWT *)
(* is signed with a version and a role read from a users row, by whichever *)
(* handler signs it.                                                       *)
THEOREM TypeCorrect == Spec => []TypeOK
<1>1. TypeInv => TypeOK
  BY DEF TypeInv
<1> QED BY <1>1, TypeInvInit, TypeInvNext, PTL DEF Spec


(* The pieces again, as what each changes at every point of a variable *)
LEMMA PieceMeaning ==
  ASSUME TypeOK, NEW p \in Requests, who[p] \in Users
  PROVE  /\ \A s : Goto(p, s) =>
              \A q \in Requests : pc'[q] = IF q = p THEN s ELSE pc[q]
         /\ ReadRow(p) => \A q \in Requests :
              seenVer'[q] = IF q = p THEN ver[who[p]] ELSE seenVer[q]
         /\ Release(p) => \A t \in Ids :
              tokLock'[t] = IF tokLock[t] = p THEN None ELSE tokLock[t]
         /\ \A ins, t \in Ids : RowsAfter(p, ins)[t] =
              IF t \in ins THEN who[p] ELSE IF tokLock[t] = p THEN None ELSE owner[t]
         /\ Bump(p) =>
              /\ \A u \in Users : ver'[u] = IF u = who[p] THEN ver[u] + 1 ELSE ver[u]
              /\ \A q \in Requests :
                   bumped'[q] = IF q = p THEN ver[who[p]] + 1 ELSE bumped[q]
         /\ \A v \in Nat, r \in Roles : Sign(p, v, r) =>
              \A i \in Ids : jwt'[i] =
                IF i = p THEN [user |-> who[p], ver |-> v, role |-> r] ELSE jwt[i]
<1>1. \A s : Goto(p, s) => \A q \in Requests : pc'[q] = IF q = p THEN s ELSE pc[q]
  BY DEF TypeOK, Goto
<1>2. ReadRow(p) => \A q \in Requests :
        seenVer'[q] = IF q = p THEN ver[who[p]] ELSE seenVer[q]
  BY DEF TypeOK, ReadRow
<1>3. Release(p) => \A t \in Ids :
        tokLock'[t] = IF tokLock[t] = p THEN None ELSE tokLock[t]
  BY DEF TypeOK, Release
<1>4. \A ins, t \in Ids : RowsAfter(p, ins)[t] =
        IF t \in ins THEN who[p] ELSE IF tokLock[t] = p THEN None ELSE owner[t]
  BY DEF RowsAfter
<1>5. Bump(p) =>
        /\ \A u \in Users : ver'[u] = IF u = who[p] THEN ver[u] + 1 ELSE ver[u]
        /\ \A q \in Requests :
             bumped'[q] = IF q = p THEN ver[who[p]] + 1 ELSE bumped[q]
  BY DEF TypeOK, Bump
<1>6. \A v \in Nat, r \in Roles : Sign(p, v, r) =>
        \A i \in Ids : jwt'[i] =
          IF i = p THEN [user |-> who[p], ver |-> v, role |-> r] ELSE jwt[i]
  BY DEF TypeOK, Sign, Ids
<1> QED BY <1>1, <1>2, <1>3, <1>4, <1>5, <1>6

-----------------------------------------------------------------------------
(* Versions.  Nothing that was read, signed, cached or bumped is ahead of  *)
(* the row; so a new bump differs from every earlier one.                  *)
VersionInv ==
  /\ \A p \in Requests : who[p] \in Users =>
       seenVer[p] <= ver[who[p]] /\ bumped[p] <= ver[who[p]]
  /\ \A p \in Requests : pc[p] = "idle" => seenVer[p] = 0 /\ bumped[p] = 0
  /\ NothingAheadOfRow
  /\ NoLostBump

LEMMA VersionInvInit == Init => VersionInv
BY SessionsAssumption
   DEF Init, VersionInv, NothingAheadOfRow, NoLostBump, Ids

(* A request that takes a step has an account *)
LEMMA Busy ==
  ASSUME TypeOK, Control, NEW p \in Requests, pc[p] # "idle"
  PROVE  who[p] \in Users /\ ver[who[p]] \in Nat /\ role[who[p]] \in Roles
BY DEF TypeOK, Control

(* How a step of request p may change the versions that are around *)
VersionStep(p) ==
  /\ who' = who
  /\ \A q \in Requests : pc'[q] = "idle" => pc[q] = "idle" /\ q # p
  /\ \/ ver' = ver /\ bumped' = bumped
     \/ /\ \A u \in Users : ver'[u] = IF u = who[p] THEN ver[u] + 1 ELSE ver[u]
        /\ \A q \in Requests : bumped'[q] = IF q = p THEN ver[who[p]] + 1 ELSE bumped[q]
  /\ \A q \in Requests :
       seenVer'[q] = seenVer[q] \/ (q = p /\ seenVer'[q] = ver[who[q]])
  /\ \A i \in Ids : \/ jwt'[i] = jwt[i]
                    \/ jwt'[i].user = who[p] /\ jwt'[i].ver <= ver'[who[p]]
  /\ \A u \in Users : \/ tvCache'[u] \in {tvCache[u], None}
                      \/ tvCache'[u] <= ver[u]

LEMMA VersionStepInv ==
  ASSUME TypeOK, TypeOK', VersionInv, NEW p \in Requests, who[p] \in Users, VersionStep(p)
  PROVE  VersionInv'
<1>t. /\ ver \in [Users -> Nat] /\ ver' \in [Users -> Nat]
      /\ bumped \in [Requests -> Nat] /\ seenVer \in [Requests -> Nat]
      /\ tvCache \in [Users -> Nat \cup {None}] /\ tvCache' \in [Users -> Nat \cup {None}]
  BY DEF TypeOK
<1>0. \A u \in Users : ver[u] \in Nat /\ ver'[u] \in Nat /\ ver[u] <= ver'[u]
  <2>1. CASE ver' = ver
    BY <1>t, <2>1
  <2>2. CASE \A u \in Users : ver'[u] = IF u = who[p] THEN ver[u] + 1 ELSE ver[u]
    BY <1>t, <2>2
  <2> QED BY <2>1, <2>2 DEF VersionStep
<1>1. ASSUME NEW q \in Requests, who[q] \in Users
      PROVE  seenVer'[q] <= ver'[who[q]] /\ bumped'[q] <= ver'[who[q]]
  <2>1. ver[who[q]] <= ver'[who[q]] /\ ver[who[q]] \in Nat /\ ver'[who[q]] \in Nat
    BY <1>0, <1>1
  <2>2. seenVer[q] <= ver[who[q]] /\ bumped[q] <= ver[who[q]]
    BY <1>1 DEF VersionInv
  <2>3. seenVer'[q] <= ver'[who[q]]
    BY <1>t, <2>1, <2>2 DEF VersionStep
  <2>4. bumped'[q] = bumped[q] \/ bumped'[q] = ver'[who[q]]
    BY <1>1 DEF VersionStep
  <2> QED BY <1>t, <2>1, <2>2, <2>3, <2>4
<1>2. \A q \in Requests : pc'[q] = "idle" => seenVer'[q] = 0 /\ bumped'[q] = 0
  BY DEF VersionStep, VersionInv
<1>3. ASSUME NEW i \in Ids, jwt'[i] # None
      PROVE  jwt'[i].ver <= ver'[jwt'[i].user]
  <2>1. jwt'[i] \in Jwts
    BY <1>3 DEF TypeOK
  <2>2. CASE jwt'[i] = jwt[i]
    BY <1>0, <1>3, <2>1, <2>2 DEF VersionInv, NothingAheadOfRow, Jwts
  <2>3. CASE jwt'[i].user = who[p] /\ jwt'[i].ver <= ver'[who[p]]
    BY <2>3
  <2> QED BY <2>2, <2>3 DEF VersionStep
<1>4. \A u \in Users : tvCache'[u] # None => tvCache'[u] <= ver'[u]
  BY SessionsAssumption, <1>0, <1>t DEF VersionStep, VersionInv, NothingAheadOfRow
<1>5. NoLostBump'
  <2>1. CASE ver' = ver /\ bumped' = bumped
    BY <2>1 DEF VersionStep, VersionInv, NoLostBump
  <2>2. CASE \A q \in Requests : bumped'[q] = IF q = p THEN ver[who[p]] + 1 ELSE bumped[q]
    <3>1. \A q \in Requests : who[q] = who[p] => bumped[q] # ver[who[p]] + 1
      BY <1>t DEF VersionInv
    <3>2. who' = who /\ NoLostBump
      BY DEF VersionStep, VersionInv
    <3> QED BY <2>2, <3>1, <3>2 DEF NoLostBump
  <2> QED BY <2>1, <2>2 DEF VersionStep
<1> QED BY <1>1, <1>2, <1>3, <1>4, <1>5 DEF VersionStep, VersionInv, NothingAheadOfRow

LEMMA VersionInvNext == TypeInv /\ VersionInv /\ [Next]_vars => VersionInv'
<1> SUFFICES ASSUME TypeOK, Control, TypeOK', VersionInv, [Next]_vars PROVE VersionInv'
  BY TypeInvNext DEF TypeInv
<1> USE SessionsAssumption
<1> USE DEF rowVars, tokVars, lockVars, reqVars, seenVars, delVars
<1>1. ASSUME NEW p \in Requests, Begin(p) PROVE VersionInv'
  <2>1. \A q \in Requests : q # p => who'[q] = who[q] /\ pc'[q] = pc[q]
    BY <1>1 DEF Begin, Goto, TypeOK
  <2>2. pc[p] = "idle" /\ pc'[p] = "start"
    BY <1>1 DEF Begin, Goto, TypeOK
  <2>3. UNCHANGED <<ver, seenVer, bumped, jwt, tvCache>>
    BY <1>1 DEF Begin
  <2>4. ASSUME NEW q \in Requests, who'[q] \in Users
        PROVE  seenVer[q] <= ver[who'[q]] /\ bumped[q] <= ver[who'[q]]
    <3>1. CASE q = p
      <4>1. seenVer[q] = 0 /\ bumped[q] = 0
        BY <2>2, <3>1 DEF VersionInv
      <4>2. ver[who'[q]] \in Nat
        BY <2>4 DEF TypeOK
      <4> QED BY <4>1, <4>2
    <3>2. CASE q # p
      BY <2>1, <2>4, <3>2 DEF VersionInv
    <3> QED BY <3>1, <3>2
  <2>5. NoLostBump'
    <3>1. bumped[p] = 0 /\ NoLostBump
      BY <2>2 DEF VersionInv
    <3> QED BY <2>1, <2>3, <3>1 DEF NoLostBump
  <2> QED BY <2>1, <2>2, <2>3, <2>4, <2>5 DEF VersionInv, NothingAheadOfRow
<1>2. ASSUME NEW p \in Requests, DeleteSnapshot(p) PROVE VersionInv'
  <2>1. UNCHANGED <<ver, seenVer, bumped, jwt, tvCache, who>>
    BY <1>2 DEF DeleteSnapshot
  <2>2. \A q \in Requests : pc'[q] = "idle" => pc[q] = "idle"
    BY <1>2 DEF DeleteSnapshot, Goto, TypeOK
  <2> QED BY <2>1, <2>2 DEF VersionInv, NothingAheadOfRow, NoLostBump
<1>3. ASSUME NEW p \in Requests, NEW t \in Ids, DeleteRow(p, t) PROVE VersionInv'
  <2>1. UNCHANGED <<ver, seenVer, bumped, jwt, tvCache, who>>
    BY <1>3 DEF DeleteRow
  <2>2. \A q \in Requests : pc'[q] = "idle" => pc[q] = "idle"
    BY <1>3 DEF DeleteRow, Goto, TypeOK
  <2> QED BY <2>1, <2>2 DEF VersionInv, NothingAheadOfRow, NoLostBump
<1>4. ASSUME NEW p \in Requests, DeleteEnd(p) PROVE VersionInv'
  <2>1. UNCHANGED <<ver, seenVer, bumped, jwt, tvCache, who>>
    BY <1>4 DEF DeleteEnd
  <2>2. \A q \in Requests : pc'[q] = "idle" => pc[q] = "idle"
    BY <1>4 DEF DeleteEnd, Goto, TypeOK
  <2> QED BY <2>1, <2>2 DEF VersionInv, NothingAheadOfRow, NoLostBump
<1>5. ASSUME NEW p \in Requests, LoginRead(p) PROVE VersionInv'
  <2>0. pc[p] # "idle"
    BY <1>5 DEF LoginRead, ReadUser, At, Finish
  <2>1. \A q \in Requests : pc'[q] = "idle" => pc[q] = "idle" /\ q # p
    BY <1>5, <2>0, Busy, PieceMeaning DEF LoginRead, ReadUser, At, Finish
  <2>2. jwt' = jwt \/ \E v \in Nat, r \in Roles : v = ver[who[p]] /\ Sign(p, v, r)
    BY <1>5, <2>0, Busy DEF LoginRead, ReadUser, At, Finish, TypeOK, Control
  <2>3. \A i \in Ids : jwt'[i] = jwt[i] \/ (jwt'[i].user = who[p] /\ jwt'[i].ver <= ver[who[p]])
    <3>1. CASE jwt' = jwt
      BY <3>1
    <3>2. ASSUME NEW v \in Nat, NEW r \in Roles, v = ver[who[p]], Sign(p, v, r)
          PROVE  \A i \in Ids : jwt'[i] = jwt[i] \/ (jwt'[i].user = who[p] /\ jwt'[i].ver <= ver[who[p]])
      <4>1. \A i \in Ids : jwt'[i] = IF i = p THEN [user |-> who[p], ver |-> v, role |-> r] ELSE jwt[i]
        BY <2>0, <3>2, Busy, PieceMeaning
      <4>2. v <= ver[who[p]]
        BY <2>0, <3>2, Busy
      <4> QED BY <4>1, <4>2
    <3> QED BY <2>2, <3>1, <3>2
  <2>4. VersionStep(p)
    BY <1>5, <2>0, <2>1, <2>3, Busy, PieceMeaning DEF LoginRead, ReadUser, At, Finish, VersionStep
  <2> QED BY <2>0, <2>4, Busy, VersionStepInv
<1>6. ASSUME NEW p \in Requests, LoginCommit(p) PROVE VersionInv'
  <2>0. pc[p] # "idle"
    BY <1>6 DEF LoginCommit, At, InsertAndCommit
  <2>1. \A q \in Requests : pc'[q] = "idle" => pc[q] = "idle" /\ q # p
    BY <1>6, <2>0, Busy, PieceMeaning DEF LoginCommit, At, InsertAndCommit
  <2>2. jwt' = jwt \/ \E v \in Nat, r \in Roles : v = seenVer[p] /\ Sign(p, v, r)
    BY <1>6, <2>0, Busy DEF LoginCommit, At, InsertAndCommit, TypeOK, Control
  <2>s. seenVer[p] <= ver[who[p]]
    BY <2>0, Busy DEF VersionInv
  <2>3. \A i \in Ids : jwt'[i] = jwt[i] \/ (jwt'[i].user = who[p] /\ jwt'[i].ver <= ver[who[p]])
    <3>1. CASE jwt' = jwt
      BY <3>1
    <3>2. ASSUME NEW v \in Nat, NEW r \in Roles, v = seenVer[p], Sign(p, v, r)
          PROVE  \A i \in Ids : jwt'[i] = jwt[i] \/ (jwt'[i].user = who[p] /\ jwt'[i].ver <= ver[who[p]])
      <4>1. \A i \in Ids : jwt'[i] = IF i = p THEN [user |-> who[p], ver |-> v, role |-> r] ELSE jwt[i]
        BY <2>0, <3>2, Busy, PieceMeaning
      <4>2. v <= ver[who[p]]
        BY <2>0, <3>2, Busy, <2>s
      <4> QED BY <4>1, <4>2
    <3> QED BY <2>2, <3>1, <3>2
  <2>4. VersionStep(p)
    BY <1>6, <2>0, <2>1, <2>3, Busy, PieceMeaning DEF LoginCommit, At, InsertAndCommit, VersionStep
  <2> QED BY <2>0, <2>4, Busy, VersionStepInv
<1>7. ASSUME NEW p \in Requests, RotateLock(p) PROVE VersionInv'
  <2>1. UNCHANGED <<ver, seenVer, bumped, jwt, tvCache, who>>
    BY <1>7 DEF RotateLock, At
  <2>2. \A q \in Requests : pc'[q] = "idle" => pc[q] = "idle"
    BY <1>7 DEF RotateLock, At, Goto, TypeOK
  <2> QED BY <2>1, <2>2 DEF VersionInv, NothingAheadOfRow, NoLostBump
<1>8. ASSUME NEW p \in Requests, RotateRefused(p) PROVE VersionInv'
  <2>1. UNCHANGED <<ver, seenVer, bumped, jwt, tvCache, who>>
    BY <1>8 DEF RotateRefused, At, Finish
  <2>2. \A q \in Requests : pc'[q] = "idle" => pc[q] = "idle"
    BY <1>8 DEF RotateRefused, At, Finish, Goto, TypeOK
  <2> QED BY <2>1, <2>2 DEF VersionInv, NothingAheadOfRow, NoLostBump
<1>9. ASSUME NEW p \in Requests, RotateReadUser(p) PROVE VersionInv'
  <2>0. pc[p] # "idle"
    BY <1>9 DEF RotateReadUser, ReadUser
  <2>1. \A q \in Requests : pc'[q] = "idle" => pc[q] = "idle" /\ q # p
    BY <1>9, <2>0, Busy, PieceMeaning DEF RotateReadUser, ReadUser
  <2>2. VersionStep(p)
    BY <1>9, <2>0, <2>1, Busy, PieceMeaning DEF RotateReadUser, ReadUser, VersionStep, VersionInv, TypeOK
  <2> QED BY <2>0, <2>2, Busy, VersionStepInv
<1>10. ASSUME NEW p \in Requests, RotateCommit(p) PROVE VersionInv'
  <2>0. pc[p] # "idle"
    BY <1>10 DEF RotateCommit, At, InsertAndCommit
  <2>1. \A q \in Requests : pc'[q] = "idle" => pc[q] = "idle" /\ q # p
    BY <1>10, <2>0, Busy, PieceMeaning DEF RotateCommit, At, InsertAndCommit
  <2>2. jwt' = jwt \/ \E v \in Nat, r \in Roles : v = seenVer[p] /\ Sign(p, v, r)
    BY <1>10, <2>0, Busy DEF RotateCommit, At, InsertAndCommit, TypeOK, Control
  <2>s. seenVer[p] <= ver[who[p]]
    BY <2>0, Busy DEF VersionInv
  <2>3. \A i \in Ids : jwt'[i] = jwt[i] \/ (jwt'[i].user = who[p] /\ jwt'[i].ver <= ver[who[p]])
    <3>1. CASE jwt' = jwt
      BY <3>1
    <3>2. ASSUME NEW v \in Nat, NEW r \in Roles, v = seenVer[p], Sign(p, v, r)
          PROVE  \A i \in Ids : jwt'[i] = jwt[i] \/ (jwt'[i].user = who[p] /\ jwt'[i].ver <= ver[who[p]])
      <4>1. \A i \in Ids : jwt'[i] = IF i = p THEN [user |-> who[p], ver |-> v, role |-> r] ELSE jwt[i]
        BY <2>0, <3>2, Busy, PieceMeaning
      <4>2. v <= ver[who[p]]
        BY <2>0, <3>2, Busy, <2>s
      <4> QED BY <4>1, <4>2
    <3> QED BY <2>2, <3>1, <3>2
  <2>4. VersionStep(p)
    BY <1>10, <2>0, <2>1, <2>3, Busy, PieceMeaning DEF RotateCommit, At, InsertAndCommit, VersionStep
  <2> QED BY <2>0, <2>4, Busy, VersionStepInv
<1>11. ASSUME NEW p \in Requests, Logout(p) PROVE VersionInv'
  <2>1. UNCHANGED <<ver, seenVer, bumped, jwt, tvCache, who>>
    BY <1>11 DEF Logout, At
  <2>2. \A q \in Requests : pc'[q] = "idle" => pc[q] = "idle"
    BY <1>11 DEF Logout, At, Goto, TypeOK
  <2> QED BY <2>1, <2>2 DEF VersionInv, NothingAheadOfRow, NoLostBump
<1>12. ASSUME NEW p \in Requests, LogoutAllBegin(p) PROVE VersionInv'
  <2>1. UNCHANGED <<ver, seenVer, bumped, jwt, tvCache, who>>
    BY <1>12 DEF LogoutAllBegin, At
  <2>2. \A q \in Requests : pc'[q] = "idle" => pc[q] = "idle"
    BY <1>12 DEF LogoutAllBegin, At, Goto, TypeOK
  <2> QED BY <2>1, <2>2 DEF VersionInv, NothingAheadOfRow, NoLostBump
<1>13. ASSUME NEW p \in Requests, LogoutAllCommit(p) PROVE VersionInv'
  <2>0. pc[p] # "idle"
    BY <1>13 DEF LogoutAllCommit, At
  <2>1. \A q \in Requests : pc'[q] = "idle" => pc[q] = "idle" /\ q # p
    BY <1>13, <2>0, Busy, PieceMeaning DEF LogoutAllCommit, At
  <2>2. VersionStep(p)
    BY <1>13, <2>0, <2>1, Busy, PieceMeaning DEF LogoutAllCommit, At, VersionStep, VersionInv, TypeOK
  <2> QED BY <2>0, <2>2, Busy, VersionStepInv
<1>14. ASSUME NEW p \in Requests, ChangeRead(p) PROVE VersionInv'
  <2>1. UNCHANGED <<ver, seenVer, bumped, jwt, tvCache, who>>
    BY <1>14 DEF ChangeRead, At, Finish
  <2>2. \A q \in Requests : pc'[q] = "idle" => pc[q] = "idle"
    BY <1>14 DEF ChangeRead, At, Finish, Goto, TypeOK
  <2> QED BY <2>1, <2>2 DEF VersionInv, NothingAheadOfRow, NoLostBump
<1>15. ASSUME NEW p \in Requests, ChangeLock(p) PROVE VersionInv'
  <2>1. UNCHANGED <<ver, seenVer, bumped, jwt, tvCache, who>>
    BY <1>15 DEF ChangeLock, At
  <2>2. \A q \in Requests : pc'[q] = "idle" => pc[q] = "idle"
    BY <1>15 DEF ChangeLock, At, Goto, TypeOK
  <2> QED BY <2>1, <2>2 DEF VersionInv, NothingAheadOfRow, NoLostBump
<1>16. ASSUME NEW p \in Requests, ChangeCommit(p) PROVE VersionInv'
  <2>0. pc[p] # "idle"
    BY <1>16 DEF ChangeCommit, At
  <2>1. \A q \in Requests : pc'[q] = "idle" => pc[q] = "idle" /\ q # p
    BY <1>16, <2>0, Busy, PieceMeaning DEF ChangeCommit, At
  <2>2. VersionStep(p)
    BY <1>16, <2>0, <2>1, Busy, PieceMeaning DEF ChangeCommit, At, VersionStep, VersionInv, TypeOK
  <2> QED BY <2>0, <2>2, Busy, VersionStepInv
<1>17. ASSUME NEW p \in Requests, ResetRead(p) PROVE VersionInv'
  <2>1. UNCHANGED <<ver, seenVer, bumped, jwt, tvCache, who>>
    BY <1>17 DEF ResetRead, At, Finish
  <2>2. \A q \in Requests : pc'[q] = "idle" => pc[q] = "idle"
    BY <1>17 DEF ResetRead, At, Finish, Goto, TypeOK
  <2> QED BY <2>1, <2>2 DEF VersionInv, NothingAheadOfRow, NoLostBump
<1>18. ASSUME NEW p \in Requests, ResetClaim(p) PROVE VersionInv'
  <2>1. UNCHANGED <<ver, seenVer, bumped, jwt, tvCache, who>>
    BY <1>18 DEF ResetClaim, At
  <2>2. \A q \in Requests : pc'[q] = "idle" => pc[q] = "idle"
    BY <1>18 DEF ResetClaim, At, Goto, TypeOK
  <2> QED BY <2>1, <2>2 DEF VersionInv, NothingAheadOfRow, NoLostBump
<1>19. ASSUME NEW p \in Requests, ResetCommit(p) PROVE VersionInv'
  <2>0. pc[p] # "idle"
    BY <1>19 DEF ResetCommit, At
  <2>1. \A q \in Requests : pc'[q] = "idle" => pc[q] = "idle" /\ q # p
    BY <1>19, <2>0, Busy, PieceMeaning DEF ResetCommit, At
  <2>2. jwt' = jwt \/ \E v \in Nat, r \in Roles : v = ver[who[p]] + 1 /\ Sign(p, v, r)
    BY <1>19, <2>0, Busy DEF ResetCommit, At, TypeOK, Control
  <2>3. \A i \in Ids : jwt'[i] = jwt[i] \/ (jwt'[i].user = who[p] /\ jwt'[i].ver <= ver[who[p]] + 1)
    <3>1. CASE jwt' = jwt
      BY <3>1
    <3>2. ASSUME NEW v \in Nat, NEW r \in Roles, v = ver[who[p]] + 1, Sign(p, v, r)
          PROVE  \A i \in Ids : jwt'[i] = jwt[i] \/ (jwt'[i].user = who[p] /\ jwt'[i].ver <= ver[who[p]] + 1)
      <4>1. \A i \in Ids : jwt'[i] = IF i = p THEN [user |-> who[p], ver |-> v, role |-> r] ELSE jwt[i]
        BY <2>0, <3>2, Busy, PieceMeaning
      <4>2. v <= ver[who[p]] + 1
        BY <2>0, <3>2, Busy
      <4> QED BY <4>1, <4>2
    <3> QED BY <2>2, <3>1, <3>2
  <2>4. VersionStep(p)
    BY <1>19, <2>0, <2>1, <2>3, Busy, PieceMeaning DEF ResetCommit, At, VersionStep
  <2> QED BY <2>0, <2>4, Busy, VersionStepInv
<1>20. ASSUME NEW p \in Requests, UpdateRoleRead(p) PROVE VersionInv'
  <2>0. pc[p] # "idle"
    BY <1>20 DEF UpdateRoleRead, At
  <2>1. \A q \in Requests : pc'[q] = "idle" => pc[q] = "idle" /\ q # p
    BY <1>20, <2>0, Busy, PieceMeaning DEF UpdateRoleRead, At
  <2>2. VersionStep(p)
    BY <1>20, <2>0, <2>1, Busy, PieceMeaning DEF UpdateRoleRead, At, VersionStep, VersionInv, TypeOK
  <2> QED BY <2>0, <2>2, Busy, VersionStepInv
<1>21. ASSUME NEW p \in Requests, UpdateRolePlain(p) PROVE VersionInv'
  <2>1. UNCHANGED <<ver, seenVer, bumped, jwt, tvCache, who>>
    BY <1>21 DEF UpdateRolePlain
  <2>2. \A q \in Requests : pc'[q] = "idle" => pc[q] = "idle"
    BY <1>21 DEF UpdateRolePlain, Goto, TypeOK
  <2> QED BY <2>1, <2>2 DEF VersionInv, NothingAheadOfRow, NoLostBump
<1>22. ASSUME NEW p \in Requests, UpdateRoleLock(p) PROVE VersionInv'
  <2>1. UNCHANGED <<ver, seenVer, bumped, jwt, tvCache, who>>
    BY <1>22 DEF UpdateRoleLock, At
  <2>2. \A q \in Requests : pc'[q] = "idle" => pc[q] = "idle"
    BY <1>22 DEF UpdateRoleLock, At, Goto, TypeOK
  <2> QED BY <2>1, <2>2 DEF VersionInv, NothingAheadOfRow, NoLostBump
<1>23. ASSUME NEW p \in Requests, UpdateRoleCommit(p) PROVE VersionInv'
  <2>0. pc[p] # "idle"
    BY <1>23 DEF UpdateRoleCommit, At
  <2>1. \A q \in Requests : pc'[q] = "idle" => pc[q] = "idle" /\ q # p
    BY <1>23, <2>0, Busy, PieceMeaning DEF UpdateRoleCommit, At
  <2>2. VersionStep(p)
    BY <1>23, <2>0, <2>1, Busy, PieceMeaning DEF UpdateRoleCommit, At, VersionStep, VersionInv, TypeOK
  <2> QED BY <2>0, <2>2, Busy, VersionStepInv
<1>24. ASSUME NEW p \in Requests, DeleteUserRead(p) PROVE VersionInv'
  <2>1. UNCHANGED <<ver, seenVer, bumped, jwt, tvCache, who>>
    BY <1>24 DEF DeleteUserRead, At
  <2>2. \A q \in Requests : pc'[q] = "idle" => pc[q] = "idle"
    BY <1>24 DEF DeleteUserRead, At, Goto, TypeOK
  <2> QED BY <2>1, <2>2 DEF VersionInv, NothingAheadOfRow, NoLostBump
<1>25. ASSUME NEW p \in Requests, DeleteUserLock(p) PROVE VersionInv'
  <2>1. UNCHANGED <<ver, seenVer, bumped, jwt, tvCache, who>>
    BY <1>25 DEF DeleteUserLock, At
  <2>2. \A q \in Requests : pc'[q] = "idle" => pc[q] = "idle"
    BY <1>25 DEF DeleteUserLock, At, Goto, TypeOK
  <2> QED BY <2>1, <2>2 DEF VersionInv, NothingAheadOfRow, NoLostBump
<1>26. ASSUME NEW p \in Requests, DeleteUserCommit(p) PROVE VersionInv'
  <2>1. UNCHANGED <<ver, seenVer, bumped, jwt, tvCache, who>>
    BY <1>26 DEF DeleteUserCommit, At
  <2>2. \A q \in Requests : pc'[q] = "idle" => pc[q] = "idle"
    BY <1>26 DEF DeleteUserCommit, At, Goto, TypeOK
  <2> QED BY <2>1, <2>2 DEF VersionInv, NothingAheadOfRow, NoLostBump
<1>27. ASSUME NEW p \in Requests, Requery(p) PROVE VersionInv'
  <2>0. pc[p] # "idle"
    BY <1>27 DEF Requery, ReadUser
  <2>1. \A q \in Requests : pc'[q] = "idle" => pc[q] = "idle" /\ q # p
    BY <1>27, <2>0, Busy, PieceMeaning DEF Requery, ReadUser
  <2>2. VersionStep(p)
    BY <1>27, <2>0, <2>1, Busy, PieceMeaning DEF Requery, ReadUser, VersionStep, VersionInv, TypeOK
  <2> QED BY <2>0, <2>2, Busy, VersionStepInv
<1>28. ASSUME NEW p \in Requests, Invalidate(p) PROVE VersionInv'
  <2>0. pc[p] # "idle"
    BY <1>28 DEF Invalidate
  <2>1. \A q \in Requests : pc'[q] = "idle" => pc[q] = "idle" /\ q # p
    BY <1>28, <2>0, Busy, PieceMeaning DEF Invalidate
  <2>2. jwt' = jwt \/ \E v \in Nat, r \in Roles : v = seenVer[p] /\ Sign(p, v, r)
    BY <1>28, <2>0, Busy DEF Invalidate, TypeOK, Control
  <2>s. seenVer[p] <= ver[who[p]]
    BY <2>0, Busy DEF VersionInv
  <2>3. \A i \in Ids : jwt'[i] = jwt[i] \/ (jwt'[i].user = who[p] /\ jwt'[i].ver <= ver[who[p]])
    <3>1. CASE jwt' = jwt
      BY <3>1
    <3>2. ASSUME NEW v \in Nat, NEW r \in Roles, v = seenVer[p], Sign(p, v, r)
          PROVE  \A i \in Ids : jwt'[i] = jwt[i] \/ (jwt'[i].user = who[p] /\ jwt'[i].ver <= ver[who[p]])
      <4>1. \A i \in Ids : jwt'[i] = IF i = p THEN [user |-> who[p], ver |-> v, role |-> r] ELSE jwt[i]
        BY <2>0, <3>2, Busy, PieceMeaning
      <4>2. v <= ver[who[p]]
        BY <2>0, <3>2, Busy, <2>s
      <4> QED BY <4>1, <4>2
    <3> QED BY <2>2, <3>1, <3>2
  <2>c. \A u \in Users : tvCache'[u] \in {tvCache[u], None}
    BY <1>28 DEF Invalidate, TypeOK
  <2>4. VersionStep(p)
    BY <1>28, <2>0, <2>1, <2>3, <2>c, Busy, PieceMeaning DEF Invalidate, VersionStep
  <2> QED BY <2>0, <2>4, Busy, VersionStepInv
<1>29. ASSUME NEW p \in Requests, VerifyHit(p) PROVE VersionInv'
  <2>1. UNCHANGED <<ver, seenVer, bumped, jwt, tvCache, who>>
    BY <1>29 DEF VerifyHit, At
  <2>2. \A q \in Requests : pc'[q] = "idle" => pc[q] = "idle"
    BY <1>29 DEF VerifyHit, At, Goto, TypeOK
  <2> QED BY <2>1, <2>2 DEF VersionInv, NothingAheadOfRow, NoLostBump
<1>30. ASSUME NEW p \in Requests, VerifyMiss(p) PROVE VersionInv'
  <2>1. UNCHANGED <<ver, seenVer, bumped, jwt, tvCache, who>>
    BY <1>30 DEF VerifyMiss, At
  <2>2. \A q \in Requests : pc'[q] = "idle" => pc[q] = "idle"
    BY <1>30 DEF VerifyMiss, At, Goto, TypeOK
  <2> QED BY <2>1, <2>2 DEF VersionInv, NothingAheadOfRow, NoLostBump
<1>31. ASSUME NEW p \in Requests, VerifyRead(p) PROVE VersionInv'
  <2>0. pc[p] # "idle"
    BY <1>31 DEF VerifyRead, ReadUser
  <2>1. \A q \in Requests : pc'[q] = "idle" => pc[q] = "idle" /\ q # p
    BY <1>31, <2>0, Busy, PieceMeaning DEF VerifyRead, ReadUser
  <2>2. VersionStep(p)
    BY <1>31, <2>0, <2>1, Busy, PieceMeaning DEF VerifyRead, ReadUser, VersionStep, VersionInv, TypeOK
  <2> QED BY <2>0, <2>2, Busy, VersionStepInv
<1>32. ASSUME NEW p \in Requests, VerifySet(p) PROVE VersionInv'
  <2>0. pc[p] # "idle"
    BY <1>32 DEF VerifySet
  <2>1. \A q \in Requests : pc'[q] = "idle" => pc[q] = "idle" /\ q # p
    BY <1>32, <2>0, Busy, PieceMeaning DEF VerifySet
  <2>2. VersionStep(p)
    BY <1>32, <2>0, <2>1, Busy, PieceMeaning DEF VerifySet, VersionStep, VersionInv, TypeOK
  <2> QED BY <2>0, <2>2, Busy, VersionStepInv
<1>33. ASSUME NEW p \in Requests, DbError(p) PROVE VersionInv'
  <2>1. UNCHANGED <<ver, seenVer, bumped, jwt, tvCache, who>>
    BY <1>33 DEF DbError, Abort
  <2>2. \A q \in Requests : pc'[q] = "idle" => pc[q] = "idle"
    BY <1>33 DEF DbError, Abort, Goto, TypeOK
  <2> QED BY <2>1, <2>2 DEF VersionInv, NothingAheadOfRow, NoLostBump
<1>34. ASSUME NEW p \in Requests, DeadlockDetected(p) PROVE VersionInv'
  <2>1. UNCHANGED <<ver, seenVer, bumped, jwt, tvCache, who>>
    BY <1>34 DEF DeadlockDetected, Abort, Deadlocked, WaitsFor, At
  <2>2. \A q \in Requests : pc'[q] = "idle" => pc[q] = "idle"
    BY <1>34 DEF DeadlockDetected, Abort, Deadlocked, WaitsFor, At, Goto, TypeOK
  <2> QED BY <2>1, <2>2 DEF VersionInv, NothingAheadOfRow, NoLostBump
<1>35. CASE Environment
  <2>1. UNCHANGED <<ver, bumped, seenVer, jwt, pc, who>>
    BY <1>35 DEF Environment, CleanupExpired, CacheExpires, TokenExpires
  <2>2. \A u \in Users : tvCache'[u] \in {tvCache[u], None}
    BY <1>35 DEF Environment, CleanupExpired, CacheExpires, TokenExpires, TypeOK
  <2> QED BY <2>1, <2>2 DEF VersionInv, NothingAheadOfRow, NoLostBump
<1>36. CASE UNCHANGED vars
  BY <1>36 DEF vars, VersionInv, NothingAheadOfRow, NoLostBump
<1> QED
  BY <1>1, <1>2, <1>3, <1>4, <1>5, <1>6, <1>7, <1>8, <1>9, <1>10, <1>11, <1>12, <1>13, <1>14, <1>15, <1>16, <1>17, <1>18, <1>19, <1>20, <1>21, <1>22, <1>23, <1>24, <1>25, <1>26, <1>27, <1>28, <1>29, <1>30, <1>31, <1>32, <1>33, <1>34, <1>35, <1>36
     DEF Next, Step, Delete, Login, Refresh, LogoutAll, ChangePassword, Reset,
         UpdateRole, DeleteUser, Verify

(* Concurrent logout-all, password changes, resets and role changes never  *)
(* collapse into one token_version, whatever the interleaving and however  *)
(* many there are.                                                         *)
THEOREM BumpsAreNeverLost == Spec => []NoLostBump
<1>1. VersionInv => NoLostBump
  BY DEF VersionInv
<1>2. Init => TypeInv /\ VersionInv
  BY TypeInvInit, VersionInvInit
<1>3. TypeInv /\ VersionInv /\ [Next]_vars => (TypeInv /\ VersionInv)'
  BY TypeInvNext, VersionInvNext
<1> QED BY <1>1, <1>2, <1>3, PTL DEF Spec

(* No JWT and no cached version ever runs ahead of the users row, so the   *)
(* next bump of token_version outdates everything signed before it.        *)
THEOREM VersionsNeverAhead == Spec => []NothingAheadOfRow
<1>1. VersionInv => NothingAheadOfRow
  BY DEF VersionInv
<1>2. Init => TypeInv /\ VersionInv
  BY TypeInvInit, VersionInvInit
<1>3. TypeInv /\ VersionInv /\ [Next]_vars => (TypeInv /\ VersionInv)'
  BY TypeInvNext, VersionInvNext
<1> QED BY <1>1, <1>2, <1>3, PTL DEF Spec

-----------------------------------------------------------------------------
(* Refresh tokens.  A token once issued is never issued again; a row lock  *)
(* is held by an open transaction, on a row that exists; a rotation holds  *)
(* the row it will consume; and a DELETE has, of every row of its          *)
(* snapshot, visited it, locked it or found it gone.                       *)
Issued(t) == t \in Users \/ (t \in Requests /\ pc[t] = "done")

TokenOf(p) ==
  /\ \A t \in Ids : tokLock[t] = p =>
       owner[t] # None /\ pc[p] \in {"del", "ruser", "commit"}
  /\ pc[p] \in {"ruser", "commit"} /\ op[p] = "refresh" => tokLock[tok[p]] = p
  /\ pc[p] # "done" => owner[p] = None /\ jwt[p] = None
  /\ Rotated(p) => owner[tok[p]] = None /\ Issued(tok[p]) /\ tok[p] \in Ids
  /\ \A t \in saw[p] : Issued(t)
  /\ pc[p] \in {"del", "commit"} =>
       \A t \in saw[p] : t \in todo[p] \/ tokLock[t] = p \/ owner[t] = None
  /\ pc[p] \notin {"del", "done"} => todo[p] = {}
  /\ pc[p] \notin {"del", "commit", "requery", "inv", "done"} => saw[p] = {}
  /\ bumped[p] # 0 => pc[p] \in {"requery", "inv", "done"}
  /\ Revoker(p) /\ bumped[p] # 0 => \A t \in saw[p] : owner[t] = None

TokenInv ==
  /\ \A p \in Requests : TokenOf(p)
  /\ RefreshTokenSingleUse

LEMMA TokenInvInit == Init => TokenInv
BY SessionsAssumption
   DEF Init, TokenInv, TokenOf, Rotated, Issued, Revoker, RefreshTokenSingleUse, Ids

(* What a step of request p leaves alone of the other requests, and how it *)
(* may change rows and row locks                                           *)
TokenStep(p) ==
  /\ op' = op /\ tok' = tok
  /\ pc[p] \notin {"idle", "done"}
  /\ \A q \in Requests : q # p =>
       /\ pc'[q] = pc[q] /\ jwt'[q] = jwt[q] /\ bumped'[q] = bumped[q]
       /\ todo'[q] = todo[q] /\ saw'[q] = saw[q]
  /\ \A t \in Ids :
       \/ owner'[t] = owner[t]
       \/ owner'[t] = None /\ tokLock[t] \in {None, p} /\ tokLock'[t] = None
       \/ t = p /\ owner'[t] # None /\ pc'[p] = "done"
  /\ \A t \in Ids :
       \/ tokLock'[t] = tokLock[t]
       \/ tokLock[t] = p /\ tokLock'[t] = None
       \/ tokLock[t] = None /\ tokLock'[t] = p
  /\ Rotated(p)' => owner[tok[p]] # None

(* It is then enough to look at request p itself *)
LEMMA TokenStepInv ==
  ASSUME TypeOK, Control, TokenInv, NEW p \in Requests, TokenStep(p), TokenOf(p)'
  PROVE  TokenInv'
<1> USE SessionsAssumption
<1>1. \A t \in Ids : Issued(t) => Issued(t)' /\ t # p
  BY DEF Issued, TokenStep, Ids
<1>2. ASSUME NEW q \in Requests, q # p PROVE TokenOf(q)'
  <2> USE <1>2
  <2>0. TokenOf(q) /\ q \in Ids /\ saw[q] \subseteq Ids
    BY DEF TokenInv, TypeOK, Ids
  <2>u. /\ pc'[q] = pc[q] /\ jwt'[q] = jwt[q] /\ bumped'[q] = bumped[q]
        /\ todo'[q] = todo[q] /\ saw'[q] = saw[q] /\ op'[q] = op[q] /\ tok'[q] = tok[q]
    BY DEF TokenStep
  <2>n. \A t \in Ids : t # p /\ owner[t] = None => owner'[t] = None
    BY DEF TokenStep
  <2>l. \A t \in Ids : (tokLock'[t] = q <=> tokLock[t] = q)
    BY DEF TokenStep
  <2>1. \A t \in Ids : tokLock'[t] = q => owner'[t] # None /\ pc'[q] \in {"del", "ruser", "commit"}
    BY <2>0, <2>u, <2>l DEF TokenOf, TokenStep
  <2>2. pc'[q] \in {"ruser", "commit"} /\ op'[q] = "refresh" => tokLock'[tok'[q]] = q
    <3>1. pc[q] \in {"ruser", "commit"} /\ op[q] = "refresh" => tokLock[tok[q]] = q
      BY <2>0 DEF TokenOf
    <3>2. pc[q] \in {"ruser", "commit"} /\ op[q] = "refresh" => tok[q] \in Ids
      BY DEF Control
    <3> QED BY <3>1, <3>2, <2>u, <2>l
  <2>3. pc'[q] # "done" => owner'[q] = None /\ jwt'[q] = None
    BY <2>0, <2>u, <2>n DEF TokenOf
  <2>4. Rotated(q)' => owner'[tok'[q]] = None /\ Issued(tok[q])' /\ tok'[q] \in Ids
    BY <2>0, <2>u, <2>n, <1>1 DEF TokenOf, Rotated
  <2>5. \A t \in saw'[q] : Issued(t)'
    BY <2>0, <2>u, <1>1 DEF TokenOf
  <2>6. pc'[q] \in {"del", "commit"} =>
          \A t \in saw'[q] : t \in todo'[q] \/ tokLock'[t] = q \/ owner'[t] = None
    BY <2>0, <2>u, <2>n, <2>l, <1>1 DEF TokenOf
  <2>7. Revoker(q)' /\ bumped'[q] # 0 => \A t \in saw'[q] : owner'[t] = None
    BY <2>0, <2>u, <2>n, <1>1 DEF TokenOf, Revoker
  <2> QED
    BY <2>0, <2>u, <2>1, <2>2, <2>3, <2>4, <2>5, <2>6, <2>7 DEF TokenOf, Issued, TokenStep
<1>3. RefreshTokenSingleUse'
  <2>1. ASSUME NEW q \in Requests, q # p, Rotated(q)', Rotated(p)', tok'[p] = tok'[q] PROVE FALSE
    <3>1. Rotated(q) /\ tok[p] = tok[q]
      BY <2>1 DEF Rotated, TokenStep
    <3>2. owner[tok[q]] = None
      BY <3>1 DEF TokenInv, TokenOf
    <3> QED BY <2>1, <3>1, <3>2 DEF TokenStep
  <2>2. ASSUME NEW q \in Requests, NEW r \in Requests, q # p, r # p,
               Rotated(q)', Rotated(r)', tok'[q] = tok'[r]
        PROVE  q = r
    BY <2>2 DEF Rotated, TokenStep, TokenInv, RefreshTokenSingleUse
  <2> QED BY <2>1, <2>2 DEF RefreshTokenSingleUse
<1> QED BY <1>2, <1>3 DEF TokenInv

(* A row that exists belongs to an issued token *)
LEMMA OwnedIsIssued ==
  ASSUME TokenInv, NEW t \in Ids, owner[t] # None
  PROVE  Issued(t)
BY DEF TokenInv, TokenOf, Issued, Ids

(* A transaction of request p that commits: it deletes the rows it locked  *)
(* and inserts its own token or nothing                                    *)
LEMMA CommitTokens ==
  ASSUME TypeOK, Control, TokenInv, NEW p \in Requests, pc[p] = "commit",
         NEW ins \in {{}, {p}}, NEW s \in {"requery", "inv", "done"},
         ins = {p} => s = "done",
         owner' = RowsAfter(p, ins), Release(p), Goto(p, s),
         op' = op, tok' = tok, todo' = todo, saw' = saw,
         \A q \in Requests : q # p => bumped'[q] = bumped[q] /\ jwt'[q] = jwt[q],
         s # "done" => jwt'[p] = jwt[p]
  PROVE  TokenInv'
<1> USE SessionsAssumption
<1>0. TokenOf(p) /\ who[p] \in Users /\ p \in Ids /\ who[p] # None
  BY DEF TokenInv, Control, Ids
<1>1. /\ \A q \in Requests : pc'[q] = IF q = p THEN s ELSE pc[q]
      /\ \A t \in Ids : tokLock'[t] = IF tokLock[t] = p THEN None ELSE tokLock[t]
      /\ \A t \in Ids : owner'[t] =
           IF t \in ins THEN who[p] ELSE IF tokLock[t] = p THEN None ELSE owner[t]
  <2>1. \A q \in Requests : pc'[q] = IF q = p THEN s ELSE pc[q]
    BY DEF Goto, TypeOK
  <2>2. \A t \in Ids : tokLock'[t] = IF tokLock[t] = p THEN None ELSE tokLock[t]
    BY DEF Release
  <2>3. \A t \in Ids : owner'[t] =
           IF t \in ins THEN who[p] ELSE IF tokLock[t] = p THEN None ELSE owner[t]
    BY DEF RowsAfter
  <2> QED BY <2>1, <2>2, <2>3
<1>2. Rotated(p)' => /\ tok[p] \in Ids /\ tokLock[tok[p]] = p
                     /\ owner[tok[p]] # None /\ tok[p] # p
  <2>1. Rotated(p)' => op[p] = "refresh"
    BY DEF Rotated
  <2>2. op[p] = "refresh" => tok[p] \in Ids /\ tokLock[tok[p]] = p
    BY <1>0 DEF TokenOf, Control
  <2> QED BY <1>0, <2>1, <2>2 DEF TokenOf
<1>3. TokenStep(p)
  BY <1>0, <1>1, <1>2 DEF TokenStep, TypeOK
<1>4. \A t \in Ids : Issued(t) => Issued(t)' /\ t # p
  BY <1>1 DEF Issued, Ids
<1>5. ASSUME NEW t \in saw[p] PROVE Issued(t)' /\ owner'[t] = None
  <2>1. t \in Ids /\ Issued(t) /\ (tokLock[t] = p \/ owner[t] = None)
    BY <1>0 DEF TokenOf, TypeOK
  <2> QED BY <1>1, <1>4, <2>1
<1>6. Rotated(p)' => owner'[tok[p]] = None /\ Issued(tok[p])'
  BY <1>1, <1>2, <1>4, OwnedIsIssued
<1>7. /\ \A t \in Ids : tokLock'[t] # p
      /\ pc'[p] = s
      /\ s # "done" => owner'[p] = None /\ jwt'[p] = None
  BY <1>0, <1>1 DEF TokenOf
<1>8. TokenOf(p)'
  BY <1>0, <1>2, <1>5, <1>6, <1>7 DEF TokenOf
<1> QED BY <1>3, <1>8, TokenStepInv

(* A transaction of request p that rolls back *)
LEMMA RollbackTokens ==
  ASSUME TypeOK, Control, TokenInv, NEW p \in Requests,
         pc[p] \notin {"idle", "done"}, Release(p), Goto(p, "done"),
         op' = op, tok' = tok, todo' = todo, saw' = saw,
         owner' = owner, jwt' = jwt, bumped' = bumped
  PROVE  TokenInv'
<1> USE SessionsAssumption
<1>0. TokenOf(p) /\ who[p] \in Users /\ p \in Ids
  BY DEF TokenInv, Control, Ids
<1>1. /\ \A q \in Requests : pc'[q] = IF q = p THEN "done" ELSE pc[q]
      /\ \A t \in Ids : tokLock'[t] = IF tokLock[t] = p THEN None ELSE tokLock[t]
  BY <1>0, PieceMeaning
<1>2. ~Rotated(p)'
  BY <1>0 DEF TokenOf, Rotated
<1>3. TokenStep(p)
  BY <1>0, <1>1, <1>2 DEF TokenStep
<1>4. \A t \in Ids : Issued(t) => Issued(t)'
  BY <1>1 DEF Issued
<1>5. \A t \in saw[p] : Issued(t)'
  BY <1>0, <1>4 DEF TokenOf, TypeOK
<1>6. TokenOf(p)'
  BY <1>0, <1>1, <1>2, <1>5 DEF TokenOf, Revoker
<1> QED BY <1>3, <1>6, TokenStepInv

LEMMA TokenInvNext == TypeInv /\ TokenInv /\ [Next]_vars => TokenInv'
<1> SUFFICES ASSUME TypeOK, Control, TypeOK', TokenInv, [Next]_vars PROVE TokenInv'
  BY TypeInvNext DEF TypeInv
<1> USE SessionsAssumption
<1> USE DEF rowVars, tokVars, lockVars, reqVars, seenVars, delVars
<1>1. ASSUME NEW p \in Requests, Begin(p) PROVE TokenInv'
  <2>1. /\ pc[p] = "idle" /\ pc' = [pc EXCEPT ![p] = "start"]
        /\ UNCHANGED <<owner, tokLock, jwt, todo, saw, bumped>>
    BY <1>1 DEF Begin, Goto
  <2>2. \A q \in Requests : q # p => op'[q] = op[q] /\ tok'[q] = tok[q]
    BY <1>1 DEF Begin, TypeOK
  <2>3. \A t \in Ids : Issued(t) <=> Issued(t)'
    BY <2>1 DEF Issued, TypeOK
  <2>4. ASSUME NEW q \in Requests PROVE TokenOf(q)'
    <3>0. TokenOf(q)
      BY DEF TokenInv
    <3>1. CASE q = p
      BY <2>1, <3>0, <3>1 DEF TokenOf, Rotated, Revoker, TypeOK
    <3>2. CASE q # p
      <4>1. saw[q] \subseteq Ids /\ pc'[q] = pc[q]
        BY <2>1, <3>2 DEF TypeOK
      <4> QED BY <2>1, <2>2, <2>3, <3>0, <3>2, <4>1 DEF TokenOf, Rotated, Revoker
    <3> QED BY <3>1, <3>2
  <2>5. jwt[p] = None
    BY <2>1 DEF TokenInv, TokenOf
  <2>6. RefreshTokenSingleUse'
    BY <2>1, <2>2, <2>5 DEF RefreshTokenSingleUse, Rotated, TokenInv
  <2> QED BY <2>4, <2>6 DEF TokenInv
<1>2. ASSUME NEW p \in Requests, DeleteSnapshot(p) PROVE TokenInv'
  <2>0. pc[p] \notin {"idle", "done"} /\ who[p] \in Users /\ TokenOf(p)
    BY <1>2 DEF DeleteSnapshot, RowsOf, Control, TokenInv
  <2>1. TokenStep(p)
    BY <1>2, <2>0, PieceMeaning DEF DeleteSnapshot, RowsOf, TokenStep, TokenOf, Rotated, TypeOK, Control
  <2>2. /\ UNCHANGED <<owner, tokLock, op, tok, jwt, bumped>> /\ pc'[p] = "del" /\ pc[p] = "snap"
        /\ todo'[p] = RowsOf(who[p]) /\ saw'[p] = RowsOf(who[p])
    BY <1>2 DEF DeleteSnapshot, Goto, TypeOK
  <2>3. \A t \in RowsOf(who[p]) : t \in Ids /\ Issued(t)
    BY <2>0, OwnedIsIssued DEF RowsOf
  <2>4. \A t \in Ids : Issued(t) => Issued(t)'
    BY <1>2 DEF DeleteSnapshot, Goto, Issued, TypeOK
  <2>5. TokenOf(p)'
    BY <2>0, <2>2, <2>3, <2>4 DEF TokenOf, Rotated, Revoker
  <2> QED BY <2>1, <2>5, TokenStepInv
<1>3. ASSUME NEW p \in Requests, NEW t \in Ids, DeleteRow(p, t) PROVE TokenInv'
  <2>0. pc[p] \notin {"idle", "done"} /\ who[p] \in Users /\ TokenOf(p)
    BY <1>3 DEF DeleteRow, Control, TokenInv
  <2>1. TokenStep(p)
    BY <1>3, <2>0, PieceMeaning DEF DeleteRow, TokenStep, TokenOf, Rotated, TypeOK, Control
  <2>2. TokenOf(p)'
    BY <1>3, <2>0, PieceMeaning DEF DeleteRow, TokenOf, Rotated, Revoker, Issued, TypeOK, Control
  <2> QED BY <2>1, <2>2, TokenStepInv
<1>4. ASSUME NEW p \in Requests, DeleteEnd(p) PROVE TokenInv'
  <2>0. pc[p] \notin {"idle", "done"} /\ who[p] \in Users /\ TokenOf(p)
    BY <1>4 DEF DeleteEnd, Control, TokenInv
  <2>1. TokenStep(p)
    BY <1>4, <2>0, PieceMeaning DEF DeleteEnd, TokenStep, TokenOf, Rotated, TypeOK, Control
  <2>2a. /\ UNCHANGED <<owner, tokLock, op, tok, jwt, bumped, todo, saw>>
         /\ pc'[p] = "commit" /\ pc[p] = "del" /\ todo[p] = {}
    BY <1>4 DEF DeleteEnd, Goto, tokVars, lockVars, reqVars, delVars, TypeOK
  <2>2b. op[p] # "refresh"
    BY <2>2a DEF Control
  <2>2. /\ UNCHANGED <<owner, tokLock, op, tok, jwt, bumped, todo, saw>>
        /\ pc'[p] = "commit" /\ pc[p] = "del" /\ todo[p] = {} /\ op[p] # "refresh"
    BY <2>2a, <2>2b
  <2>3. \A t \in Ids : Issued(t) => Issued(t)'
    BY <1>4 DEF DeleteEnd, Goto, Issued, TypeOK
  <2>4. \A t \in saw[p] : Issued(t)'
    BY <2>0, <2>3 DEF TokenOf, TypeOK
  <2>5. TokenOf(p)'
    BY <2>0, <2>2, <2>4 DEF TokenOf, Rotated, Revoker
  <2> QED BY <2>1, <2>5, TokenStepInv
<1>5. ASSUME NEW p \in Requests, LoginRead(p) PROVE TokenInv'
  <2>0. pc[p] \notin {"idle", "done"} /\ who[p] \in Users /\ TokenOf(p)
    BY <1>5 DEF LoginRead, ReadUser, At, Finish, Control, TokenInv
  <2>1. /\ UNCHANGED <<owner, tokLock, op, tok, todo, saw, bumped>>
        /\ pc[p] \in {"start", "inv"}
        /\ \/ Goto(p, "done") /\ (Sign(p, ver[who[p]], role[who[p]]) \/ jwt' = jwt)
           \/ Goto(p, "snap") /\ jwt' = jwt /\ pc[p] = "start"
    BY <1>5 DEF LoginRead, ReadUser, At, Finish
  <2>2. op[p] # "refresh"
    BY <1>5, <2>0 DEF LoginRead, ReadUser, At, Finish
  <2>3. \A q \in Requests : q # p => jwt'[q] = jwt[q]
    BY <2>1 DEF Sign, TypeOK, Ids
  <2>4. \A q \in Requests : q # p => pc'[q] = pc[q]
    BY <2>1 DEF Goto, TypeOK
  <2>5. pc'[p] = "done" \/ (pc'[p] = "snap" /\ jwt' = jwt /\ pc[p] = "start")
    BY <2>1 DEF Goto, TypeOK
  <2>6. ~Rotated(p)'
    BY <2>0, <2>1, <2>2 DEF Rotated, TokenOf
  <2>7. TokenStep(p)
    BY <2>0, <2>1, <2>3, <2>4, <2>6 DEF TokenStep
  <2>8. TokenOf(p)'
    BY <2>0, <2>1, <2>4, <2>5, <2>6 DEF TokenOf, Revoker, Issued
  <2> QED BY <2>7, <2>8, TokenStepInv
<1>6. ASSUME NEW p \in Requests, LoginCommit(p) PROVE TokenInv'
  <2>0. pc[p] \notin {"idle", "done"} /\ who[p] \in Users /\ TokenOf(p)
    BY <1>6 DEF LoginCommit, At, InsertAndCommit, Control, TokenInv
  <2>1. /\ pc[p] = "commit" /\ Release(p) /\ Goto(p, "done")
        /\ op' = op /\ tok' = tok /\ todo' = todo /\ saw' = saw /\ bumped' = bumped
    BY <1>6 DEF LoginCommit, At, InsertAndCommit
  <2>2. CASE present[who[p]]
    <3>1. owner' = RowsAfter(p, {p}) /\ Sign(p, seenVer[p], seenRole[p])
      BY <1>6, <2>2 DEF LoginCommit, At, InsertAndCommit
    <3>2. \A q \in Requests : q # p => bumped'[q] = bumped[q] /\ jwt'[q] = jwt[q]
      BY <2>1, <3>1 DEF Sign, TypeOK, Ids
    <3> QED BY <2>1, <3>1, <3>2, CommitTokens
  <2>3. CASE ~present[who[p]]
    <3>1. owner' = owner /\ jwt' = jwt
      BY <1>6, <2>3 DEF LoginCommit, At, InsertAndCommit
    <3> QED BY <2>1, <3>1, RollbackTokens
  <2> QED BY <2>2, <2>3
<1>7. ASSUME NEW p \in Requests, RotateLock(p) PROVE TokenInv'
  <2>0. pc[p] \notin {"idle", "done"} /\ who[p] \in Users /\ TokenOf(p)
    BY <1>7 DEF RotateLock, At, Control, TokenInv
  <2>1. TokenStep(p)
    BY <1>7, <2>0, PieceMeaning DEF RotateLock, At, TokenStep, TokenOf, Rotated, TypeOK, Control
  <2>2. TokenOf(p)'
    BY <1>7, <2>0, PieceMeaning DEF RotateLock, At, TokenOf, Rotated, Revoker, Issued, TypeOK, Control
  <2> QED BY <2>1, <2>2, TokenStepInv
<1>8. ASSUME NEW p \in Requests, RotateRefused(p) PROVE TokenInv'
  <2>0. pc[p] \notin {"idle", "done"} /\ who[p] \in Users /\ TokenOf(p)
    BY <1>8 DEF RotateRefused, At, Finish, Control, TokenInv
  <2>1. TokenStep(p)
    BY <1>8, <2>0, PieceMeaning DEF RotateRefused, At, Finish, TokenStep, TokenOf, Rotated, TypeOK, Control
  <2>2. TokenOf(p)'
    BY <1>8, <2>0, PieceMeaning DEF RotateRefused, At, Finish, TokenOf, Rotated, Revoker, Issued, TypeOK, Control
  <2> QED BY <2>1, <2>2, TokenStepInv
<1>9. ASSUME NEW p \in Requests, RotateReadUser(p) PROVE TokenInv'
  <2>0. pc[p] \notin {"idle", "done"} /\ who[p] \in Users /\ TokenOf(p)
    BY <1>9 DEF RotateReadUser, ReadUser, Control, TokenInv
  <2>1. TokenStep(p)
    BY <1>9, <2>0, PieceMeaning DEF RotateReadUser, ReadUser, TokenStep, TokenOf, Rotated, TypeOK, Control
  <2>2. TokenOf(p)'
    BY <1>9, <2>0, PieceMeaning DEF RotateReadUser, ReadUser, TokenOf, Rotated, Revoker, Issued, TypeOK, Control
  <2> QED BY <2>1, <2>2, TokenStepInv
<1>10. ASSUME NEW p \in Requests, RotateCommit(p) PROVE TokenInv'
  <2>0. pc[p] \notin {"idle", "done"} /\ who[p] \in Users /\ TokenOf(p)
    BY <1>10 DEF RotateCommit, At, InsertAndCommit, Control, TokenInv
  <2>1. /\ pc[p] = "commit" /\ Release(p) /\ Goto(p, "done")
        /\ op' = op /\ tok' = tok /\ todo' = todo /\ saw' = saw /\ bumped' = bumped
    BY <1>10 DEF RotateCommit, At, InsertAndCommit
  <2>2. CASE present[who[p]]
    <3>1. owner' = RowsAfter(p, {p}) /\ Sign(p, seenVer[p], seenRole[p])
      BY <1>10, <2>2 DEF RotateCommit, At, InsertAndCommit
    <3>2. \A q \in Requests : q # p => bumped'[q] = bumped[q] /\ jwt'[q] = jwt[q]
      BY <2>1, <3>1 DEF Sign, TypeOK, Ids
    <3> QED BY <2>1, <3>1, <3>2, CommitTokens
  <2>3. CASE ~present[who[p]]
    <3>1. owner' = owner /\ jwt' = jwt
      BY <1>10, <2>3 DEF RotateCommit, At, InsertAndCommit
    <3> QED BY <2>1, <3>1, RollbackTokens
  <2> QED BY <2>2, <2>3
<1>11. ASSUME NEW p \in Requests, Logout(p) PROVE TokenInv'
  <2>0. pc[p] \notin {"idle", "done"} /\ who[p] \in Users /\ TokenOf(p)
    BY <1>11 DEF Logout, At, Control, TokenInv
  <2>1. TokenStep(p)
    BY <1>11, <2>0, PieceMeaning DEF Logout, At, TokenStep, TokenOf, Rotated, TypeOK, Control
  <2>2. TokenOf(p)'
    BY <1>11, <2>0, PieceMeaning DEF Logout, At, TokenOf, Rotated, Revoker, Issued, TypeOK, Control
  <2> QED BY <2>1, <2>2, TokenStepInv
<1>12. ASSUME NEW p \in Requests, LogoutAllBegin(p) PROVE TokenInv'
  <2>0. pc[p] \notin {"idle", "done"} /\ who[p] \in Users /\ TokenOf(p)
    BY <1>12 DEF LogoutAllBegin, At, Control, TokenInv
  <2>1. TokenStep(p)
    BY <1>12, <2>0, PieceMeaning DEF LogoutAllBegin, At, TokenStep, TokenOf, Rotated, TypeOK, Control
  <2>2. TokenOf(p)'
    BY <1>12, <2>0, PieceMeaning DEF LogoutAllBegin, At, TokenOf, Rotated, Revoker, Issued, TypeOK, Control
  <2> QED BY <2>1, <2>2, TokenStepInv
<1>13. ASSUME NEW p \in Requests, LogoutAllCommit(p) PROVE TokenInv'
  <2>0. pc[p] \notin {"idle", "done"} /\ who[p] \in Users /\ TokenOf(p)
    BY <1>13 DEF LogoutAllCommit, At, Control, TokenInv
  <2>1. /\ pc[p] = "commit" /\ owner' = RowsAfter(p, {}) /\ Release(p) /\ Goto(p, "inv")
        /\ op' = op /\ tok' = tok /\ todo' = todo /\ saw' = saw
    BY <1>13 DEF LogoutAllCommit, At
  <2>2. (Bump(p) \/ bumped' = bumped) /\ jwt' = jwt
    BY <1>13 DEF LogoutAllCommit, At
  <2>3. \A q \in Requests : q # p => bumped'[q] = bumped[q] /\ jwt'[q] = jwt[q]
    BY <2>0, <2>2 DEF Bump, TypeOK
  <2> QED BY <2>1, <2>2, <2>3, CommitTokens
<1>14. ASSUME NEW p \in Requests, ChangeRead(p) PROVE TokenInv'
  <2>0. pc[p] \notin {"idle", "done"} /\ who[p] \in Users /\ TokenOf(p)
    BY <1>14 DEF ChangeRead, At, Finish, Control, TokenInv
  <2>1. TokenStep(p)
    BY <1>14, <2>0, PieceMeaning DEF ChangeRead, At, Finish, TokenStep, TokenOf, Rotated, TypeOK, Control
  <2>2. TokenOf(p)'
    BY <1>14, <2>0, PieceMeaning DEF ChangeRead, At, Finish, TokenOf, Rotated, Revoker, Issued, TypeOK, Control
  <2> QED BY <2>1, <2>2, TokenStepInv
<1>15. ASSUME NEW p \in Requests, ChangeLock(p) PROVE TokenInv'
  <2>0. pc[p] \notin {"idle", "done"} /\ who[p] \in Users /\ TokenOf(p)
    BY <1>15 DEF ChangeLock, At, Control, TokenInv
  <2>1. TokenStep(p)
    BY <1>15, <2>0, PieceMeaning DEF ChangeLock, At, TokenStep, TokenOf, Rotated, TypeOK, Control
  <2>2. TokenOf(p)'
    BY <1>15, <2>0, PieceMeaning DEF ChangeLock, At, TokenOf, Rotated, Revoker, Issued, TypeOK, Control
  <2> QED BY <2>1, <2>2, TokenStepInv
<1>16. ASSUME NEW p \in Requests, ChangeCommit(p) PROVE TokenInv'
  <2>0. pc[p] \notin {"idle", "done"} /\ who[p] \in Users /\ TokenOf(p)
    BY <1>16 DEF ChangeCommit, At, Control, TokenInv
  <2>1. /\ pc[p] = "commit" /\ owner' = RowsAfter(p, {}) /\ Release(p) /\ Goto(p, "requery")
        /\ op' = op /\ tok' = tok /\ todo' = todo /\ saw' = saw
    BY <1>16 DEF ChangeCommit, At
  <2>2. (Bump(p) \/ bumped' = bumped) /\ jwt' = jwt
    BY <1>16 DEF ChangeCommit, At
  <2>3. \A q \in Requests : q # p => bumped'[q] = bumped[q] /\ jwt'[q] = jwt[q]
    BY <2>0, <2>2 DEF Bump, TypeOK
  <2> QED BY <2>1, <2>2, <2>3, CommitTokens
<1>17. ASSUME NEW p \in Requests, ResetRead(p) PROVE TokenInv'
  <2>0. pc[p] \notin {"idle", "done"} /\ who[p] \in Users /\ TokenOf(p)
    BY <1>17 DEF ResetRead, At, Finish, Control, TokenInv
  <2>1. TokenStep(p)
    BY <1>17, <2>0, PieceMeaning DEF ResetRead, At, Finish, TokenStep, TokenOf, Rotated, TypeOK, Control
  <2>2. TokenOf(p)'
    BY <1>17, <2>0, PieceMeaning DEF ResetRead, At, Finish, TokenOf, Rotated, Revoker, Issued, TypeOK, Control
  <2> QED BY <2>1, <2>2, TokenStepInv
<1>18. ASSUME NEW p \in Requests, ResetClaim(p) PROVE TokenInv'
  <2>0. pc[p] \notin {"idle", "done"} /\ who[p] \in Users /\ TokenOf(p)
    BY <1>18 DEF ResetClaim, At, Control, TokenInv
  <2>1. TokenStep(p)
    BY <1>18, <2>0, PieceMeaning DEF ResetClaim, At, TokenStep, TokenOf, Rotated, TypeOK, Control
  <2>2. TokenOf(p)'
    BY <1>18, <2>0, PieceMeaning DEF ResetClaim, At, TokenOf, Rotated, Revoker, Issued, TypeOK, Control
  <2> QED BY <2>1, <2>2, TokenStepInv
<1>19. ASSUME NEW p \in Requests, ResetCommit(p) PROVE TokenInv'
  <2>0. pc[p] \notin {"idle", "done"} /\ who[p] \in Users /\ TokenOf(p)
    BY <1>19 DEF ResetCommit, At, Control, TokenInv
  <2>1. /\ pc[p] = "commit" /\ owner' = RowsAfter(p, {}) /\ Release(p) /\ Goto(p, "done")
        /\ op' = op /\ tok' = tok /\ todo' = todo /\ saw' = saw
    BY <1>19 DEF ResetCommit, At
  <2>2. (Bump(p) \/ bumped' = bumped) /\ Sign(p, ver[who[p]] + 1, role[who[p]])
    BY <1>19 DEF ResetCommit, At
  <2>3. \A q \in Requests : q # p => bumped'[q] = bumped[q] /\ jwt'[q] = jwt[q]
    BY <2>0, <2>2 DEF Bump, TypeOK, Sign, Ids
  <2> QED BY <2>1, <2>2, <2>3, CommitTokens
<1>20. ASSUME NEW p \in Requests, UpdateRoleRead(p) PROVE TokenInv'
  <2>0. pc[p] \notin {"idle", "done"} /\ who[p] \in Users /\ TokenOf(p)
    BY <1>20 DEF UpdateRoleRead, At, Control, TokenInv
  <2>1. TokenStep(p)
    BY <1>20, <2>0, PieceMeaning DEF UpdateRoleRead, At, TokenStep, TokenOf, Rotated, TypeOK, Control
  <2>2. TokenOf(p)'
    BY <1>20, <2>0, PieceMeaning DEF UpdateRoleRead, At, TokenOf, Rotated, Revoker, Issued, TypeOK, Control
  <2> QED BY <2>1, <2>2, TokenStepInv
<1>21. ASSUME NEW p \in Requests, UpdateRolePlain(p) PROVE TokenInv'
  <2>0. pc[p] \notin {"idle", "done"} /\ who[p] \in Users /\ TokenOf(p)
    BY <1>21 DEF UpdateRolePlain, Control, TokenInv
  <2>1. TokenStep(p)
    BY <1>21, <2>0, PieceMeaning DEF UpdateRolePlain, TokenStep, TokenOf, Rotated, TypeOK, Control
  <2>2. TokenOf(p)'
    BY <1>21, <2>0, PieceMeaning DEF UpdateRolePlain, TokenOf, Rotated, Revoker, Issued, TypeOK, Control
  <2> QED BY <2>1, <2>2, TokenStepInv
<1>22. ASSUME NEW p \in Requests, UpdateRoleLock(p) PROVE TokenInv'
  <2>0. pc[p] \notin {"idle", "done"} /\ who[p] \in Users /\ TokenOf(p)
    BY <1>22 DEF UpdateRoleLock, At, Control, TokenInv
  <2>1. TokenStep(p)
    BY <1>22, <2>0, PieceMeaning DEF UpdateRoleLock, At, TokenStep, TokenOf, Rotated, TypeOK, Control
  <2>2. TokenOf(p)'
    BY <1>22, <2>0, PieceMeaning DEF UpdateRoleLock, At, TokenOf, Rotated, Revoker, Issued, TypeOK, Control
  <2> QED BY <2>1, <2>2, TokenStepInv
<1>23. ASSUME NEW p \in Requests, UpdateRoleCommit(p) PROVE TokenInv'
  <2>0. pc[p] \notin {"idle", "done"} /\ who[p] \in Users /\ TokenOf(p)
    BY <1>23 DEF UpdateRoleCommit, At, Control, TokenInv
  <2>1. TokenStep(p)
    BY <1>23, <2>0, PieceMeaning DEF UpdateRoleCommit, At, TokenStep, TokenOf, Rotated, TypeOK, Control
  <2>2. TokenOf(p)'
    <3>1. /\ pc[p] = "commit" /\ op[p] = "update_role"
          /\ UNCHANGED <<op, tok, owner, jwt, todo, saw>>
      BY <1>23 DEF UpdateRoleCommit, At
    <3>2. /\ \A q \in Requests : pc'[q] = IF q = p THEN "requery" ELSE pc[q]
          /\ \A t \in Ids : tokLock'[t] # p
      BY <1>23, <2>0, PieceMeaning DEF UpdateRoleCommit
    <3>3. \A t \in saw'[p] : Issued(t)'
      BY <2>0, <3>1, <3>2 DEF TokenOf, Issued
    <3> QED BY <2>0, <3>1, <3>2, <3>3 DEF TokenOf, Rotated, Revoker
  <2> QED BY <2>1, <2>2, TokenStepInv
<1>24. ASSUME NEW p \in Requests, DeleteUserRead(p) PROVE TokenInv'
  <2>0. pc[p] \notin {"idle", "done"} /\ who[p] \in Users /\ TokenOf(p)
    BY <1>24 DEF DeleteUserRead, At, Control, TokenInv
  <2>1. TokenStep(p)
    BY <1>24, <2>0, PieceMeaning DEF DeleteUserRead, At, TokenStep, TokenOf, Rotated, TypeOK, Control
  <2>2. TokenOf(p)'
    BY <1>24, <2>0, PieceMeaning DEF DeleteUserRead, At, TokenOf, Rotated, Revoker, Issued, TypeOK, Control
  <2> QED BY <2>1, <2>2, TokenStepInv
<1>25. ASSUME NEW p \in Requests, DeleteUserLock(p) PROVE TokenInv'
  <2>0. pc[p] \notin {"idle", "done"} /\ who[p] \in Users /\ TokenOf(p)
    BY <1>25 DEF DeleteUserLock, At, Control, TokenInv
  <2>1. TokenStep(p)
    BY <1>25, <2>0, PieceMeaning DEF DeleteUserLock, At, TokenStep, TokenOf, Rotated, TypeOK, Control
  <2>2. TokenOf(p)'
    BY <1>25, <2>0, PieceMeaning DEF DeleteUserLock, At, TokenOf, Rotated, Revoker, Issued, TypeOK, Control
  <2> QED BY <2>1, <2>2, TokenStepInv
<1>26. ASSUME NEW p \in Requests, DeleteUserCommit(p) PROVE TokenInv'
  <2>0. pc[p] \notin {"idle", "done"} /\ who[p] \in Users /\ TokenOf(p)
    BY <1>26 DEF DeleteUserCommit, At, Control, TokenInv
  <2>1. /\ pc[p] = "commit" /\ owner' = RowsAfter(p, {}) /\ Release(p) /\ Goto(p, "inv")
        /\ op' = op /\ tok' = tok /\ todo' = todo /\ saw' = saw
    BY <1>26 DEF DeleteUserCommit, At
  <2>2. bumped' = bumped /\ jwt' = jwt
    BY <1>26 DEF DeleteUserCommit, At
  <2>3. \A q \in Requests : q # p => bumped'[q] = bumped[q] /\ jwt'[q] = jwt[q]
    BY <2>0, <2>2 DEF Bump, TypeOK
  <2> QED BY <2>1, <2>2, <2>3, CommitTokens
<1>27. ASSUME NEW p \in Requests, Requery(p) PROVE TokenInv'
  <2>0. pc[p] \notin {"idle", "done"} /\ who[p] \in Users /\ TokenOf(p)
    BY <1>27 DEF Requery, ReadUser, Control, TokenInv
  <2>1. TokenStep(p)
    BY <1>27, <2>0, PieceMeaning DEF Requery, ReadUser, TokenStep, TokenOf, Rotated, TypeOK, Control
  <2>2. TokenOf(p)'
    BY <1>27, <2>0, PieceMeaning DEF Requery, ReadUser, TokenOf, Rotated, Revoker, Issued, TypeOK, Control
  <2> QED BY <2>1, <2>2, TokenStepInv
<1>28. ASSUME NEW p \in Requests, Invalidate(p) PROVE TokenInv'
  <2>0. pc[p] \notin {"idle", "done"} /\ who[p] \in Users /\ TokenOf(p)
    BY <1>28 DEF Invalidate, Control, TokenInv
  <2>1. /\ UNCHANGED <<owner, tokLock, op, tok, todo, saw, bumped>>
        /\ pc[p] \in {"start", "inv"}
        /\ \/ Goto(p, "done") /\ (Sign(p, seenVer[p], seenRole[p]) \/ jwt' = jwt)
           \/ Goto(p, "snap") /\ jwt' = jwt /\ pc[p] = "start"
    BY <1>28 DEF Invalidate
  <2>2. op[p] = "refresh" => jwt' = jwt
    BY <1>28 DEF Invalidate
  <2>3. \A q \in Requests : q # p => jwt'[q] = jwt[q]
    BY <2>1 DEF Sign, TypeOK, Ids
  <2>4. \A q \in Requests : q # p => pc'[q] = pc[q]
    BY <2>1 DEF Goto, TypeOK
  <2>5. pc'[p] = "done" \/ (pc'[p] = "snap" /\ jwt' = jwt /\ pc[p] = "start")
    BY <2>1 DEF Goto, TypeOK
  <2>6. ~Rotated(p)'
    BY <2>0, <2>1, <2>2 DEF Rotated, TokenOf
  <2>7. TokenStep(p)
    BY <2>0, <2>1, <2>3, <2>4, <2>6 DEF TokenStep
  <2>8. TokenOf(p)'
    BY <2>0, <2>1, <2>4, <2>5, <2>6 DEF TokenOf, Revoker, Issued
  <2> QED BY <2>7, <2>8, TokenStepInv
<1>29. ASSUME NEW p \in Requests, VerifyHit(p) PROVE TokenInv'
  <2>0. pc[p] \notin {"idle", "done"} /\ who[p] \in Users /\ TokenOf(p)
    BY <1>29 DEF VerifyHit, At, Control, TokenInv
  <2>1. TokenStep(p)
    BY <1>29, <2>0, PieceMeaning DEF VerifyHit, At, TokenStep, TokenOf, Rotated, TypeOK, Control
  <2>2. TokenOf(p)'
    BY <1>29, <2>0, PieceMeaning DEF VerifyHit, At, TokenOf, Rotated, Revoker, Issued, TypeOK, Control
  <2> QED BY <2>1, <2>2, TokenStepInv
<1>30. ASSUME NEW p \in Requests, VerifyMiss(p) PROVE TokenInv'
  <2>0. pc[p] \notin {"idle", "done"} /\ who[p] \in Users /\ TokenOf(p)
    BY <1>30 DEF VerifyMiss, At, Control, TokenInv
  <2>1. TokenStep(p)
    BY <1>30, <2>0, PieceMeaning DEF VerifyMiss, At, TokenStep, TokenOf, Rotated, TypeOK, Control
  <2>2. TokenOf(p)'
    BY <1>30, <2>0, PieceMeaning DEF VerifyMiss, At, TokenOf, Rotated, Revoker, Issued, TypeOK, Control
  <2> QED BY <2>1, <2>2, TokenStepInv
<1>31. ASSUME NEW p \in Requests, VerifyRead(p) PROVE TokenInv'
  <2>0. pc[p] \notin {"idle", "done"} /\ who[p] \in Users /\ TokenOf(p)
    BY <1>31 DEF VerifyRead, ReadUser, Control, TokenInv
  <2>1. TokenStep(p)
    BY <1>31, <2>0, PieceMeaning DEF VerifyRead, ReadUser, TokenStep, TokenOf, Rotated, TypeOK, Control
  <2>2. TokenOf(p)'
    BY <1>31, <2>0, PieceMeaning DEF VerifyRead, ReadUser, TokenOf, Rotated, Revoker, Issued, TypeOK, Control
  <2> QED BY <2>1, <2>2, TokenStepInv
<1>32. ASSUME NEW p \in Requests, VerifySet(p) PROVE TokenInv'
  <2>0. pc[p] \notin {"idle", "done"} /\ who[p] \in Users /\ TokenOf(p)
    BY <1>32 DEF VerifySet, Control, TokenInv
  <2>1. TokenStep(p)
    BY <1>32, <2>0, PieceMeaning DEF VerifySet, TokenStep, TokenOf, Rotated, TypeOK, Control
  <2>2. TokenOf(p)'
    BY <1>32, <2>0, PieceMeaning DEF VerifySet, TokenOf, Rotated, Revoker, Issued, TypeOK, Control
  <2> QED BY <2>1, <2>2, TokenStepInv
<1>33. ASSUME NEW p \in Requests, DbError(p) PROVE TokenInv'
  BY <1>33, RollbackTokens DEF DbError, Abort
<1>34. ASSUME NEW p \in Requests, DeadlockDetected(p) PROVE TokenInv'
  <2>0. pc[p] \notin {"idle", "done"}
    BY <1>34 DEF DeadlockDetected, Deadlocked, WaitsFor, At
  <2> QED BY <1>34, <2>0, RollbackTokens DEF DeadlockDetected, Abort
<1>35. CASE Environment
  <2>1. UNCHANGED <<op, tok, pc, tokLock, jwt, bumped, todo, saw>>
    BY <1>35 DEF Environment, CleanupExpired, CacheExpires, TokenExpires
  <2>2. \A t \in Ids : owner'[t] = owner[t] \/ (owner'[t] = None /\ tokLock[t] = None)
    BY <1>35 DEF Environment, CleanupExpired, CacheExpires, TokenExpires, TypeOK
  <2>3. ASSUME NEW q \in Requests PROVE TokenOf(q)'
    <3>1. TokenOf(q) /\ saw[q] \subseteq Ids /\ q \in Ids
      BY DEF TokenInv, TypeOK, Ids
    <3> QED BY <2>1, <2>2, <3>1 DEF TokenOf, Rotated, Revoker, Issued
  <2> QED BY <2>1, <2>3 DEF TokenInv, RefreshTokenSingleUse, Rotated
<1>36. CASE UNCHANGED vars
  BY <1>36 DEF vars, TokenInv, TokenOf, RefreshTokenSingleUse, Rotated, Revoker, Issued
<1> QED
  BY <1>1, <1>2, <1>3, <1>4, <1>5, <1>6, <1>7, <1>8, <1>9, <1>10, <1>11, <1>12, <1>13, <1>14, <1>15, <1>16, <1>17, <1>18, <1>19, <1>20, <1>21, <1>22, <1>23, <1>24, <1>25, <1>26, <1>27, <1>28, <1>29, <1>30, <1>31, <1>32, <1>33, <1>34, <1>35, <1>36
     DEF Next, Step, Delete, Login, Refresh, LogoutAll, ChangePassword, Reset,
         UpdateRole, DeleteUser, Verify

(* However many requests present one refresh token, in whatever order and  *)
(* with whatever failures in between, at most one of them gets new tokens  *)
(* for it.                                                                 *)
THEOREM RotationIsSingleUse == Spec => []RefreshTokenSingleUse
<1>1. TokenInv => RefreshTokenSingleUse
  BY DEF TokenInv
<1>2. Init => TypeInv /\ TokenInv
  BY TypeInvInit, TokenInvInit
<1>3. TypeInv /\ TokenInv /\ [Next]_vars => (TypeInv /\ TokenInv)'
  BY TypeInvNext, TokenInvNext
<1> QED BY <1>1, <1>2, <1>3, PTL DEF Spec

(* logout-all, a password change and a password reset end every refresh    *)
(* token that was committed when their DELETE began.                       *)
THEOREM RevocationIsComplete == Spec => []RevocationCoversSnapshot
<1>1. TokenInv => RevocationCoversSnapshot
  BY DEF TokenInv, TokenOf, RevocationCoversSnapshot
<1>2. Init => TypeInv /\ TokenInv
  BY TypeInvInit, TokenInvInit
<1>3. TypeInv /\ TokenInv /\ [Next]_vars => (TypeInv /\ TokenInv)'
  BY TypeInvNext, TokenInvNext
<1> QED BY <1>1, <1>2, <1>3, PTL DEF Spec

-----------------------------------------------------------------------------
(* Row locks.  The transactions that write a users row hold its lock from  *)
(* their UPDATE or DELETE on; what they checked then is true until they    *)
(* commit, for nobody else writes the row.                                 *)
Holds(p) ==
  /\ pc[p] \in {"snap", "del", "commit"}
  /\ op[p] \in {"change_password", "reset", "update_role", "delete"}

RowOf(p) ==
  /\ \A u \in Users : usrLock[u] = p <=> Holds(p) /\ who[p] = u
  /\ Holds(p) => present[who[p]]
  /\ Holds(p) /\ op[p] = "delete" /\ arg[p] = "admin" => role[who[p]] = "user"

RowInv == \A p \in Requests : RowOf(p)

(* How a step of request p may treat the users rows and their locks.       *)
RowStep(p) ==
  /\ UNCHANGED <<op, who, arg>>
  /\ \A q \in Requests : q # p => pc'[q] = pc[q]
  /\ \/ /\ usrLock' = usrLock /\ (Holds(p)' <=> Holds(p))
        /\ present' = present
        /\ \A u \in Users : role'[u] = role[u] \/ usrLock[u] = None
     \/ /\ usrLock[who[p]] = None /\ Holds(p)'
        /\ usrLock' = [usrLock EXCEPT ![who[p]] = p]
        /\ present' = present /\ role' = role /\ present[who[p]]
        /\ op[p] = "delete" /\ arg[p] = "admin" => role[who[p]] = "user"
     \/ /\ ~Holds(p)'
        /\ \A u \in Users : usrLock'[u] = IF usrLock[u] = p THEN None ELSE usrLock[u]
        /\ \A u \in Users : (present'[u] = present[u] /\ role'[u] = role[u]) \/ usrLock[u] = p

LEMMA RowStepInv ==
  ASSUME TypeOK, Control, RowInv, NEW p \in Requests, who[p] \in Users, RowStep(p)
  PROVE  RowInv'
<1> USE SessionsAssumption
<1> SUFFICES ASSUME NEW q \in Requests PROVE RowOf(q)'
  BY DEF RowInv
<1>0. RowOf(q) /\ RowOf(p) /\ q # None
  BY DEF RowInv
<1>1. op' = op /\ who' = who /\ arg' = arg /\ (q # p => (Holds(q)' <=> Holds(q)))
  BY DEF RowStep, Holds
<1>2. Holds(q) => who[q] \in Users
  BY DEF Control, Holds
<1>3. CASE /\ usrLock' = usrLock /\ (Holds(p)' <=> Holds(p))
           /\ present' = present
           /\ \A u \in Users : role'[u] = role[u] \/ usrLock[u] = None
  <2>1. Holds(q)' <=> Holds(q)
    BY <1>1, <1>3
  <2> QED BY <1>0, <1>1, <1>2, <1>3, <2>1 DEF RowOf
<1>4. CASE /\ usrLock[who[p]] = None /\ Holds(p)'
           /\ usrLock' = [usrLock EXCEPT ![who[p]] = p]
           /\ present' = present /\ role' = role /\ present[who[p]]
           /\ op[p] = "delete" /\ arg[p] = "admin" => role[who[p]] = "user"
  <2>1. \A u \in Users : usrLock'[u] = IF u = who[p] THEN p ELSE usrLock[u]
    BY <1>4 DEF TypeOK
  <2>2. CASE q = p
    BY <1>0, <1>1, <1>4, <2>1, <2>2 DEF RowOf
  <2>3. CASE q # p
    BY <1>0, <1>1, <1>4, <2>1, <2>3 DEF RowOf
  <2> QED BY <2>2, <2>3
<1>5. CASE /\ ~Holds(p)'
           /\ \A u \in Users : usrLock'[u] = IF usrLock[u] = p THEN None ELSE usrLock[u]
           /\ \A u \in Users : (present'[u] = present[u] /\ role'[u] = role[u]) \/ usrLock[u] = p
  <2>1. CASE q = p
    BY <1>0, <1>1, <1>5, <2>1 DEF RowOf
  <2>2. CASE q # p
    BY <1>0, <1>1, <1>2, <1>5, <2>2 DEF RowOf
  <2> QED BY <2>1, <2>2
<1> QED BY <1>3, <1>4, <1>5 DEF RowStep

(* Only a request that has arrived takes a step, and it stays the request  *)
(* it is                                                                   *)
LEMMA StepsKeepRequests ==
  ASSUME NEW p \in Requests, Step(p) \/ DbError(p) \/ DeadlockDetected(p)
  PROVE  /\ pc[p] # "idle" /\ UNCHANGED reqVars
         /\ pc' = pc \/ \E s : s # "idle" /\ pc' = [pc EXCEPT ![p] = s]
BY DEF Step, Delete, Login, Refresh, LogoutAll, ChangePassword, Reset, UpdateRole,
       DeleteUser, Verify, DeleteSnapshot, DeleteRow, DeleteEnd, LoginRead, LoginCommit,
       RotateLock, RotateRefused, RotateReadUser, RotateCommit, Logout, LogoutAllBegin,
       LogoutAllCommit, ChangeRead, ChangeLock, ChangeCommit, ResetRead, ResetClaim,
       ResetCommit, UpdateRoleRead, UpdateRolePlain, UpdateRoleLock, UpdateRoleCommit,
       DeleteUserRead, DeleteUserLock, DeleteUserCommit, VerifyHit, VerifyMiss, VerifyRead,
       VerifySet, Requery, Invalidate, DbError, DeadlockDetected, Deadlocked, WaitsFor, At,
       Finish, InsertAndCommit, Abort, Goto

LEMMA StepsKeepRows ==
  ASSUME TypeOK, Control, RowInv, NEW p \in Requests,
         Step(p) \/ DbError(p) \/ DeadlockDetected(p)
  PROVE  who[p] \in Users /\ RowStep(p)
<1> USE SessionsAssumption
<1> USE DEF At, rowVars, tokVars, lockVars, reqVars, seenVars, delVars
<1>1. who[p] \in Users /\ op[p] \in Ops
  BY StepsKeepRequests DEF Control
<1>g. \A s : Goto(p, s) => \A q \in Requests : pc'[q] = IF q = p THEN s ELSE pc[q]
  BY <1>1, PieceMeaning
<1>r. Release(p) => \A u \in Users : usrLock'[u] = IF usrLock[u] = p THEN None ELSE usrLock[u]
  BY DEF Release
<1>2. CASE Delete(p) \/ LoginRead(p) \/ RotateLock(p) \/ RotateRefused(p) \/ Logout(p)
  BY <1>1, <1>2, <1>g DEF RowStep, Holds, Control, Delete, DeleteSnapshot, DeleteRow, DeleteEnd,
     LoginRead, RotateLock, RotateRefused, Logout, Finish
<1>3. CASE LogoutAllBegin(p) \/ ChangeRead(p) \/ ResetRead(p) \/ UpdateRoleRead(p) \/ DeleteUserRead(p)
  BY <1>1, <1>3, <1>g DEF RowStep, Holds, LogoutAllBegin, ChangeRead, ResetRead,
     UpdateRoleRead, DeleteUserRead, Finish
<1>4. CASE UpdateRolePlain(p)
  <2>1. \A u \in Users : role'[u] = role[u] \/ usrLock[u] = None
    BY <1>1, <1>4 DEF UpdateRolePlain, TypeOK
  <2> QED BY <1>1, <1>4, <1>g, <2>1 DEF RowStep, Holds, UpdateRolePlain
<1>5. CASE Verify(p) \/ Requery(p) \/ Invalidate(p)
  BY <1>1, <1>5, <1>g DEF RowStep, Holds, Control, Verify, VerifyHit, VerifyMiss,
     VerifyRead, VerifySet, Requery, Invalidate
<1>6. CASE ChangeLock(p) \/ ResetClaim(p) \/ UpdateRoleLock(p) \/ DeleteUserLock(p)
  BY <1>1, <1>6, <1>g DEF RowStep, Holds, ChangeLock, ResetClaim, UpdateRoleLock, DeleteUserLock
<1>7. CASE LoginCommit(p) \/ RotateCommit(p)
  BY <1>1, <1>7, <1>g, <1>r DEF RowStep, Holds, LoginCommit, RotateCommit, InsertAndCommit
<1>8. CASE RotateReadUser(p)
  BY <1>1, <1>8, <1>g, <1>r DEF RowStep, Holds, RotateReadUser, ReadUser, Control
<1>9. CASE LogoutAllCommit(p)
  BY <1>1, <1>9, <1>g, <1>r DEF RowStep, Holds, LogoutAllCommit
<1>10. CASE ChangeCommit(p) \/ ResetCommit(p)
  BY <1>1, <1>10, <1>g, <1>r DEF RowStep, Holds, ChangeCommit, ResetCommit
<1>11. CASE UpdateRoleCommit(p) \/ DeleteUserCommit(p)
  <2>1. usrLock[who[p]] = p
    BY <1>1, <1>11 DEF RowInv, RowOf, Holds, UpdateRoleCommit, DeleteUserCommit
  <2>2. \A u \in Users : (present'[u] = present[u] /\ role'[u] = role[u]) \/ usrLock[u] = p
    BY <1>1, <1>11, <2>1 DEF UpdateRoleCommit, DeleteUserCommit, TypeOK
  <2> QED BY <1>1, <1>11, <1>g, <1>r, <2>2 DEF RowStep, Holds, UpdateRoleCommit, DeleteUserCommit
<1>12. CASE DbError(p) \/ DeadlockDetected(p)
  BY <1>1, <1>12, <1>g, <1>r DEF RowStep, Holds, DbError, DeadlockDetected, Abort
<1> QED
  BY <1>1, <1>2, <1>3, <1>4, <1>5, <1>6, <1>7, <1>8, <1>9, <1>10, <1>11, <1>12
     DEF Step, Login, Refresh, LogoutAll, ChangePassword, Reset, UpdateRole, DeleteUser

LEMMA RowInvNext == TypeInv /\ RowInv /\ [Next]_vars => RowInv'
<1> SUFFICES ASSUME TypeOK, Control, RowInv, [Next]_vars PROVE RowInv'
  BY DEF TypeInv
<1> USE SessionsAssumption
<1>1. ASSUME NEW p \in Requests, Begin(p) PROVE RowInv'
  <2>1. UNCHANGED <<usrLock, present, role>> /\ pc[p] = "idle"
    BY <1>1 DEF Begin, rowVars, lockVars
  <2>2. \A q \in Requests : /\ pc'[q] = IF q = p THEN "start" ELSE pc[q]
                            /\ q # p => op'[q] = op[q] /\ who'[q] = who[q] /\ arg'[q] = arg[q]
    BY <1>1 DEF Begin, Goto, TypeOK
  <2>3. ASSUME NEW q \in Requests PROVE RowOf(q)'
    <3>1. RowOf(q) /\ (Holds(q)' <=> Holds(q))
      BY <2>1, <2>2 DEF RowInv, Holds
    <3>2. CASE q = p
      BY <2>1, <3>1, <3>2 DEF RowOf, Holds
    <3>3. CASE q # p
      BY <2>1, <2>2, <3>1, <3>3 DEF RowOf
    <3> QED BY <3>2, <3>3
  <2> QED BY <2>3 DEF RowInv
<1>2. ASSUME NEW p \in Requests, Step(p) \/ DbError(p) \/ DeadlockDetected(p) PROVE RowInv'
  BY <1>2, StepsKeepRows, RowStepInv
<1>3. CASE Environment \/ UNCHANGED vars
  <2>1. UNCHANGED <<usrLock, present, role, pc, op, who, arg>>
    BY <1>3 DEF Environment, CleanupExpired, CacheExpires, TokenExpires, vars, rowVars,
       lockVars, reqVars
  <2> QED BY <2>1 DEF RowInv, RowOf, Holds
<1> QED BY <1>1, <1>2, <1>3 DEF Next

LEMMA RowInvInit == Init => RowInv
BY SessionsAssumption DEF Init, RowInv, RowOf, Holds

(* What the admin's DELETE checked in its WHERE clause is still true when  *)
(* it commits, whatever role changes are under way.                        *)
THEOREM AdminsDeleteOnlyUsers == Spec => AdminDeletesOnlyUsers
<1>1. RowInv => \A p \in Requests :
                  DeleteUserCommit(p) /\ arg[p] = "admin" => role[who[p]] = "user"
  BY DEF RowInv, RowOf, Holds, DeleteUserCommit, At
<1>2. Init => TypeInv /\ RowInv
  BY TypeInvInit, RowInvInit
<1>3. TypeInv /\ RowInv /\ [Next]_vars => (TypeInv /\ RowInv)'
  BY TypeInvNext, RowInvNext
<1> QED BY <1>1, <1>2, <1>3, PTL DEF Spec, AdminDeletesOnlyUsers

-----------------------------------------------------------------------------
(* Roles.  A request that will sign a JWT from a row it read has the role  *)
(* that goes with the version it read, and an UPDATE that does not bump    *)
(* the version writes the role the row already has.                        *)
WillSign(p) ==
  \/ op[p] = "login" /\ pc[p] \in {"snap", "del", "commit"}
  \/ op[p] = "refresh" /\ pc[p] = "commit"
  \/ op[p] = "change_password" /\ pc[p] = "inv"

RoleInv ==
  /\ \A i \in Ids :
       /\ jwt[i] # None /\ RoleChangesApart(jwt[i].user) /\ jwt[i].ver = ver[jwt[i].user]
       => jwt[i].role = role[jwt[i].user]
  /\ \A p \in Requests :
       WillSign(p) /\ RoleChangesApart(who[p]) /\ seenVer[p] = ver[who[p]] =>
         seenRole[p] = role[who[p]]
  /\ \A p \in Requests :
       pc[p] = "plain" /\ RoleChangesApart(who[p]) => role[who[p]] = arg[p]
  /\ \A p, q \in Requests :
       Changing(p) /\ Changing(q) /\ who[p] = who[q] /\ p # q =>
         p \in rivals[q] \/ q \in rivals[p]

(* What a step of request p may do to roles, versions, JWTs and to what    *)
(* the request has read                                                    *)
RoleStep(p) ==
  /\ UNCHANGED <<op, who, arg>>
  /\ \A q \in Requests : q # p => /\ pc'[q] = pc[q] /\ rivals'[q] = rivals[q]
                                 /\ seenVer'[q] = seenVer[q] /\ seenRole'[q] = seenRole[q]
  /\ rivals[p] \subseteq rivals'[p]
  /\ Changing(p)' /\ ~Changing(p) =>
       \A q \in Requests : Changing(q) /\ who[q] = who[p] => q \in rivals'[p]
  /\ \A u \in Users : u # who[p] => ver'[u] = ver[u] /\ role'[u] = role[u]
  /\ \/ ver'[who[p]] = ver[who[p]] + 1
     \/ /\ ver'[who[p]] = ver[who[p]]
        /\ RoleChangesApart(who[p]) => role'[who[p]] = role[who[p]]
  /\ ~Changing(p) => role'[who[p]] = role[who[p]]
  /\ WillSign(p)' => \/ seenVer'[p] = ver'[who[p]] /\ seenRole'[p] = role'[who[p]]
                     \/ WillSign(p) /\ seenVer'[p] = seenVer[p] /\ seenRole'[p] = seenRole[p]
  /\ \A i \in Ids :
       \/ jwt'[i] = jwt[i]
       \/ jwt'[i] = [user |-> who[p], ver |-> ver'[who[p]], role |-> role'[who[p]]]
       \/ WillSign(p) /\ jwt'[i] = [user |-> who[p], ver |-> seenVer[p], role |-> seenRole[p]]
  /\ pc'[p] = "plain" => op[p] = "update_role" /\ role'[who[p]] = arg[p]

LEMMA RoleStepInv ==
  ASSUME TypeOK, TypeOK', Control, VersionInv, RoleInv, NEW p \in Requests,
         who[p] \in Users, RoleStep(p)
  PROVE  RoleInv'
<1> USE SessionsAssumption
<1>t. /\ ver \in [Users -> Nat] /\ ver' \in [Users -> Nat]
      /\ jwt \in [Ids -> Jwts \cup {None}] /\ jwt' \in [Ids -> Jwts \cup {None}]
      /\ seenVer \in [Requests -> Nat]
      /\ rivals \in [Requests -> SUBSET Requests]
  BY DEF TypeOK
<1>r. op' = op /\ who' = who /\ \A q \in Requests : rivals[q] \subseteq rivals'[q]
  BY DEF RoleStep
<1>0. \A u \in Users : RoleChangesApart(u)' => RoleChangesApart(u)
  BY <1>r DEF RoleChangesApart
<1>1. ASSUME NEW u \in Users, NEW v \in Nat, v <= ver[u], v = ver'[u], RoleChangesApart(u)
      PROVE  v = ver[u] /\ role'[u] = role[u]
  <2>1. CASE u # who[p]
    BY <1>1, <2>1 DEF RoleStep
  <2>2. CASE u = who[p]
    <3>1. ver[u] \in Nat
      BY <1>t
    <3>2. ver'[u] # ver[u] + 1
      BY <1>1, <3>1
    <3> QED BY <1>1, <2>2, <3>2 DEF RoleStep
  <2> QED BY <2>1, <2>2
<1>2. ASSUME NEW q \in Requests, who[q] \in Users, WillSign(q), RoleChangesApart(who[q]),
             seenVer[q] = ver'[who[q]]
      PROVE  seenRole[q] = role'[who[q]]
  <2>1. seenVer[q] \in Nat /\ seenVer[q] <= ver[who[q]]
    BY <1>2, <1>t DEF VersionInv
  <2>2. seenVer[q] = ver[who[q]] /\ role'[who[q]] = role[who[q]]
    BY <1>1, <1>2, <2>1
  <2> QED BY <1>2, <2>2 DEF RoleInv
<1>3. ASSUME NEW i \in Ids, jwt'[i] # None, RoleChangesApart(jwt[i].user)',
             jwt'[i].ver = ver'[jwt'[i].user]
      PROVE  jwt'[i].role = role'[jwt'[i].user]
  <2>0. jwt'[i] \in Jwts /\ jwt'[i].ver \in Nat /\ jwt'[i].user \in Users
    BY <1>3, <1>t DEF Jwts
  <2>u. RoleChangesApart(jwt'[i].user)
    BY <1>r, <1>3 DEF RoleChangesApart
  <2>1. CASE jwt'[i] = jwt[i]
    <3>1. jwt[i] # None /\ jwt[i] \in Jwts /\ jwt[i].ver \in Nat /\ jwt[i].user \in Users
      BY <1>3, <2>1, <2>0
    <3>2. jwt[i].ver <= ver[jwt[i].user]
      BY <3>1 DEF VersionInv, NothingAheadOfRow
    <3>3. RoleChangesApart(jwt[i].user) /\ jwt[i].ver = ver'[jwt[i].user]
      BY <1>3, <2>1, <2>u
    <3>4. jwt[i].ver = ver[jwt[i].user] /\ role'[jwt[i].user] = role[jwt[i].user]
      BY <1>1, <3>1, <3>2, <3>3
    <3> QED BY <2>1, <3>1, <3>3, <3>4 DEF RoleInv
  <2>2. CASE jwt'[i] = [user |-> who[p], ver |-> ver'[who[p]], role |-> role'[who[p]]]
    BY <2>2
  <2>3. CASE WillSign(p) /\ jwt'[i] = [user |-> who[p], ver |-> seenVer[p], role |-> seenRole[p]]
    <3>1. jwt'[i].user = who[p] /\ jwt'[i].ver = seenVer[p] /\ jwt'[i].role = seenRole[p]
      BY <2>3
    <3> QED BY <1>2, <1>3, <2>3, <2>u, <3>1
  <2> QED BY <2>1, <2>2, <2>3 DEF RoleStep
<1>4. ASSUME NEW q \in Requests, WillSign(q)', RoleChangesApart(who[q])', seenVer'[q] = ver'[who[q]]
      PROVE  seenRole'[q] = role'[who[q]]
  <2>1. who' = who /\ op' = op
    BY DEF RoleStep
  <2>2. CASE q = p
    <3>1. RoleChangesApart(who[p])
      BY <1>0, <1>4, <2>1, <2>2 DEF RoleChangesApart
    <3> QED BY <1>2, <1>4, <2>2, <3>1 DEF RoleStep
  <2>3. CASE q # p
    <3>1. WillSign(q) /\ seenVer'[q] = seenVer[q] /\ seenRole'[q] = seenRole[q]
      BY <1>4, <2>3 DEF RoleStep, WillSign
    <3>2. who[q] \in Users
      BY <3>1 DEF Control, WillSign
    <3>3. RoleChangesApart(who[q])
      BY <1>0, <1>4, <2>1, <3>2 DEF RoleChangesApart
    <3> QED BY <1>2, <1>4, <3>1, <3>2, <3>3
  <2> QED BY <2>2, <2>3
<1>5. ASSUME NEW q \in Requests, pc'[q] = "plain", RoleChangesApart(who[q])'
      PROVE  role'[who[q]] = arg[q]
  <2>1. CASE q = p
    BY <1>5, <2>1 DEF RoleStep
  <2>2. CASE q # p
    <3>1. pc[q] = "plain" /\ op[q] = "update_role" /\ who[q] \in Users
      BY <1>5, <2>2 DEF RoleStep, Control
    <3>2. RoleChangesApart(who[q])
      <4>1. who' = who /\ op' = op
        BY DEF RoleStep
      <4> QED BY <1>0, <1>5, <3>1, <4>1 DEF RoleChangesApart
    <3>3. role[who[q]] = arg[q]
      BY <3>1, <3>2 DEF RoleInv
    <3>4. CASE who[q] # who[p]
      BY <3>1, <3>3, <3>4 DEF RoleStep
    <3>5. CASE who[q] = who[p] /\ ~Changing(p)
      BY <3>3, <3>5 DEF RoleStep
    <3>6. ~(who[q] = who[p] /\ Changing(p))
      <4> SUFFICES ASSUME who[q] = who[p], Changing(p) PROVE FALSE
        OBVIOUS
      <4>1. p \in rivals[q] \/ q \in rivals[p]
        BY <2>2, <3>1 DEF RoleInv, Changing
      <4> QED BY <3>1, <3>2, <4>1 DEF RoleChangesApart, Changing
    <3> QED BY <3>4, <3>5, <3>6
  <2> QED BY <2>1, <2>2
<1>6. ASSUME NEW q \in Requests, NEW r \in Requests, Changing(q)', Changing(r)',
             who[q] = who[r], q # r
      PROVE  q \in rivals'[r] \/ r \in rivals'[q]
  <2>1. \A x \in Requests : x # p /\ Changing(x)' => Changing(x) /\ rivals'[x] = rivals[x]
    BY DEF RoleStep, Changing
  <2>2. \A x \in Requests : rivals[x] \subseteq rivals'[x]
    BY DEF RoleStep
  <2>3. CASE Changing(q) /\ Changing(r)
    BY <1>6, <2>2, <2>3 DEF RoleInv
  <2>4. CASE ~Changing(q)
    BY <1>6, <2>1, <2>4 DEF RoleStep
  <2>5. CASE ~Changing(r)
    BY <1>6, <2>1, <2>5 DEF RoleStep
  <2> QED BY <2>3, <2>4, <2>5
<1>7. who' = who /\ arg' = arg
  BY DEF RoleStep
<1> QED BY <1>3, <1>4, <1>5, <1>6, <1>7 DEF RoleInv

LEMMA StepsKeepRoles ==
  ASSUME TypeOK, Control, RoleInv, NEW p \in Requests,
         Step(p) \/ DbError(p) \/ DeadlockDetected(p)
  PROVE  who[p] \in Users /\ RoleStep(p)
<1> USE SessionsAssumption
<1> USE DEF At, Changing, rowVars, tokVars, lockVars, reqVars, seenVars, delVars
<1>1. who[p] \in Users /\ op[p] \in Ops
  BY StepsKeepRequests DEF Control
<1>g. \A s : Goto(p, s) => \A q \in Requests : pc'[q] = IF q = p THEN s ELSE pc[q]
  BY <1>1, PieceMeaning
<1>s. ReadUser(p) => rivals' = rivals /\ \A q \in Requests :
        /\ seenVer'[q] = IF q = p THEN ver[who[p]] ELSE seenVer[q]
        /\ seenRole'[q] = IF q = p THEN role[who[p]] ELSE seenRole[q]
  BY DEF ReadUser, ReadRow, TypeOK
<1>j. \A v, r : Sign(p, v, r) => \A i \in Ids : jwt'[i] = jwt[i]
                             \/ jwt'[i] = [user |-> who[p], ver |-> v, role |-> r]
  BY DEF Sign, TypeOK, Ids
<1>b. Bump(p) => \A u \in Users : ver'[u] = IF u = who[p] THEN ver[u] + 1 ELSE ver[u]
  BY DEF Bump, TypeOK
<1>2. CASE Delete(p) \/ RotateLock(p) \/ RotateRefused(p) \/ Logout(p)
  BY <1>1, <1>2, <1>g DEF RoleStep, WillSign, Control, Delete, DeleteSnapshot, DeleteRow,
     DeleteEnd, RotateLock, RotateRefused, Logout, Finish
<1>3. CASE LoginRead(p)
  BY <1>1, <1>3, <1>g, <1>s, <1>j DEF RoleStep, WillSign, LoginRead, Finish
<1>4. CASE LogoutAllBegin(p) \/ ChangeRead(p) \/ ResetRead(p) \/ DeleteUserRead(p)
  BY <1>1, <1>4, <1>g DEF RoleStep, WillSign, LogoutAllBegin, ChangeRead, ResetRead,
     DeleteUserRead, Finish
<1>5. CASE UpdateRoleRead(p)
  <2>1. ReadRow(p) => \A q \in Requests :
          /\ seenVer'[q] = IF q = p THEN ver[who[p]] ELSE seenVer[q]
          /\ seenRole'[q] = IF q = p THEN role[who[p]] ELSE seenRole[q]
    BY DEF ReadRow, TypeOK
  <2>2. \/ rivals' = rivals /\ pc'[p] = "done"
        \/ rivals' = [rivals EXCEPT ![p] =
                        @ \cup {q \in Requests : Changing(q) /\ who[q] = who[p]}]
    BY <1>5, <1>g DEF UpdateRoleRead
  <2>3. /\ \A q \in Requests : q # p => rivals'[q] = rivals[q]
        /\ rivals[p] \subseteq rivals'[p]
        /\ Changing(p)' => \A q \in Requests :
                             Changing(q) /\ who[q] = who[p] => q \in rivals'[p]
    BY <2>2 DEF TypeOK, Changing
  <2> QED BY <1>1, <1>5, <1>g, <2>1, <2>3 DEF RoleStep, WillSign, UpdateRoleRead
<1>6. CASE UpdateRolePlain(p)
  <2>1. op[p] = "update_role" /\ Changing(p)
    BY <1>6 DEF UpdateRolePlain, Control, Changing
  <2>2. RoleChangesApart(who[p]) => role'[who[p]] = role[who[p]]
    BY <1>1, <1>6 DEF UpdateRolePlain, RoleInv, TypeOK
  <2>3. \A u \in Users : u # who[p] => role'[u] = role[u]
    BY <1>1, <1>6 DEF UpdateRolePlain, TypeOK
  <2> QED BY <1>1, <1>6, <1>g, <2>1, <2>2, <2>3 DEF RoleStep, WillSign, UpdateRolePlain, Changing
<1>7. CASE VerifyHit(p) \/ VerifyMiss(p) \/ VerifyRead(p) \/ VerifySet(p)
  BY <1>1, <1>7, <1>g, <1>s DEF RoleStep, WillSign, Control, VerifyHit, VerifyMiss,
     VerifyRead, VerifySet
<1>8. CASE Requery(p)
  BY <1>1, <1>8, <1>g, <1>s DEF RoleStep, WillSign, Requery
<1>9. CASE Invalidate(p)
  BY <1>1, <1>9, <1>g, <1>j DEF RoleStep, WillSign, Invalidate
<1>10. CASE ChangeLock(p) \/ ResetClaim(p) \/ UpdateRoleLock(p) \/ DeleteUserLock(p)
  BY <1>1, <1>10, <1>g DEF RoleStep, WillSign, ChangeLock, ResetClaim, UpdateRoleLock,
     DeleteUserLock
<1>11. CASE LoginCommit(p) \/ RotateCommit(p)
  BY <1>1, <1>11, <1>g, <1>j DEF RoleStep, WillSign, LoginCommit, RotateCommit, InsertAndCommit
<1>12. CASE RotateReadUser(p)
  BY <1>1, <1>12, <1>g, <1>s DEF RoleStep, WillSign, RotateReadUser, Control
<1>13. CASE LogoutAllCommit(p) \/ ChangeCommit(p)
  BY <1>1, <1>13, <1>g, <1>b DEF RoleStep, WillSign, LogoutAllCommit, ChangeCommit
<1>14. CASE ResetCommit(p)
  BY <1>1, <1>14, <1>g, <1>b, <1>j DEF RoleStep, WillSign, ResetCommit
<1>15. CASE UpdateRoleCommit(p)
  <2>1. \A u \in Users : u # who[p] => role'[u] = role[u]
    BY <1>1, <1>15 DEF UpdateRoleCommit, TypeOK
  <2> QED BY <1>1, <1>15, <1>g, <1>b, <2>1 DEF RoleStep, WillSign, UpdateRoleCommit
<1>16. CASE DeleteUserCommit(p) \/ DbError(p) \/ DeadlockDetected(p)
  BY <1>1, <1>16, <1>g DEF RoleStep, WillSign, DeleteUserCommit, DbError, DeadlockDetected, Abort
<1> QED
  BY <1>1, <1>2, <1>3, <1>4, <1>5, <1>6, <1>7, <1>8, <1>9, <1>10, <1>11, <1>12, <1>13, <1>14,
     <1>15, <1>16
     DEF Step, Login, Refresh, LogoutAll, ChangePassword, Reset, UpdateRole, DeleteUser, Verify

LEMMA RoleInvInit == Init => RoleInv
BY SessionsAssumption DEF Init, RoleInv, WillSign, Changing, Ids, Jwts

LEMMA RoleInvNext == TypeInv /\ VersionInv /\ RoleInv /\ [Next]_vars => RoleInv'
<1> SUFFICES ASSUME TypeOK, Control, VersionInv, RoleInv, [Next]_vars, TypeOK'
             PROVE  RoleInv'
  BY TypeInvNext DEF TypeInv
<1> USE SessionsAssumption
<1>1. ASSUME NEW p \in Requests, Begin(p) PROVE RoleInv'
  <2>1. UNCHANGED <<role, ver, jwt, seenVer, seenRole, rivals>>
    BY <1>1 DEF Begin, rowVars, seenVars
  <2>2. /\ \A q \in Requests : pc'[q] = IF q = p THEN "start" ELSE pc[q]
        /\ \A q \in Requests : q # p => op'[q] = op[q] /\ who'[q] = who[q] /\ arg'[q] = arg[q]
    BY <1>1 DEF Begin, Goto, TypeOK
  <2>3. pc[p] = "idle" /\ op[p] # "update_role" /\ pc'[p] = "start"
    BY <1>1, <2>2 DEF Begin, Control, Ops
  <2>4. \A u : RoleChangesApart(u)' => RoleChangesApart(u)
    BY <2>1, <2>2, <2>3 DEF RoleChangesApart
  <2>5. \A q \in Requests : WillSign(q)' => WillSign(q) /\ q # p
    BY <2>2 DEF WillSign
  <2>6. \A q \in Requests : Changing(q)' => Changing(q) /\ q # p
    BY <2>2 DEF Changing
  <2>7. ASSUME NEW i \in Ids, jwt'[i] # None, RoleChangesApart(jwt[i].user)',
               jwt'[i].ver = ver'[jwt'[i].user]
        PROVE  jwt'[i].role = role'[jwt'[i].user]
    BY <2>1, <2>4, <2>7 DEF RoleInv
  <2>8. ASSUME NEW q \in Requests, WillSign(q)', RoleChangesApart(who[q])',
               seenVer'[q] = ver'[who'[q]]
        PROVE  seenRole'[q] = role'[who'[q]]
    BY <2>1, <2>2, <2>4, <2>5, <2>8 DEF RoleInv
  <2>9. ASSUME NEW q \in Requests, pc'[q] = "plain", RoleChangesApart(who[q])'
        PROVE  role'[who'[q]] = arg'[q]
    BY <2>1, <2>2, <2>4, <2>9 DEF RoleInv
  <2>10. ASSUME NEW q \in Requests, NEW r \in Requests, Changing(q)', Changing(r)',
                who'[q] = who'[r], q # r
         PROVE  q \in rivals'[r] \/ r \in rivals'[q]
    BY <2>1, <2>2, <2>6, <2>10 DEF RoleInv
  <2> QED BY <2>7, <2>8, <2>9, <2>10 DEF RoleInv
<1>2. ASSUME NEW p \in Requests, Step(p) \/ DbError(p) \/ DeadlockDetected(p) PROVE RoleInv'
  BY <1>2, StepsKeepRoles, RoleStepInv
<1>3. CASE Environment \/ UNCHANGED vars
  <2>1. UNCHANGED <<role, ver, jwt, seenVer, seenRole, rivals, pc, op, who, arg>>
    BY <1>3 DEF Environment, CleanupExpired, CacheExpires, TokenExpires, vars, rowVars,
       seenVars, reqVars
  <2> QED BY <2>1 DEF RoleInv, WillSign, RoleChangesApart, Changing
<1> QED BY <1>1, <1>2, <1>3 DEF Next

(* As long as no two role changes of an account overlap, a JWT at the row's *)
(* version carries the row's role: every later role change outdates the    *)
(* JWTs signed before it, however many there are.                          *)
THEOREM RolesFollowVersions == Spec => []HonouredJwtHasCurrentRole
<1>1. RoleInv => HonouredJwtHasCurrentRole
  BY DEF RoleInv, HonouredJwtHasCurrentRole
<1>2. Init => TypeInv /\ VersionInv /\ RoleInv
  BY TypeInvInit, VersionInvInit, RoleInvInit
<1>3. TypeInv /\ VersionInv /\ RoleInv /\ [Next]_vars => (TypeInv /\ VersionInv /\ RoleInv)'
  BY TypeInvNext, VersionInvNext, RoleInvNext
<1> QED BY <1>1, <1>2, <1>3, PTL DEF Spec

-----------------------------------------------------------------------------
(* Passwords.  Versions order the commits of an account, and the password  *)
(* in force was written by a commit that no other password write of the    *)
(* account came after.                                                     *)
PasswordStep(p) ==
  /\ UNCHANGED <<op, who>>
  /\ \/ UNCHANGED <<pw, bumped>>
     \/ /\ \A q \in Requests : bumped'[q] = IF q = p THEN ver[who[p]] + 1 ELSE bumped[q]
        /\ \/ pw' = pw /\ op[p] \notin {"change_password", "reset"}
           \/ pw' = [pw EXCEPT ![who[p]] = p]

LEMMA StepsOrderPasswords ==
  ASSUME TypeOK, Control, NEW p \in Requests, Step(p) \/ DbError(p) \/ DeadlockDetected(p)
  PROVE  who[p] \in Users /\ PasswordStep(p)
<1> USE SessionsAssumption
<1> USE DEF At, rowVars, tokVars, lockVars, reqVars, seenVars, delVars
<1>1. who[p] \in Users /\ UNCHANGED <<op, who>>
  BY StepsKeepRequests DEF Control
<1>b. Bump(p) => \A q \in Requests : bumped'[q] = IF q = p THEN ver[who[p]] + 1 ELSE bumped[q]
  BY DEF Bump, TypeOK
<1>2. CASE Delete(p) \/ Login(p) \/ Refresh(p) \/ Logout(p) \/ DeleteUser(p)
  BY <1>1, <1>2 DEF PasswordStep, Delete, DeleteSnapshot, DeleteRow, DeleteEnd, Login, LoginRead,
     LoginCommit, Refresh, RotateLock, RotateRefused, RotateReadUser, RotateCommit, Logout,
     DeleteUser, DeleteUserRead, DeleteUserLock, DeleteUserCommit, InsertAndCommit, Finish
<1>3. CASE LogoutAll(p)
  BY <1>1, <1>3, <1>b DEF PasswordStep, LogoutAll, LogoutAllBegin, LogoutAllCommit
<1>4. CASE ChangePassword(p) \/ Reset(p)
  BY <1>1, <1>4, <1>b DEF PasswordStep, ChangePassword, ChangeRead, ChangeLock, ChangeCommit,
     Reset, ResetRead, ResetClaim, ResetCommit, Finish
<1>5. CASE UpdateRole(p)
  BY <1>1, <1>5, <1>b DEF PasswordStep, UpdateRole, UpdateRoleRead, UpdateRolePlain,
     UpdateRoleLock, UpdateRoleCommit
<1>6. CASE Verify(p) \/ Requery(p) \/ Invalidate(p) \/ DbError(p) \/ DeadlockDetected(p)
  BY <1>1, <1>6 DEF PasswordStep, Verify, VerifyHit, VerifyMiss, VerifyRead, VerifySet, Requery,
     Invalidate, DbError, DeadlockDetected, Abort
<1> QED BY <1>1, <1>2, <1>3, <1>4, <1>5, <1>6 DEF Step

LEMMA LatestPasswordNext ==
  TypeInv /\ VersionInv /\ LatestPasswordInForce /\ [Next]_vars => LatestPasswordInForce'
<1> SUFFICES ASSUME TypeOK, Control, VersionInv, LatestPasswordInForce, [Next]_vars, TypeOK'
             PROVE  LatestPasswordInForce'
  BY TypeInvNext DEF TypeInv
<1> USE SessionsAssumption
<1>1. ASSUME NEW p \in Requests, Begin(p) PROVE LatestPasswordInForce'
  <2>1. UNCHANGED <<pw, bumped>> /\ bumped[p] = 0
    BY <1>1 DEF Begin, rowVars, VersionInv
  <2>2. \A q \in Requests : q # p => op'[q] = op[q] /\ who'[q] = who[q]
    BY <1>1 DEF Begin, TypeOK
  <2> QED BY <2>1, <2>2 DEF LatestPasswordInForce
<1>2. ASSUME NEW p \in Requests, Step(p) \/ DbError(p) \/ DeadlockDetected(p)
      PROVE  LatestPasswordInForce'
  <2>0. who[p] \in Users /\ PasswordStep(p)
    BY <1>2, StepsOrderPasswords
  <2>1. CASE UNCHANGED <<pw, bumped>>
    BY <2>0, <2>1 DEF PasswordStep, LatestPasswordInForce
  <2>2. CASE \A q \in Requests : bumped'[q] = IF q = p THEN ver[who[p]] + 1 ELSE bumped[q]
    <3>t. ver \in [Users -> Nat] /\ bumped \in [Requests -> Nat] /\ pw \in [Users -> Ids]
      BY DEF TypeOK
    <3>1. ver[who[p]] \in Nat
      BY <2>0, <3>t
    <3>2. \A q \in Requests : who[q] = who[p] => bumped[q] <= ver[who[p]]
      BY <2>0 DEF VersionInv
    <3>3. \A q \in Requests : bumped[q] \in Nat /\ bumped'[q] \in Nat /\ bumped[q] <= bumped'[q]
      BY <2>2, <3>t, <3>1, <3>2
    <3>4. SUFFICES ASSUME NEW q \in Requests, op[q] \in {"change_password", "reset"},
                          bumped'[q] # 0
                   PROVE  pw'[who[q]] \in Requests /\ bumped'[pw'[who[q]]] >= bumped'[q]
      BY <2>0 DEF PasswordStep, LatestPasswordInForce
    <3>5. who[q] \in Users
      BY <3>4 DEF Control, Ops
    <3>6. CASE pw' = [pw EXCEPT ![who[p]] = p] /\ who[q] = who[p]
      <4>1. pw'[who[q]] = p
        BY <2>0, <3>6, <3>t
      <4>2. bumped'[p] = ver[who[p]] + 1 /\ bumped'[q] <= ver[who[p]] + 1
        BY <2>2, <3>1, <3>2, <3>6, <3>t
      <4> QED BY <3>1, <3>3, <4>1, <4>2
    <3>7. CASE pw'[who[q]] = pw[who[q]] /\ q # p
      <4>1. bumped[q] # 0 /\ bumped'[q] = bumped[q]
        BY <2>2, <3>4, <3>7
      <4>2. pw[who[q]] \in Requests /\ bumped[pw[who[q]]] >= bumped[q]
        BY <3>4, <4>1 DEF LatestPasswordInForce
      <4> QED BY <3>3, <3>7, <4>1, <4>2
    <3>8. who[q] # who[p] => q # p
      OBVIOUS
    <3>9. pw' = [pw EXCEPT ![who[p]] = p] \/ (pw' = pw /\ q # p) \/ UNCHANGED <<pw, bumped>>
      BY <2>0, <3>4 DEF PasswordStep
    <3> QED BY <2>1, <3>4, <3>5, <3>6, <3>7, <3>8, <3>9, <3>t DEF LatestPasswordInForce
  <2> QED BY <2>0, <2>1, <2>2 DEF PasswordStep
<1>3. CASE Environment \/ UNCHANGED vars
  <2>1. UNCHANGED <<pw, bumped, op, who>>
    BY <1>3 DEF Environment, CleanupExpired, CacheExpires, TokenExpires, vars, rowVars, reqVars
  <2> QED BY <2>1 DEF LatestPasswordInForce
<1> QED BY <1>1, <1>2, <1>3 DEF Next

(* However password changes and resets of an account interleave, the       *)
(* password of the one that committed last is in force.                    *)
THEOREM LastPasswordWins == Spec => []LatestPasswordInForce
<1>1. Init => TypeInv /\ VersionInv /\ LatestPasswordInForce
  <2>1. Init => LatestPasswordInForce
    BY SessionsAssumption DEF Init, LatestPasswordInForce, Ops
  <2> QED BY <2>1, TypeInvInit, VersionInvInit
<1>2. TypeInv /\ VersionInv /\ LatestPasswordInForce /\ [Next]_vars =>
        (TypeInv /\ VersionInv /\ LatestPasswordInForce)'
  BY TypeInvNext, VersionInvNext, LatestPasswordNext
<1> QED BY <1>1, <1>2, PTL DEF Spec

=============================================================================
