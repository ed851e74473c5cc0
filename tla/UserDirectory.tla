--------------------------- MODULE UserDirectory ----------------------------
(***************************************************************************)
(* UserService on the users table and its caches: get_user, list_users,    *)
(* create_user, update_user, delete_user, set_balance and adjust_balance,  *)
(* with the profile entry and the null marker of each id and the cached    *)
(* count of each actor role.  Each SQL statement and each cache command is *)
(* a step; a transaction's writes show at its commit.  A read replica      *)
(* follows the primary at its own pace.  A row's name counts its           *)
(* renamings, modulo 2.  Sessions models what the same handlers do to      *)
(* token_version and refresh tokens.                                       *)
(***************************************************************************)
EXTENDS Integers, FiniteSets

CONSTANTS Users,        \* ids; an id that has no row yet is not known
          Requests,
          MaxBalance,   \* i64::MAX
          Asked,        \* Asked[p]: what request p may be, see Ask
          None

Roles == {"user", "admin"}          \* the roles a request may give
Actors == Roles \cup {"system"}
Kinds == {"get", "list", "create", "rename", "role", "verify", "delete",
          "set", "adjust"}

(* A request: its operation, the actor's role, the id, and the role, the   *)
(* balance or the amount it gives                                          *)
Ask == [kind : Kinds, actor : Actors, user : Users, role : Roles, amount : Int]

Row == [role : Actors, name : 0..1, verified : BOOLEAN, balance : 0..MaxBalance]

Answers ==
  [is : {"ok", "error", "refused", "absent"}] \cup [is : {"profile"}, value : Row]
  \cup [is : {"count"}, value : Nat] \cup [is : {"balance"}, value : 0..MaxBalance]

ASSUME DirectoryAssumption ==
  /\ IsFiniteSet(Users) /\ MaxBalance \in Nat /\ Users \cap Actors = {}
  /\ None \notin Actors
  /\ \A p \in Requests : Asked[p] \subseteq Ask
  /\ None \notin Requests /\ None \notin Ask /\ None \notin Row /\ None \notin Nat
  /\ None \notin Answers /\ None \notin [role : Actors, balance : 0..MaxBalance]

VARIABLES
  row,      \* row[u]: the committed users row, or None
  lock,     \* lock[u]: the transaction that holds its row lock
  replica,  \* replica[u]: the role of the row on the replica, or None
  entry,    \* entry[u]: cached profile user:{id}
  null,     \* ids with a user:{id}:null marker
  count,    \* count[r]: user:count:{r}
  ask, pc,  \* what each request is, and where it is
  seen,     \* seen[p]: the row or count it read
  out,      \* out[p]: its answer, or None
  late,     \* history: ids and roles whose cache holds an old reading, or was
            \* kept because an invalidation did not happen
  old       \* history: requests whose reading was old, on a replica that was
            \* behind, or has become old since

db == <<row, lock, replica>>
cache == <<entry, null, count, late, old>>
vars == <<db, cache, ask, pc, seen, out>>

TypeOK ==
  /\ row \in [Users -> Row \cup {None}]
  /\ lock \in [Users -> Requests \cup {None}]
  /\ replica \in [Users -> Actors \cup {None}]
  /\ entry \in [Users -> Row \cup {None}]
  /\ null \subseteq Users
  /\ count \in [Actors -> Nat \cup {None}]
  /\ pc \in [Requests -> {"start", "exists", "db", "fill", "write", "inv",
                          "counts", "verify", "done"}]
  /\ ask \in [Requests -> Ask]
  /\ DOMAIN seen = Requests
  /\ \A p \in Requests : seen[p] \in {None} \cup IF ask[p].kind = "list" THEN Nat ELSE Row
  /\ out \in [Requests -> Answers \cup {None}]
  /\ late \subseteq Users \cup Actors /\ old \subseteq Requests

NewRow(r) == [role |-> r, name |-> 0, verified |-> FALSE, balance |-> 0]

(* What the replica has of the table when it is not behind *)
Table == [u \in Users |-> IF row[u] = None THEN None ELSE row[u].role]

Init ==
  /\ ask \in [Requests -> UNION {Asked[p] : p \in Requests}]
  /\ \A p \in Requests : ask[p] \in Asked[p]
  /\ row \in [Users -> {None} \cup {NewRow(r) : r \in Actors}]
  /\ \A u \in Users : row[u] = None <=>
       \E p \in Requests : ask[p].kind = "create" /\ ask[p].user = u
  /\ \A p, q \in Requests :
       ask[p].kind = "create" /\ ask[q].kind = "create" /\ ask[p].user = ask[q].user => p = q
  /\ lock = [u \in Users |-> None] /\ replica = Table
  /\ entry = [u \in Users |-> None] /\ null = {}
  /\ count = [r \in Actors |-> None]
  /\ pc = [p \in Requests |-> "start"]
  /\ seen = [p \in Requests |-> None]
  /\ out = [p \in Requests |-> None]
  /\ late = {} /\ old = {}

(* An answer, alone or with a value *)
Just(a) == [is |-> a]
With(a, v) == [is |-> a, value |-> v]
Goto(p, l) == pc' = [pc EXCEPT ![p] = l]
Answer(p, a) == out' = [out EXCEPT ![p] = a] /\ Goto(p, "done")
Target(p) == ask[p].user

(* The id of an account is generated when it is created: no other request  *)
(* knows it before                                                         *)
Known(u) ==
  \A q \in Requests : ask[q].kind = "create" /\ ask[q].user = u => pc[q] # "start"

(* The rows an actor is shown, and so the count of each actor role; and    *)
(* what the replica has of them                                            *)
Visible(r) == {u \in Users : row[u] # None /\ (r = "admin" => row[u].role = "user")}
VisibleThere(r) == {u \in Users : replica[u] # None /\ (r = "admin" => replica[u] = "user")}

(* Readings that a write makes old: of a profile, of a count *)
Profiles(u) == {q \in Requests : ask[q].kind = "get" /\ ask[q].user = u}
Counts == {q \in Requests : ask[q].kind = "list"}
Overtake(S) == old' = old \cup {q \in S : pc[q] = "fill"}

-----------------------------------------------------------------------------
(* get_user and get_user_scoped                                            *)

(* What an actor is told about a profile: an admin sees user accounts only *)
Scoped(p, r) == IF ask[p].actor = "admin" /\ r.role # "user" THEN Just("absent") ELSE With("profile", r)

(* A cache error counts as a miss, of the entry and of the marker *)
GetCache(p) ==
  /\ pc[p] = "start" /\ ask[p].kind = "get" /\ Known(Target(p))
  /\ \/ entry[Target(p)] # None /\ Answer(p, Scoped(p, entry[Target(p)]))
     \/ Goto(p, "exists") /\ UNCHANGED out
  /\ UNCHANGED <<db, cache, ask, seen>>

GetMarker(p) ==
  /\ pc[p] = "exists"
  /\ \/ Target(p) \in null /\ Answer(p, Just("absent"))
     \/ Goto(p, "db") /\ UNCHANGED out
  /\ UNCHANGED <<db, cache, ask, seen>>

GetRow(p) ==
  /\ pc[p] = "db" /\ ask[p].kind = "get"
  /\ seen' = [seen EXCEPT ![p] = row[Target(p)]]
  /\ Goto(p, "fill")
  /\ UNCHANGED <<db, cache, ask, out>>

(* set or set_null of what the query returned; a failure is only logged *)
GetFill(p) ==
  LET u == Target(p) IN
  /\ pc[p] = "fill" /\ ask[p].kind = "get"
  /\ \/ /\ seen[p] # None /\ entry' = [entry EXCEPT ![u] = seen[p]]
        /\ late' = IF p \in old THEN late \cup {u} ELSE late \ {u}
        /\ UNCHANGED null
     \/ /\ seen[p] = None /\ null' = null \cup {u}
        /\ UNCHANGED <<entry, late>>
     \/ UNCHANGED <<entry, null, late>>
  /\ Answer(p, IF seen[p] = None THEN Just("absent") ELSE Scoped(p, seen[p]))
  /\ UNCHANGED <<db, count, old, ask, seen>>

-----------------------------------------------------------------------------
(* list_users: the count is cached, the page itself is not                 *)

ListCache(p) ==
  /\ pc[p] = "start" /\ ask[p].kind = "list"
  /\ \/ count[ask[p].actor] # None /\ Answer(p, With("count", count[ask[p].actor]))
     \/ Goto(p, "db") /\ UNCHANGED out
  /\ UNCHANGED <<db, cache, ask, seen>>

(* The COUNT, through AutoRouter: on the primary or a current replica, or  *)
(* on one that is behind                                                   *)
ListCount(p) ==
  /\ pc[p] = "db" /\ ask[p].kind = "list"
  /\ \/ /\ seen' = [seen EXCEPT ![p] = Cardinality(Visible(ask[p].actor))]
        /\ UNCHANGED old
     \/ /\ replica # Table
        /\ seen' = [seen EXCEPT ![p] = Cardinality(VisibleThere(ask[p].actor))]
        /\ old' = old \cup {p}
  /\ Goto(p, "fill")
  /\ UNCHANGED <<db, entry, null, count, late, ask, out>>

ListFill(p) ==
  LET r == ask[p].actor IN
  /\ pc[p] = "fill" /\ ask[p].kind = "list"
  /\ \/ /\ count' = [count EXCEPT ![r] = seen[p]]
        /\ late' = IF p \in old THEN late \cup {r} ELSE late \ {r}
     \/ UNCHANGED <<count, late>>
  /\ Answer(p, With("count", seen[p]))
  /\ UNCHANGED <<db, entry, null, old, ask, seen>>

(* The replica catches up *)
Replicate ==
  /\ replica # Table /\ replica' = Table
  /\ UNCHANGED <<row, lock, cache, ask, pc, seen, out>>

-----------------------------------------------------------------------------
(* The writers                                                             *)

(* INSERT of a fresh id.  Only a system actor may give a role, and an      *)
(* admin who asks for an admin is refused.                                 *)
Create(p) ==
  LET a == ask[p]
      r == IF a.actor = "system" THEN a.role ELSE "user" IN
  /\ pc[p] = "start" /\ a.kind = "create"
  /\ \/ /\ ~(a.actor = "admin" /\ a.role = "admin")
        /\ row' = [row EXCEPT ![a.user] = NewRow(r)]
        /\ Overtake(Profiles(a.user) \cup Counts)
        /\ Goto(p, "counts") /\ UNCHANGED out
     \/ /\ Answer(p, Just("error"))    \* refused, the email is taken, or a failure
        /\ UNCHANGED <<row, old>>
  /\ UNCHANGED <<lock, replica, entry, null, count, late, ask, seen>>

(* System accounts are out of bounds, and an admin's scope is the users *)
InScope(r, actor) == r.role # "system" /\ (actor = "admin" => r.role = "user")

(* update_user and delete_user read the row and check the actor first *)
ReadAndCheck(p) ==
  LET a == ask[p]
      r == row[a.user] IN
  /\ pc[p] = "start" /\ a.kind \in {"rename", "role", "delete"} /\ Known(a.user)
  /\ IF r = None \/ ~InScope(r, a.actor) \/ (a.actor = "admin" /\ a.kind = "role" /\ a.role = "admin")
     THEN Answer(p, Just("refused")) ELSE Goto(p, "write") /\ UNCHANGED out
  /\ UNCHANGED <<db, cache, ask, seen>>

(* UPDATE by id of the columns that were set, waiting for the row lock.  A *)
(* role change is a transaction (it bumps token_version) and is followed   *)
(* by a second read of the row; when that fails nothing is invalidated.    *)
UpdateUser(p) ==
  LET u == Target(p) IN
  /\ pc[p] = "write" /\ ask[p].kind \in {"rename", "role"} /\ lock[u] = None
  /\ \/ /\ row[u] # None
        /\ row' = IF ask[p].kind = "role"
                  THEN [row EXCEPT ![u].role = ask[p].role]
                  ELSE [row EXCEPT ![u].name = 1 - @]
        /\ Overtake(Profiles(u) \cup IF ask[p].kind = "role" THEN Counts ELSE {})
        /\ \/ Goto(p, "inv") /\ UNCHANGED <<out, late>>
           \/ Answer(p, Just("error")) /\ late' = late \cup {u}
     \/ /\ Answer(p, Just("error"))    \* gone, a conflict, a failure
        /\ UNCHANGED <<row, late, old>>
  /\ UNCHANGED <<lock, replica, entry, null, count, ask, seen>>

(* DELETE ... WHERE id, and AND role = 'user' for an admin *)
DeleteUser(p) ==
  LET u == Target(p) IN
  /\ pc[p] = "write" /\ ask[p].kind = "delete" /\ lock[u] = None
  /\ \/ /\ row[u] # None /\ (ask[p].actor = "admin" => row[u].role = "user")
        /\ row' = [row EXCEPT ![u] = None] /\ Overtake(Profiles(u) \cup Counts)
        /\ Goto(p, "inv") /\ UNCHANGED out
     \/ Answer(p, Just("error")) /\ UNCHANGED <<row, old>>
  /\ UNCHANGED <<lock, replica, entry, null, count, late, ask, seen>>

(* verify_email, and auto_verify at the end of create, write the row and   *)
(* leave the caches alone; the request succeeds even when auto_verify fails *)
Verify(p) ==
  LET u == Target(p) IN
  /\ pc[p] = IF ask[p].kind = "create" THEN "verify" ELSE "start"
  /\ ask[p].kind \in {"create", "verify"} /\ Known(u) /\ lock[u] = None
  /\ \/ /\ row[u] # None /\ row' = [row EXCEPT ![u].verified = TRUE]
        /\ Overtake(Profiles(u))
     \/ UNCHANGED <<row, old>>
  /\ Answer(p, Just("ok"))
  /\ UNCHANGED <<lock, replica, entry, null, count, late, ask, seen>>

-----------------------------------------------------------------------------
(* set_balance and adjust_balance                                          *)

(* check_balance_rbac *)
check_balance_rbac(r, actor) == actor # "user" /\ InScope(r, actor)

(* The new balance; adjust_balance adds with checked_add *)
NewBalance(a, r) == IF a.kind = "set" THEN a.amount ELSE r.balance + a.amount

(* Mutant: SELECT without FOR UPDATE *)
BalanceReadUnlocked(p) ==
  LET a == ask[p]
      r == row[a.user] IN
  /\ pc[p] = "start" /\ a.kind \in {"set", "adjust"} /\ Known(a.user)
  /\ IF r # None /\ check_balance_rbac(r, a.actor) /\ NewBalance(a, r) \in 0..MaxBalance
     THEN seen' = [seen EXCEPT ![p] = r] /\ Goto(p, "write") /\ UNCHANGED out
     ELSE Answer(p, Just("refused")) /\ UNCHANGED seen
  /\ UNCHANGED <<db, cache, ask>>

(* SELECT ... FOR UPDATE, then the checks; refusing ends the transaction *)
BalanceLock(p) ==
  LET a == ask[p]
      r == row[a.user] IN
  /\ pc[p] = "start" /\ a.kind \in {"set", "adjust"} /\ Known(a.user)
  /\ lock[a.user] = None
  /\ IF r # None /\ check_balance_rbac(r, a.actor) /\ NewBalance(a, r) \in 0..MaxBalance
     THEN /\ lock' = [lock EXCEPT ![a.user] = p]
          /\ seen' = [seen EXCEPT ![p] = r]
          /\ Goto(p, "write") /\ UNCHANGED out
     ELSE Answer(p, Just("refused")) /\ UNCHANGED <<lock, seen>>
  /\ UNCHANGED <<row, replica, cache, ask>>

(* UPDATE and COMMIT; the answer to the COMMIT may be lost *)
BalanceCommit(p) ==
  LET a == ask[p]
      b == NewBalance(a, seen[p]) IN
  /\ pc[p] = "write" /\ a.kind \in {"set", "adjust"}
  /\ row' = [row EXCEPT ![a.user].balance = b] /\ Overtake(Profiles(a.user))
  /\ lock' = [lock EXCEPT ![a.user] = None]
  /\ \/ out' = [out EXCEPT ![p] = With("balance", b)] /\ Goto(p, "inv") /\ UNCHANGED late
     \/ Answer(p, Just("error")) /\ late' = late \cup {a.user}
  /\ UNCHANGED <<replica, entry, null, count, ask, seen>>

BalanceRollback(p) ==
  /\ pc[p] = "write" /\ ask[p].kind \in {"set", "adjust"}
  /\ lock' = [lock EXCEPT ![Target(p)] = None]
  /\ Answer(p, Just("error"))
  /\ UNCHANGED <<row, replica, cache, ask, seen>>

-----------------------------------------------------------------------------
(* The invalidations that follow a write                                   *)

(* A balance change answered at its commit, where it took effect *)
Done(p) == IF out[p] = None THEN Answer(p, Just("ok")) ELSE Goto(p, "done") /\ UNCHANGED out

(* Mutant: balance changes do not delete the profile *)
InvalidateProfileOnly(p) ==
  LET u == Target(p) IN
  /\ pc[p] = "inv"
  /\ IF ask[p].kind \in {"set", "adjust"} THEN UNCHANGED <<entry, null, late>>
     ELSE /\ entry' = [entry EXCEPT ![u] = None] /\ null' = null \ {u}
          /\ late' = late \ {u}
  /\ IF ask[p].kind = "delete" THEN Goto(p, "counts") /\ UNCHANGED out
     ELSE Done(p)
  /\ UNCHANGED <<db, count, old, ask, seen>>

(* DEL user:{id} user:{id}:null.  A failure is logged; a caller that hangs *)
(* up after the commit has the same effect.                                *)
Invalidate(p) ==
  LET u == Target(p) IN
  /\ pc[p] = "inv"
  /\ \/ /\ entry' = [entry EXCEPT ![u] = None] /\ null' = null \ {u}
        /\ late' = late \ {u}
     \/ late' = late \cup {u} /\ UNCHANGED <<entry, null>>
  /\ IF ask[p].kind = "delete" THEN Goto(p, "counts") /\ UNCHANGED out
     ELSE Done(p)
  /\ UNCHANGED <<db, count, old, ask, seen>>

(* Mutant: only the count of the actor's own role is deleted *)
InvalidateOwnCount(p) ==
  /\ pc[p] = "counts"
  /\ count' = [count EXCEPT ![ask[p].actor] = None]
  /\ late' = late \ {ask[p].actor}
  /\ IF ask[p].kind = "create" THEN Goto(p, "verify") /\ UNCHANGED out ELSE Done(p)
  /\ UNCHANGED <<db, entry, null, old, ask, seen>>

(* DEL of the three counts, each on its own; failures are ignored *)
InvalidateCounts(p) ==
  /\ pc[p] = "counts"
  /\ \E done \in SUBSET Actors :
       /\ count' = [r \in Actors |-> IF r \in done THEN None ELSE count[r]]
       /\ late' = (late \ done) \cup (Actors \ done)
  /\ IF ask[p].kind = "create" THEN Goto(p, "verify") /\ UNCHANGED out ELSE Done(p)
  /\ UNCHANGED <<db, entry, null, old, ask, seen>>

(* TTLs *)
EntryExpires(u) ==
  /\ entry[u] # None /\ entry' = [entry EXCEPT ![u] = None] /\ late' = late \ {u}
  /\ UNCHANGED <<db, null, count, old, ask, pc, seen, out>>

MarkerExpires(u) ==
  /\ u \in null /\ null' = null \ {u}
  /\ UNCHANGED <<db, entry, count, late, old, ask, pc, seen, out>>

CountExpires(r) ==
  /\ count[r] # None /\ count' = [count EXCEPT ![r] = None] /\ late' = late \ {r}
  /\ UNCHANGED <<db, entry, null, old, ask, pc, seen, out>>

(* The handlers *)
GetUser(p) == GetCache(p) \/ GetMarker(p) \/ GetRow(p) \/ GetFill(p)
ListUsers(p) == ListCache(p) \/ ListCount(p) \/ ListFill(p)
CreateUser(p) == Create(p) \/ InvalidateCounts(p) \/ Verify(p)
UpdateOrDelete(p) == ReadAndCheck(p) \/ UpdateUser(p) \/ DeleteUser(p) \/ Invalidate(p)
ChangeBalance(p) == BalanceLock(p) \/ BalanceCommit(p) \/ BalanceRollback(p)

Step(p) == GetUser(p) \/ ListUsers(p) \/ CreateUser(p) \/ UpdateOrDelete(p) \/ ChangeBalance(p)

Next ==
  \/ \E p \in Requests : Step(p)
  \/ \E u \in Users : EntryExpires(u) \/ MarkerExpires(u)
  \/ \E r \in Actors : CountExpires(r)
  \/ Replicate

Spec == Init /\ [][Next]_vars

-----------------------------------------------------------------------------
(* The ledger in the table and in the requests that change balances *)
Account ==
  [u \in Users |-> IF row[u] = None THEN None
                   ELSE [role |-> row[u].role, balance |-> row[u].balance]]
Change == [p \in Requests |-> IF ask[p].kind \in {"set", "adjust"} THEN ask[p] ELSE None]
Reply == [p \in Requests |-> IF ask[p].kind \in {"set", "adjust"} THEN out[p] ELSE None]

Abstract == INSTANCE Ledger WITH account <- Account, change <- Change, answer <- Reply

(* Balance changes implement the ledger: each one takes effect at one      *)
(* instant, on the role and the balance of that instant, although checks   *)
(* and write are several statements and other handlers write the row too.  *)
LedgerSpec == Abstract!Spec

(* A writer of u has committed and has not yet deleted the cached profile, *)
(* or has yet to delete the counts                                         *)
Pending(u) == \E p \in Requests : pc[p] = "inv" /\ Target(p) = u
PendingCounts ==
  \E p \in Requests :
    pc[p] = "counts" \/ (pc[p] = "inv" /\ ask[p].kind = "delete")

(* "Cache is invalidated on every write operation": once its writers are   *)
(* through, a cached profile shows the row's name, role and balance.  The  *)
(* exceptions (late) are a fill whose reading a write overtook and an      *)
(* invalidation that failed.  A marker never belongs to an account.        *)
ProfileCacheFollowsRow ==
  /\ \A u \in Users \ late :
       ~Pending(u) /\ entry[u] # None =>
         /\ row[u] # None
         /\ [entry[u] EXCEPT !.verified = row[u].verified] = row[u]
  /\ \A u \in null : row[u] = None

(* The cached counts follow creations and deletions in the same way, with  *)
(* one exception more: a count that was read on a replica that was behind. *)
(* The count of the user accounts, which is the admins', follows them as   *)
(* long as no role is changed, which deletes no count.                     *)
CountCacheFollowsTable ==
  \A r \in Actors \ late :
    /\ count[r] # None /\ ~PendingCounts
    /\ r = "admin" => \A p \in Requests : ask[p].kind # "role"
    => count[r] = Cardinality(Visible(r))
=============================================================================
