--------------------------- MODULE FrontEndProofs ---------------------------
(* Proofs about the browser and what it talks to: the views, for any       *)
(* number of tasks, faults and writes elsewhere; the two frameworks'       *)
(* gateways and the rate limiter, for any limits and lifetimes, any number *)
(* of retries, faults and actions of the user.                             *)
EXTENDS ClientSession, AdminViews, SequenceTheorems, TLAPS

(***************************************************************************)
(* Sequences                                                               *)
(***************************************************************************)

(* s is a sequence, of whatever it holds. *)
IsSequence(s) == s \in Seq({s[i] : i \in DOMAIN s})

LEMMA SequenceOf ==
  ASSUME NEW S, NEW s \in Seq(S)
  PROVE  IsSequence(s)
<1>1. s \in [1..Len(s) -> S] /\ DOMAIN s = 1..Len(s) /\ Len(s) \in Nat
  BY LenProperties
<1>2. s \in [1..Len(s) -> {s[i] : i \in DOMAIN s}]
  BY <1>1
<1> QED BY <1>1, <1>2, SeqDef DEF IsSequence

(* A spawned task joins the others. *)
LEMMA Appended ==
  ASSUME NEW s, IsSequence(s), NEW e
  PROVE  LET r == Append(s, e)
         IN  /\ IsSequence(r)
             /\ DOMAIN r = DOMAIN s \cup {Len(s) + 1} /\ Len(s) + 1 \notin DOMAIN s
             /\ \A j \in DOMAIN s : r[j] = s[j]
             /\ r[Len(s) + 1] = e
<1> DEFINE S == {s[i] : i \in DOMAIN s} \cup {e}
           r == Append(s, e)
<1>1. s \in Seq(S)
  BY SeqMonotonic DEF IsSequence
<1>2. /\ r \in Seq(S) /\ Len(r) = Len(s) + 1
      /\ \A i \in 1..Len(s) : r[i] = s[i]
      /\ r[Len(s) + 1] = e
  BY <1>1, AppendProperties
<1>3. DOMAIN s = 1..Len(s) /\ Len(s) \in Nat /\ DOMAIN r = 1..(Len(s) + 1)
  BY <1>1, <1>2, LenProperties
<1>4. IsSequence(r)
  BY <1>2, SequenceOf
<1> HIDE DEF r
<1>5. DOMAIN r = DOMAIN s \cup {Len(s) + 1} /\ Len(s) + 1 \notin DOMAIN s
  BY <1>3
<1> QED BY <1>2, <1>3, <1>4, <1>5 DEF r

(* A task is replaced in its place. *)
LEMMA Replaced ==
  ASSUME NEW s, IsSequence(s), NEW i \in DOMAIN s, NEW e
  PROVE  LET r == [s EXCEPT ![i] = e]
         IN  /\ IsSequence(r) /\ DOMAIN r = DOMAIN s
             /\ r[i] = e /\ \A j \in DOMAIN s \ {i} : r[j] = s[j]
<1> DEFINE S == {s[j] : j \in DOMAIN s} \cup {e}
<1>1. s \in Seq(S)
  BY SeqMonotonic DEF IsSequence
<1>2. i \in 1..Len(s)
  BY <1>1, LenProperties
<1>3. [s EXCEPT ![i] = e] \in Seq(S)
  BY <1>1, <1>2, ExceptSeq
<1> QED BY <1>3, SequenceOf

(* A task that is over is removed, wherever it stands. *)
LEMMA Removed ==
  ASSUME NEW s, IsSequence(s), NEW i \in DOMAIN s
  PROVE  LET r == RemoveAt(s, i)
         IN  /\ IsSequence(r)
             /\ \A j \in DOMAIN r : \E k \in DOMAIN s :
                  /\ r[j] = s[k]
                  /\ \A l \in DOMAIN s \ {i} :
                       l > k => \E m \in DOMAIN r : m > j /\ r[m] = s[l]
             /\ \A k \in DOMAIN s \ {i} : \E j \in DOMAIN r : r[j] = s[k]
<1> DEFINE S == {s[j] : j \in DOMAIN s}
           a == SubSeq(s, 1, i - 1)
           b == SubSeq(s, i + 1, Len(s))
           r == a \o b
           n == Len(s)
<1>1. s \in Seq(S) /\ n \in Nat /\ DOMAIN s = 1..n /\ i \in 1..n
  BY LenProperties DEF IsSequence
<1>2. /\ a \in Seq(S) /\ Len(a) = i - 1
      /\ \A j \in 1..(i - 1) : a[j] = s[j]
  <2>1. \A j \in 1..(i - 1) : s[j] \in S
    BY <1>1
  <2> HIDE DEF S
  <2>2. 1 \in Int /\ i - 1 \in Int
    BY <1>1
  <2>3. /\ a \in Seq(S)
        /\ Len(a) = IF 1 <= i - 1 THEN (i - 1) - 1 + 1 ELSE 0
        /\ \A j \in 1..((i - 1) - 1 + 1) : a[j] = s[1 + j - 1]
    BY <2>1, <2>2, SubSeqProperties
  <2> HIDE DEF a, n
  <2> QED BY <1>1, <2>3
<1>3. /\ b \in Seq(S) /\ Len(b) = n - i
      /\ \A j \in 1..(n - i) : b[j] = s[i + j]
  <2>1. \A j \in (i + 1)..n : s[j] \in S
    BY <1>1
  <2> HIDE DEF S
  <2>2. n \in Int /\ i + 1 \in Int
    BY <1>1
  <2>3. /\ b \in Seq(S)
        /\ Len(b) = IF i + 1 <= n THEN n - (i + 1) + 1 ELSE 0
        /\ \A j \in 1..(n - (i + 1) + 1) : b[j] = s[(i + 1) + j - 1]
    BY <2>1, <2>2, SubSeqProperties
  <2> HIDE DEF b, n
  <2> QED BY <1>1, <2>3
<1> HIDE DEF S, a, b
<1>4. /\ r \in Seq(S) /\ Len(r) = Len(a) + Len(b)
      /\ \A j \in 1..(Len(a) + Len(b)) :
           r[j] = IF j <= Len(a) THEN a[j] ELSE b[j - Len(a)]
  BY <1>2, <1>3, ConcatProperties
<1> HIDE DEF r, n
<1>a. n \in Nat /\ i \in 1..n /\ Len(a) = i - 1 /\ Len(b) = n - i /\ Len(r) = n - 1
  BY <1>1, <1>2, <1>3, <1>4
<1>5. DOMAIN r = 1..(n - 1)
  <2>1. DOMAIN r = 1..Len(r)
    BY <1>4, LenProperties
  <2> QED BY <2>1, <1>a
<1>6. \A j \in 1..(n - 1) : r[j] = IF j < i THEN s[j] ELSE s[j + 1]
  <2> TAKE j \in 1..(n - 1)
  <2>1. r[j] = IF j <= i - 1 THEN a[j] ELSE b[j - (i - 1)]
    BY <1>4, <1>a
  <2>2. CASE j < i
    <3>1. j \in 1..(i - 1)
      BY <2>2, <1>a
    <3> QED BY <3>1, <2>1, <2>2, <1>2
  <2>3. CASE ~(j < i)
    <3>1. j - (i - 1) \in 1..(n - i) /\ i + (j - (i - 1)) = j + 1 /\ ~(j <= i - 1)
      BY <2>3, <1>a
    <3> QED BY <3>1, <2>1, <2>3, <1>3
  <2> QED BY <2>2, <2>3
<1>7. \A j \in DOMAIN r : \E k \in DOMAIN s :
        /\ r[j] = s[k]
        /\ \A l \in DOMAIN s \ {i} : l > k => \E m \in DOMAIN r : m > j /\ r[m] = s[l]
  <2> TAKE j \in DOMAIN r
  <2> DEFINE k == IF j < i THEN j ELSE j + 1
  <2>1. k \in 1..n /\ r[j] = s[k]
    BY <1>a, <1>5, <1>6
  <2>2. ASSUME NEW l \in DOMAIN s \ {i}, l > k
        PROVE  \E m \in DOMAIN r : m > j /\ r[m] = s[l]
    <3>1. CASE l < i
      BY <1>1, <1>a, <1>5, <1>6, <2>1, <2>2, <3>1
    <3>2. CASE l > i
      <4>1. l - 1 \in 1..(n - 1) /\ l - 1 > j /\ ~(l - 1 < i) /\ (l - 1) + 1 = l
        <5>1. j \in 1..(n - 1) /\ l \in 1..n /\ n \in Nat /\ i \in 1..n
          BY <1>1, <1>a, <1>5
        <5> QED BY <2>2, <3>2, <5>1
      <4>2. r[l - 1] = s[l]
        BY <1>6, <4>1
      <4> QED BY <1>5, <4>1, <4>2
    <3> QED BY <1>1, <3>1, <3>2
  <2> QED BY <1>1, <2>1, <2>2
<1>8. \A k \in DOMAIN s \ {i} : \E j \in DOMAIN r : r[j] = s[k]
  <2> TAKE k \in DOMAIN s \ {i}
  <2>1. CASE k < i
    BY <1>1, <1>5, <1>6, <2>1
  <2>2. CASE k > i
    <3>1. k - 1 \in DOMAIN r /\ r[k - 1] = s[k]
      BY <1>1, <1>5, <1>6, <2>2
    <3> QED BY <3>1
  <2> QED BY <1>1, <2>1, <2>2
<1>9. RemoveAt(s, i) = r
  BY DEF RemoveAt, r, a, b, n
<1> QED BY <1>4, <1>7, <1>8, <1>9, SequenceOf

-----------------------------------------------------------------------------
(***************************************************************************)
(* Users: what is on the screen                                            *)
(***************************************************************************)

SignalFields == DOMAIN UsersSignals
TaskFields == DOMAIN Task("list")
AnswerFields == DOMAIN NoAnswer
TableFields == {"rows", "rev", "totals", "next"}

ViewsTypes ==
  /\ IsSequence(tasks)
  /\ DOMAIN ui = SignalFields /\ ui.list_version \in Nat
  /\ DOMAIN db = TableFields /\ db.rev \in Nat
  /\ seen \in Nat /\ seen <= db.rev

TaskTypes(t) ==
  /\ DOMAIN t = TaskFields /\ DOMAIN t.ans = AnswerFields
  /\ t.ans.rev \in Nat
  /\ t.op = "list" => t.ver \in Nat

(* A load under way carries no version that is still to come, and an       *)
(* answer of the current version is not older than the latest write that   *)
(* was answered here; every answer is of a revision the server has had.    *)
TaskInv(t) ==
  /\ TaskTypes(t)
  /\ t.ans.rev <= db.rev
  /\ t.op = "list" /\ t.st # "new" => t.ver <= ui.list_version
  /\ t.op = "list" /\ t.st = "answered" /\ t.ans.st = "ok" /\ t.ver = ui.list_version
       => t.ans.rev >= seen

(* The list on the screen is the one selected, or is about to be loaded.   *)
ListInv ==
  ui.list.st = "loaded" =>
    \/ ui.list.page = ui.page /\ ui.list.per = ui.per_page /\ ui.list.rev >= seen
    \/ ui.load
    \/ \E i \in DOMAIN tasks : tasks[i].st = "new"

ViewsInv == ViewsTypes /\ (\A i \in DOMAIN tasks : TaskInv(tasks[i])) /\ ListInv

LEMMA FreshSignals ==
  /\ UsersSignals.list_version = 0 /\ UsersSignals.list.st = "loading"
  /\ UsersSignals.load
BY DEF UsersSignals, Loading

LEMMA ViewsInvInit == ViewsInit => ViewsInv
<1> SUFFICES ASSUME ViewsInit PROVE ViewsInv
  OBVIOUS
<1>1. tasks = <<>> /\ <<>> \in Seq({})
  BY DEF ViewsInit
<1>2. IsSequence(tasks) /\ DOMAIN tasks = {}
  <2>1. IsSequence(<<>>)
    BY <1>1, SequenceOf
  <2>2. DOMAIN <<>> = {}
    OBVIOUS
  <2> QED BY <1>1, <2>1, <2>2
<1> QED
  BY <1>2, FreshSignals DEF ViewsInit, ViewsInv, ViewsTypes, ListInv, SignalFields, TableFields

(* What the server does with a request *)
LEMMA ServedFacts ==
  ASSUME NEW d, DOMAIN d = TableFields, d.rev \in Nat, NEW t
  PROVE  LET r == Served(d, t)
         IN  /\ DOMAIN r.d = TableFields /\ r.d.rev \in Nat /\ d.rev <= r.d.rev
             /\ DOMAIN r.ans = AnswerFields /\ r.ans.rev \in Nat /\ r.ans.rev <= r.d.rev
             /\ t.op = "list" => r.ans.rev = d.rev
<1>1. ASSUME NEW rows
      PROVE  DOMAIN Committed(d, rows) = TableFields /\ Committed(d, rows).rev = d.rev + 1
  BY DEF Committed, TableFields
<1>2. ASSUME NEW v PROVE DOMAIN Written(d, v) = AnswerFields /\ Written(d, v).rev = d.rev + 1
  BY DEF Written, NoAnswer, AnswerFields
<1>3. DOMAIN Refused = AnswerFields /\ Refused.rev = 0
  BY DEF Refused, NoAnswer, AnswerFields
<1>4. ASSUME NEW p, NEW n
      PROVE  DOMAIN list_users(d, p, n) = AnswerFields /\ list_users(d, p, n).rev = d.rev
  BY DEF list_users, NoAnswer, AnswerFields
<1>5. CASE t.op \in {"list", "check"}
  <2>1. Served(d, t) = [d |-> d, ans |-> list_users(d, t.page, t.per)]
    BY <1>5 DEF Served
  <2> QED BY <1>4, <2>1
<1>6. CASE t.op = "create" /\ t.id \notin DOMAIN d.rows
  <2> DEFINE rows == [i \in DOMAIN d.rows \cup {d.next} |->
                        IF i = d.next THEN [role |-> t.role, balance |-> 0] ELSE d.rows[i]]
             e == [Committed(d, rows) EXCEPT !.next = @ + 1]
  <2>1. Served(d, t) = [d |-> e, ans |-> Written(d, 0)]
    BY <1>6 DEF Served
  <2> HIDE DEF rows
  <2>2. DOMAIN e = TableFields /\ e.rev = d.rev + 1
    BY <1>1 DEF TableFields
  <2> HIDE DEF e
  <2> QED BY <1>2, <1>6, <2>1, <2>2
<1>7. CASE /\ t.op \notin {"list", "check"}
           /\ (t.op = "create") = (t.id \in DOMAIN d.rows)
  <2>1. Served(d, t) = [d |-> d, ans |-> Refused]
    BY <1>7 DEF Served
  <2> QED BY <1>3, <1>7, <2>1
<1>8. CASE t.op \notin {"list", "check", "create"} /\ t.id \in DOMAIN d.rows
  <2>1. \/ \E rows, v : Served(d, t) = [d |-> Committed(d, rows), ans |-> Written(d, v)]
        \/ Served(d, t) = [d |-> d, ans |-> Refused]
    <3>1. CASE t.op = "edit"
      BY <1>8, <3>1 DEF Served
    <3>2. CASE t.op = "delete"
      BY <1>8, <3>2 DEF Served
    <3>3. CASE t.op \notin {"edit", "delete"}
      BY <1>8, <3>3 DEF Served
    <3> QED BY <3>1, <3>2, <3>3
  <2>2. CASE Served(d, t) = [d |-> d, ans |-> Refused]
    BY <1>3, <1>8, <2>2
  <2>3. CASE \E rows, v : Served(d, t) = [d |-> Committed(d, rows), ans |-> Written(d, v)]
    <3>1. PICK rows, v : Served(d, t) = [d |-> Committed(d, rows), ans |-> Written(d, v)]
      BY <2>3
    <3> QED BY <1>1, <1>2, <1>8, <3>1
  <2> QED BY <2>1, <2>2, <2>3
<1> QED BY <1>5, <1>6, <1>7, <1>8

(* Signals that leave the list and its version alone, and queue the load   *)
(* effect when they select another page or size.                           *)
Selects ==
  /\ DOMAIN ui' = SignalFields
  /\ ui'.list = ui.list /\ ui'.list_version = ui.list_version
  /\ ui'.load \/ (ui'.load = ui.load /\ ui'.page = ui.page /\ ui'.per_page = ui.per_page)

(* A step of the signals alone *)
LEMMA SignalsStep ==
  ASSUME ViewsInv, Selects, UNCHANGED <<tasks, db, seen>>
  PROVE  ViewsInv'
BY DEF ViewsInv, ViewsTypes, TaskInv, TaskTypes, ListInv, Selects

(* A button spawns the task of a request. *)
LEMMA SpawnStep ==
  ASSUME ViewsInv, Selects, UNCHANGED <<db, seen>>,
         NEW t, TaskTypes(t), t.op # "list", t.ans.rev = 0, Spawn(t)
  PROVE  ViewsInv'
<1>1. /\ IsSequence(tasks') /\ DOMAIN tasks' = DOMAIN tasks \cup {Len(tasks) + 1}
      /\ \A i \in DOMAIN tasks : tasks'[i] = tasks[i]
      /\ tasks'[Len(tasks) + 1] = t
  BY Appended DEF Spawn, ViewsInv, ViewsTypes
<1>2. ViewsTypes'
  BY <1>1 DEF ViewsInv, ViewsTypes, Selects
<1>3. \A i \in DOMAIN tasks' : TaskInv(tasks[i])' 
  BY <1>1 DEF ViewsInv, ViewsTypes, TaskInv, TaskTypes, Selects
<1>4. ListInv'
  BY <1>1 DEF ViewsInv, ListInv, Selects
<1> QED BY <1>2, <1>3, <1>4 DEF ViewsInv

(* Something happens to a request under way, or to its answer. *)
LEMMA TaskStep ==
  ASSUME ViewsInv, Selects, UNCHANGED seen, NEW i \in DOMAIN tasks, NEW t,
         tasks' = [tasks EXCEPT ![i] = t],
         DOMAIN db' = TableFields, db'.rev \in Nat, db.rev <= db'.rev,
         tasks[i].st # "new", TaskTypes(t), t.ans.rev <= db'.rev,
         t.op = "list" => /\ t.st # "new" /\ t.ver <= ui.list_version
                          /\ t.st = "answered" /\ t.ans.st = "ok" => t.ans.rev >= seen
  PROVE  ViewsInv'
<1>1. /\ IsSequence(tasks') /\ DOMAIN tasks' = DOMAIN tasks
      /\ \A j \in DOMAIN tasks \ {i} : tasks'[j] = tasks[j]
      /\ tasks'[i] = t
  BY Replaced DEF ViewsInv, ViewsTypes
<1>2. ViewsTypes'
  BY <1>1 DEF ViewsInv, ViewsTypes, Selects
<1>3. \A j \in DOMAIN tasks' : TaskInv(tasks[j])'
  BY <1>1 DEF ViewsInv, ViewsTypes, TaskInv, TaskTypes, Selects
<1>4. ListInv'
  BY <1>1 DEF ViewsInv, ListInv, Selects
<1> QED BY <1>2, <1>3, <1>4 DEF ViewsInv

(* A view is left: its tasks and signals go. *)
LEMMA UnmountStep ==
  ASSUME ViewsInv, Unmounted, UNCHANGED <<db, seen>>
  PROVE  ViewsInv'
<1>1. tasks' = <<>> /\ ui' = UsersSignals /\ <<>> \in Seq({}) /\ DOMAIN <<>> = {}
  BY DEF Unmounted
<1>2. IsSequence(tasks') /\ DOMAIN tasks' = {}
  <2>1. IsSequence(<<>>)
    BY <1>1, SequenceOf
  <2> QED BY <1>1, <2>1
<1> QED
  BY <1>1, <1>2, FreshSignals DEF ViewsInv, ViewsTypes, ListInv, SignalFields

(* A task looks at its answer for the last time. *)
LEMMA FinishStep ==
  ASSUME ViewsInv, UNCHANGED db, NEW i \in DOMAIN tasks, tasks[i].st # "new",
         tasks' = RemoveAt(tasks, i),
         DOMAIN ui' = SignalFields,
         seen' \in Nat, seen' <= db.rev,
         \/ seen' = seen /\ ui'.list_version = ui.list_version
         \/ ui'.list_version = ui.list_version + 1,
         ListInv'
  PROVE  ViewsInv'
<1>1. /\ IsSequence(tasks')
      /\ \A j \in DOMAIN tasks' : \E k \in DOMAIN tasks : tasks'[j] = tasks[k]
  BY Removed DEF ViewsInv, ViewsTypes
<1>2. ViewsTypes'
  BY <1>1 DEF ViewsInv, ViewsTypes
<1>3. ASSUME NEW j \in DOMAIN tasks' PROVE TaskInv(tasks[j])'
  <2>1. PICK k \in DOMAIN tasks : tasks'[j] = tasks[k]
    BY <1>1
  <2>2. TaskInv(tasks[k]) /\ ui.list_version \in Nat /\ seen \in Nat
    BY DEF ViewsInv, ViewsTypes
  <2> QED BY <2>1, <2>2 DEF TaskInv, TaskTypes
<1> QED BY <1>2, <1>3 DEF ViewsInv

(* The records that are updated in place *)
LEMMA FreshTask ==
  ASSUME NEW op
  PROVE  /\ TaskTypes(Task(op)) /\ Task(op).op = op /\ Task(op).st = "sent"
         /\ Task(op).ans = NoAnswer /\ NoAnswer.rev = 0
BY DEF Task, TaskTypes, TaskFields, AnswerFields, NoAnswer

LEMMA SignalNames ==
  SignalFields = {"list", "list_version", "page", "per_page", "total_pages", "load",
                  "search", "first_run", "modal_kind", "editing_user", "deleting_user",
                  "submitting", "form_error"}
BY DEF SignalFields, UsersSignals

LEMMA TaskNames ==
  /\ TaskFields = {"op", "st", "tries", "ver", "count", "page", "per", "id", "role",
                   "amount", "ans"}
  /\ AnswerFields = {"st", "items", "total", "balance", "rev"}
BY DEF TaskFields, AnswerFields, Task, NoAnswer

(* A request that may have inserted a row is still the same request. *)
SameRequest(t, w) ==
  /\ TaskTypes(w) /\ w.op = t.op /\ w.ver = t.ver /\ w.st = t.st /\ w.ans = t.ans
  /\ w.page = t.page /\ w.per = t.per

LEMMA InsertedIsSame ==
  ASSUME NEW t, TaskTypes(t), NEW w \in {t, Inserted(t)}
  PROVE  SameRequest(t, w)
BY TaskNames DEF SameRequest, TaskTypes, Inserted

LEMMA UserStep ==
  ASSUME ViewsInv, User
  PROVE  ViewsInv'
<1>a. DOMAIN ui = SignalFields
  BY DEF ViewsInv, ViewsTypes
<1>1. CASE open_create \/ edit_handler \/ delete_handler \/ close_all \/ Search
  <2>1. Selects /\ UNCHANGED <<tasks, db, seen>>
    BY <1>1, <1>a, SignalNames
       DEF open_create, edit_handler, delete_handler, close_all, Search, OnPage, Click, Selects
  <2> QED BY <2>1, SignalsStep
<1>2. CASE on_prev \/ on_next \/ set_per_page
  <2>1. Selects /\ UNCHANGED <<tasks, db, seen>>
    BY <1>2, <1>a, SignalNames DEF on_prev, on_next, set_per_page, OnPage, Click, Selects, SetPage
  <2> QED BY <2>1, SignalsStep
<1>3. CASE on_submit
  <2>1. Selects /\ UNCHANGED <<db, seen>>
    BY <1>3, <1>a, SignalNames DEF on_submit, Click, Selects
  <2>2. CASE UNCHANGED tasks
    BY <2>1, <2>2, SignalsStep
  <2>3. CASE ~UNCHANGED tasks
    <3>1. PICK r : Spawn([Task(ui.modal_kind) EXCEPT !.role = r,
                            !.id = IF ui.editing_user = Nothing THEN 0 ELSE ui.editing_user.id])
      BY <1>3, <2>3 DEF on_submit
    <3> DEFINE t == [Task(ui.modal_kind) EXCEPT !.role = r,
                       !.id = IF ui.editing_user = Nothing THEN 0 ELSE ui.editing_user.id]
    <3>2. ui.modal_kind # "list"
      BY <1>3 DEF on_submit
    <3>3. TaskTypes(t) /\ t.op # "list" /\ t.ans.rev = 0
      BY <3>2, FreshTask, TaskNames DEF TaskTypes
    <3> HIDE DEF t
    <3> QED BY <2>1, <3>1, <3>3, SpawnStep DEF t
  <2> QED BY <2>2, <2>3
<1>4. CASE on_confirm
  <2>1. Selects /\ UNCHANGED <<db, seen>>
    BY <1>4, <1>a, SignalNames DEF on_confirm, Click, Selects
  <2> DEFINE t == [Task("delete") EXCEPT !.id = ui.deleting_user.id]
  <2>2. TaskTypes(t) /\ t.op # "list" /\ t.ans.rev = 0
    BY FreshTask, TaskNames DEF TaskTypes
  <2>3. Spawn(t)
    BY <1>4 DEF on_confirm
  <2> HIDE DEF t
  <2> QED BY <2>1, <2>2, <2>3, SpawnStep
<1>5. ASSUME NEW m, adjust_handler(m) PROVE ViewsInv'
  <2>1. Selects /\ UNCHANGED <<db, seen>>
    BY <1>5, <1>a, SignalNames DEF adjust_handler, Click, Selects
  <2> DEFINE t == [Task("adjust") EXCEPT !.id = ui.editing_user.id, !.amount = m]
  <2>2. TaskTypes(t) /\ t.op # "list" /\ t.ans.rev = 0
    BY FreshTask, TaskNames DEF TaskTypes
  <2>3. UNCHANGED tasks \/ Spawn(t)
    BY <1>5 DEF adjust_handler
  <2> HIDE DEF t
  <2> QED BY <2>1, <2>2, <2>3, SpawnStep, SignalsStep
<1>6. CASE on_run_health
  <2> DEFINE t == [Task("check") EXCEPT !.ver = dash.version + 1]
  <2>1. Selects /\ UNCHANGED <<db, seen>> /\ Spawn(t)
    BY <1>6, <1>a, SignalNames DEF on_run_health, Selects
  <2>2. TaskTypes(t) /\ t.op # "list" /\ t.ans.rev = 0
    BY FreshTask, TaskNames DEF TaskTypes
  <2> HIDE DEF t
  <2> QED BY <2>1, <2>2, SpawnStep
<1>7. CASE Navigate
  BY <1>7, UnmountStep DEF Navigate
<1> QED BY <1>1, <1>2, <1>3, <1>4, <1>5, <1>6, <1>7 DEF User

(* The effects of Users, and the first run of a load task *)
LEMMA EffectStep ==
  ASSUME ViewsInv, SearchEffect \/ LoadEffect \/ \E i \in DOMAIN tasks : StartLoad(i)
  PROVE  ViewsInv'
<1>a. DOMAIN ui = SignalFields
  BY DEF ViewsInv, ViewsTypes
<1>1. CASE SearchEffect
  <2>1. Selects /\ UNCHANGED <<tasks, db, seen>>
    BY <1>1, <1>a, SignalNames DEF SearchEffect, SetPage, Selects
  <2> QED BY <2>1, SignalsStep
<1>2. CASE LoadEffect
  <2> DEFINE t == [Task("list") EXCEPT !.st = "new", !.page = ui.page, !.per = ui.per_page]
  <2>1. TaskTypes(t) /\ t.st = "new" /\ t.ans = NoAnswer /\ NoAnswer.rev = 0
    BY FreshTask, TaskNames DEF TaskTypes
  <2>2. tasks' = Append(tasks, t) /\ UNCHANGED <<db, seen>>
    BY <1>2 DEF LoadEffect
  <2> HIDE DEF t
  <2>3. /\ IsSequence(tasks') /\ DOMAIN tasks' = DOMAIN tasks \cup {Len(tasks) + 1}
        /\ \A i \in DOMAIN tasks : tasks'[i] = tasks[i]
        /\ tasks'[Len(tasks) + 1] = t
    BY <2>2, Appended DEF ViewsInv, ViewsTypes
  <2>4. DOMAIN ui' = SignalFields /\ ui'.list_version = ui.list_version
    BY <1>2, <1>a, SignalNames DEF LoadEffect
  <2>5. ViewsTypes'
    BY <2>2, <2>3, <2>4 DEF ViewsInv, ViewsTypes
  <2>6. \A i \in DOMAIN tasks' : TaskInv(tasks[i])'
    BY <2>1, <2>2, <2>3, <2>4 DEF ViewsInv, ViewsTypes, TaskInv, TaskTypes
  <2>7. ListInv'
    BY <2>1, <2>3 DEF ListInv
  <2> QED BY <2>5, <2>6, <2>7 DEF ViewsInv
<1>3. ASSUME NEW i \in DOMAIN tasks, StartLoad(i) PROVE ViewsInv'
  <2> DEFINE t == [tasks[i] EXCEPT !.st = "sent", !.ver = ui.list_version]
  <2>1. TaskInv(tasks[i]) /\ ui.list_version \in Nat /\ UNCHANGED <<db, seen>>
    BY <1>3 DEF ViewsInv, ViewsTypes, StartLoad
  <2>2. TaskTypes(t) /\ t.st = "sent" /\ t.ver = ui.list_version /\ t.ans = tasks[i].ans
    BY <2>1, TaskNames DEF TaskInv, TaskTypes
  <2>3. tasks' = [tasks EXCEPT ![i] = t]
    BY <1>3 DEF StartLoad
  <2> HIDE DEF t
  <2>4. /\ IsSequence(tasks') /\ DOMAIN tasks' = DOMAIN tasks
        /\ \A k \in DOMAIN tasks \ {i} : tasks'[k] = tasks[k]
        /\ tasks'[i] = t
    BY <2>3, Replaced DEF ViewsInv, ViewsTypes
  <2>5. /\ DOMAIN ui' = SignalFields /\ ui'.list_version = ui.list_version
        /\ ui'.list.st = "loading"
    BY <1>3, <1>a, SignalNames DEF StartLoad, Loading
  <2>6. ViewsTypes'
    BY <2>1, <2>4, <2>5 DEF ViewsInv, ViewsTypes
  <2>7. \A k \in DOMAIN tasks' : TaskInv(tasks[k])'
    BY <2>1, <2>2, <2>4, <2>5 DEF ViewsInv, TaskInv, TaskTypes
  <2> QED BY <2>5, <2>6, <2>7 DEF ViewsInv, ListInv
<1> QED BY <1>1, <1>2, <1>3

(* The server and the network *)
LEMMA ServerStep ==
  ASSUME ViewsInv,
         Elsewhere \/ \E i \in DOMAIN tasks : ServeTask(i) \/ Lose(i) \/ Refuse(i)
  PROVE  ViewsInv'
<1>a. /\ DOMAIN ui = SignalFields /\ DOMAIN db = TableFields /\ db.rev \in Nat
      /\ ui.list_version \in Nat /\ seen \in Nat /\ seen <= db.rev
  BY DEF ViewsInv, ViewsTypes
<1>1. CASE Elsewhere
  <2>1. PICK u : db' = Served(db, u).d
    BY <1>1 DEF Elsewhere
  <2>2. DOMAIN db' = TableFields /\ db'.rev \in Nat /\ db.rev <= db'.rev
    BY <1>a, <2>1, ServedFacts
  <2>3. UNCHANGED <<ui, tasks, seen>>
    BY <1>1 DEF Elsewhere
  <2> QED BY <1>a, <2>2, <2>3 DEF ViewsInv, ViewsTypes, TaskInv, TaskTypes, ListInv
<1>2. ASSUME NEW i \in DOMAIN tasks, ServeTask(i) PROVE ViewsInv'
  <2> DEFINE r == Served(db, tasks[i])
  <2>1. PICK n : tasks' = [tasks EXCEPT ![i].st = "answered",
                                        ![i].ans = [r.ans EXCEPT !.total = n]]
    BY <1>2 DEF ServeTask
  <2> DEFINE t == [tasks[i] EXCEPT !.st = "answered", !.ans = [r.ans EXCEPT !.total = n]]
  <2>2. tasks' = [tasks EXCEPT ![i] = t]
    BY <2>1
  <2>3. TaskInv(tasks[i]) /\ tasks[i].st = "sent" /\ db' = r.d /\ UNCHANGED <<ui, seen>>
    BY <1>2 DEF ViewsInv, ServeTask
  <2>4. /\ DOMAIN r.d = TableFields /\ r.d.rev \in Nat /\ db.rev <= r.d.rev
        /\ DOMAIN r.ans = AnswerFields /\ r.ans.rev \in Nat /\ r.ans.rev <= r.d.rev
        /\ tasks[i].op = "list" => r.ans.rev = db.rev
    BY <1>a, ServedFacts
  <2> HIDE DEF r
  <2>5. /\ TaskTypes(t) /\ t.ans.rev = r.ans.rev /\ t.op = tasks[i].op
        /\ t.ver = tasks[i].ver /\ t.st = "answered"
    BY <2>3, <2>4, TaskNames DEF TaskInv, TaskTypes
  <2> HIDE DEF t
  <2>6. Selects
    BY <1>a, <2>3 DEF Selects
  <2>7. /\ DOMAIN db' = TableFields /\ db'.rev \in Nat /\ db.rev <= db'.rev
        /\ t.ans.rev <= db'.rev /\ tasks[i].st # "new"
        /\ t.op = "list" => /\ t.st # "new" /\ t.ver <= ui.list_version
                            /\ t.st = "answered" /\ t.ans.st = "ok" => t.ans.rev >= seen
    BY <1>a, <2>3, <2>4, <2>5 DEF TaskInv
  <2> QED BY <2>2, <2>3, <2>5, <2>6, <2>7, TaskStep
<1>3. ASSUME NEW i \in DOMAIN tasks, Lose(i) PROVE ViewsInv'
  <2>0. PICK w \in {tasks[i], Inserted(tasks[i])} : tasks' = [tasks EXCEPT ![i] = Retried(w)]
    BY <1>3 DEF Lose
  <2> DEFINE t == Retried(w)
  <2>1. /\ tasks' = [tasks EXCEPT ![i] = t] /\ UNCHANGED <<ui, seen>>
        /\ tasks[i].st = "sent" /\ TaskInv(tasks[i])
    BY <1>3, <2>0 DEF ViewsInv, Lose
  <2>w. SameRequest(tasks[i], w)
    BY <2>1, InsertedIsSame DEF TaskInv
  <2>2. DOMAIN db' = TableFields /\ db'.rev \in Nat /\ db.rev <= db'.rev
    <3>1. db' = db \/ db' = Served(db, tasks[i]).d
      BY <1>3 DEF Lose
    <3> QED BY <1>a, <3>1, ServedFacts
  <2>3. /\ TaskTypes(t) /\ t.op = tasks[i].op /\ t.ver = tasks[i].ver
        /\ \/ t.st = "sent" /\ t.ans = tasks[i].ans
           \/ t.st = "answered" /\ t.ans.st = "net" /\ t.ans.rev = 0
    BY <2>1, <2>w, TaskNames DEF SameRequest, Retried, TaskInv, TaskTypes, NoAnswer
  <2> HIDE DEF t
  <2>4. Selects
    BY <1>a, <2>1 DEF Selects
  <2>5. /\ t.ans.rev <= db'.rev /\ tasks[i].st # "new"
        /\ t.op = "list" => /\ t.st # "new" /\ t.ver <= ui.list_version
                            /\ t.st = "answered" /\ t.ans.st = "ok" => t.ans.rev >= seen
    BY <1>a, <2>1, <2>2, <2>3 DEF TaskInv, TaskTypes
  <2> QED BY <2>1, <2>2, <2>3, <2>4, <2>5, TaskStep
<1>4. ASSUME NEW i \in DOMAIN tasks, Refuse(i) PROVE ViewsInv'
  <2>1. PICK st \in {"401", "403", "other"} :
               tasks' = [tasks EXCEPT ![i].st = "answered", ![i].ans.st = st]
    BY <1>4 DEF Refuse
  <2> DEFINE t == [tasks[i] EXCEPT !.st = "answered", !.ans.st = st]
  <2>2. /\ UNCHANGED <<ui, db, seen>>
        /\ tasks[i].st = "sent" /\ TaskInv(tasks[i])
    BY <1>4 DEF ViewsInv, Refuse
  <2>a. tasks' = [tasks EXCEPT ![i] = t]
    BY <2>1, <2>2, TaskNames DEF TaskInv, TaskTypes
  <2>3. /\ TaskTypes(t) /\ t.op = tasks[i].op /\ t.ver = tasks[i].ver
        /\ t.st = "answered" /\ t.ans.st # "ok" /\ t.ans.rev = tasks[i].ans.rev
    BY <2>2, TaskNames DEF TaskInv, TaskTypes
  <2> HIDE DEF t
  <2>4. Selects
    BY <1>a, <2>2 DEF Selects
  <2>5. /\ t.ans.rev <= db'.rev /\ tasks[i].st # "new"
        /\ t.op = "list" => /\ t.st # "new" /\ t.ver <= ui.list_version
                            /\ t.st = "answered" /\ t.ans.st = "ok" => t.ans.rev >= seen
    BY <1>a, <2>2, <2>3 DEF TaskInv, TaskTypes
  <2>6. DOMAIN db' = TableFields /\ db'.rev \in Nat /\ db.rev <= db'.rev
    BY <1>a, <2>2
  <2> QED BY <2>a, <2>2, <2>3, <2>4, <2>5, <2>6, TaskStep
<1> QED BY <1>1, <1>2, <1>3, <1>4

(* What an answer does to the signals *)
LEMMA WriteAnswered ==
  ASSUME NEW t, DOMAIN ui = SignalFields, ui.list_version \in Nat,
         NEW u, u = Adjusted(t) \/ u = Submitted(t)
  PROVE  /\ DOMAIN u = SignalFields
         /\ t.ans.st = "ok" => u.load /\ u.list_version = ui.list_version + 1
         /\ t.ans.st # "ok" => /\ u.list_version = ui.list_version /\ u.list = ui.list
                               /\ u.load = ui.load /\ u.page = ui.page
                               /\ u.per_page = ui.per_page
<1>1. CASE u = Adjusted(t)
  BY <1>1, SignalNames DEF Adjusted, BumpList
<1>2. CASE u = Submitted(t)
  BY <1>2, SignalNames DEF Submitted, BumpList
<1> QED BY <1>1, <1>2

LEMMA ListAnswered ==
  ASSUME NEW t, DOMAIN ui = SignalFields
  PROVE  /\ DOMAIN Loaded(t) = SignalFields
         /\ Loaded(t).list_version = ui.list_version /\ Loaded(t).load = ui.load
         /\ Loaded(t).page = ui.page /\ Loaded(t).per_page = ui.per_page
         /\ \/ Loaded(t).list = ui.list
            \/ Loaded(t).list.st = "error"
            \/ /\ ui.list_version = t.ver /\ ui.page = t.page /\ ui.per_page = t.per
               /\ t.ans.st = "ok"
               /\ Loaded(t).list.page = t.page /\ Loaded(t).list.per = t.per
               /\ Loaded(t).list.rev = t.ans.rev
BY SignalNames DEF Loaded, Stale, Loading

LEMMA FinishKeepsInv ==
  ASSUME ViewsInv, NEW i \in DOMAIN tasks, Finish(i)
  PROVE  ViewsInv'
<1> DEFINE t == tasks[i]
<1>1. /\ DOMAIN ui = SignalFields /\ ui.list_version \in Nat
      /\ seen \in Nat /\ seen <= db.rev /\ db.rev \in Nat /\ TaskInv(t) /\ ListInv
  BY DEF ViewsInv, ViewsTypes
<1>2. /\ t.st = "answered" /\ UNCHANGED db /\ tasks' = RemoveAt(tasks, i)
      /\ seen' = IF t.op # "list" /\ t.ans.st = "ok" /\ t.ans.rev > seen
                 THEN t.ans.rev ELSE seen
  BY DEF Finish, Own
<1>3. (\E k \in DOMAIN tasks : tasks[k].st = "new")
        => \E k \in DOMAIN tasks' : tasks'[k].st = "new"
  <2> SUFFICES ASSUME NEW k \in DOMAIN tasks, tasks[k].st = "new"
               PROVE  \E m \in DOMAIN tasks' : tasks'[m].st = "new"
    OBVIOUS
  <2>1. k \in DOMAIN tasks \ {i}
    BY <1>2
  <2>2. \E m \in DOMAIN tasks' : tasks'[m] = tasks[k]
    BY <1>2, <2>1, Removed DEF ViewsInv, ViewsTypes
  <2> QED BY <2>2
<1>4. seen' \in Nat /\ seen' <= db.rev
  BY <1>1, <1>2 DEF TaskInv, TaskTypes
<1>5. CASE t.op = "list"
  <2>1. ui' = Loaded(t) /\ seen' = seen
    BY <1>2, <1>5 DEF Finish
  <2>2. /\ DOMAIN ui' = SignalFields /\ ui'.list_version = ui.list_version
        /\ ui'.load = ui.load /\ ui'.page = ui.page /\ ui'.per_page = ui.per_page
        /\ \/ ui'.list = ui.list
           \/ ui'.list.st = "error"
           \/ /\ ui.list_version = t.ver /\ ui.page = t.page /\ ui.per_page = t.per
              /\ t.ans.st = "ok"
              /\ ui'.list.page = t.page /\ ui'.list.per = t.per
              /\ ui'.list.rev = t.ans.rev
    BY <1>1, <2>1, ListAnswered
  <2>3. ListInv'
    BY <1>1, <1>2, <1>3, <1>5, <2>1, <2>2 DEF ListInv, TaskInv
  <2> QED BY <1>2, <1>4, <2>1, <2>2, <2>3, FinishStep
<1>6. CASE t.op # "list"
  <2>1. ui' = Adjusted(t) \/ ui' = Submitted(t)
    BY <1>6 DEF Finish
  <2>2. /\ DOMAIN ui' = SignalFields
        /\ t.ans.st = "ok" => ui'.load /\ ui'.list_version = ui.list_version + 1
        /\ t.ans.st # "ok" => /\ ui'.list_version = ui.list_version /\ ui'.list = ui.list
                              /\ ui'.load = ui.load /\ ui'.page = ui.page
                              /\ ui'.per_page = ui.per_page
    BY <1>1, <2>1, WriteAnswered
  <2>3. t.ans.st # "ok" => seen' = seen
    BY <1>2
  <2>4. ListInv'
    BY <1>1, <1>3, <2>2, <2>3 DEF ListInv
  <2> QED BY <1>2, <1>4, <2>2, <2>3, <2>4, FinishStep
<1> QED BY <1>5, <1>6

LEMMA AnswerStep ==
  ASSUME ViewsInv, NEW i \in DOMAIN tasks,
         Check(i) \/ SessionEnded(i) \/ SignedOut(i) \/ Forbidden(i)
  PROVE  ViewsInv'
<1>a. /\ DOMAIN ui = SignalFields /\ DOMAIN db = TableFields /\ db.rev \in Nat
      /\ ui.list_version \in Nat /\ seen \in Nat /\ seen <= db.rev
      /\ TaskInv(tasks[i]) /\ ListInv
  BY DEF ViewsInv, ViewsTypes
<1>1. CASE SignedOut(i) \/ Forbidden(i)
  BY <1>1, UnmountStep DEF SignedOut, Forbidden
<1>2. CASE SessionEnded(i)
  <2> DEFINE t == [tasks[i] EXCEPT !.st = "leaving"]
  <2>1. /\ tasks' = [tasks EXCEPT ![i] = t] /\ UNCHANGED <<db, seen>>
        /\ tasks[i].st = "answered"
    BY <1>2 DEF SessionEnded
  <2>2. /\ TaskTypes(t) /\ t.op = tasks[i].op /\ t.ver = tasks[i].ver
        /\ t.st = "leaving" /\ t.ans = tasks[i].ans
    BY <1>a, TaskNames DEF TaskInv, TaskTypes
  <2> HIDE DEF t
  <2>3. Selects
    BY <1>2, <1>a, SignalNames DEF SessionEnded, Selects
  <2>4. /\ DOMAIN db' = TableFields /\ db'.rev \in Nat /\ db.rev <= db'.rev
        /\ t.ans.rev <= db'.rev /\ tasks[i].st # "new"
        /\ t.op = "list" => /\ t.st # "new" /\ t.ver <= ui.list_version
                            /\ t.st = "answered" /\ t.ans.st = "ok" => t.ans.rev >= seen
    BY <1>a, <2>1, <2>2 DEF TaskInv, TaskTypes
  <2> QED BY <2>1, <2>2, <2>3, <2>4, TaskStep
<1>3. CASE Check(i) /\ ~(tasks[i].count \/ ~is_admin)
  <2> DEFINE t == [Task("check") EXCEPT !.count = TRUE, !.ver = tasks[i].ver]
  <2>1. /\ tasks' = [tasks EXCEPT ![i] = t] /\ UNCHANGED <<ui, db, seen>>
        /\ tasks[i].st = "answered"
    BY <1>3 DEF Check, Own
  <2>2. TaskTypes(t) /\ t.op = "check" /\ t.ans.rev = 0
    BY FreshTask, TaskNames DEF TaskTypes
  <2> HIDE DEF t
  <2>3. Selects
    BY <1>a, <2>1 DEF Selects
  <2>4. /\ DOMAIN db' = TableFields /\ db'.rev \in Nat /\ db.rev <= db'.rev
        /\ t.ans.rev <= db'.rev /\ tasks[i].st # "new" /\ t.op # "list"
    BY <1>a, <2>1, <2>2
  <2> QED BY <2>1, <2>2, <2>3, <2>4, TaskStep
<1>4. CASE Check(i) /\ (tasks[i].count \/ ~is_admin)
  <2>1. /\ tasks' = RemoveAt(tasks, i) /\ UNCHANGED <<ui, db, seen>>
        /\ tasks[i].st = "answered"
    BY <1>4 DEF Check, Own
  <2>2. ListInv'
    <3>1. \A k \in DOMAIN tasks \ {i} : \E m \in DOMAIN tasks' : tasks'[m] = tasks[k]
      BY <2>1, Removed DEF ViewsInv, ViewsTypes
    <3> QED BY <1>a, <2>1, <3>1 DEF ListInv
  <2> QED BY <1>a, <2>1, <2>2, FinishStep
<1> QED BY <1>1, <1>2, <1>3, <1>4

LEMMA ViewsInvNext == ViewsInv /\ [ViewsNext]_viewsVars => ViewsInv'
<1> SUFFICES ASSUME ViewsInv, [ViewsNext]_viewsVars PROVE ViewsInv'
  OBVIOUS
<1>1. CASE User
  BY <1>1, UserStep
<1>2. CASE Browser
  BY <1>2, EffectStep, ServerStep, FinishKeepsInv, AnswerStep DEF Browser
<1>3. CASE Elsewhere \/ \E i \in DOMAIN tasks : Lose(i) \/ Refuse(i)
  BY <1>3, ServerStep
<1>4. CASE UNCHANGED viewsVars
  BY <1>4 DEF viewsVars, ViewsInv, ViewsTypes, TaskInv, TaskTypes, ListInv
<1> QED BY <1>1, <1>2, <1>3, <1>4 DEF ViewsNext

(* users.rs drops the answers of another version or page: for any number   *)
(* of clicks, tasks, losses and writes elsewhere, a list on the screen is  *)
(* the page and size selected, and is not older than any write of this     *)
(* view that has been answered.                                            *)
THEOREM ScreenIsCurrent == ViewsSpec => []ShownPageIsCurrent
<1>1. ViewsInv => ShownPageIsCurrent
  BY DEF ViewsInv, ListInv, ShownPageIsCurrent
<1> QED BY <1>1, ViewsInvInit, ViewsInvNext, PTL DEF ViewsSpec

-----------------------------------------------------------------------------
(***************************************************************************)
(* Users and Dashboard: nothing spins without work                         *)
(***************************************************************************)

(* A load whose answer will be shown, or a task that leaves the view. *)
LoadUnderWay(t) ==
  \/ t.st = "leaving"
  \/ t.op = "list" /\ t.st \in {"sent", "answered"} /\ ~Stale(t)

(* A submitted form, a confirmed deletion or an adjustment under way. *)
WriteUnderWay(t) == t.op \notin {"list", "check"} /\ t.st \in {"sent", "answered"}

(* The health check of the current version. *)
CheckUnderWay(t) == t.op = "check" /\ t.ver = dash.version

ListWorks ==
  ui.list.st = "loading" =>
    \/ ui.load
    \/ \E i \in DOMAIN tasks : tasks[i].st = "new" \/ LoadUnderWay(tasks[i])
FormWorks == ui.submitting => \E i \in DOMAIN tasks : WriteUnderWay(tasks[i])
CheckWorks == dash.checking => \E i \in DOMAIN tasks : CheckUnderWay(tasks[i])

(* A list that is loading, a form that is submitting and a health check    *)
(* that is running have a task of their own that will end them: the safety *)
(* half of NothingSpinsForever.                                            *)
SpinnersHaveWork == ListWorks /\ FormWorks /\ CheckWorks

(* Of the loads still to be started, the last is for the selected page,    *)
(* unless the load effect is queued again.                                 *)
NewestLoad ==
  \A i \in DOMAIN tasks : tasks[i].st = "new" =>
    /\ tasks[i].op = "list"
    /\ \/ ui.load
       \/ tasks[i].page = ui.page /\ tasks[i].per = ui.per_page
       \/ \E j \in DOMAIN tasks : j > i /\ tasks[j].st = "new"

DashFields == {"checking", "version", "health", "total_users"}

SpinInv == DOMAIN dash = DashFields /\ NewestLoad /\ SpinnersHaveWork

(* A task goes on: it is the same request, and was started if it was. *)
GoesOn(t, u) ==
  /\ u.op = t.op /\ u.ver = t.ver /\ u.page = t.page /\ u.per = t.per
  /\ \/ u.st = t.st
     \/ t.st \in {"sent", "answered"} /\ u.st \in {"sent", "answered", "leaving"}

(* Loads, when every task stays in its place and goes on *)
LEMMA LoadsGoOn ==
  ASSUME SpinInv, Selects,
         \A k \in DOMAIN tasks : k \in DOMAIN tasks' /\ GoesOn(tasks[k], tasks'[k]),
         \A m \in DOMAIN tasks' : tasks'[m].st = "new" => m \in DOMAIN tasks
  PROVE  NewestLoad' /\ ListWorks'
<1>1. NewestLoad'
  <2> SUFFICES ASSUME NEW m \in DOMAIN tasks', tasks'[m].st = "new"
               PROVE  /\ tasks'[m].op = "list"
                      /\ \/ ui'.load
                         \/ tasks'[m].page = ui'.page /\ tasks'[m].per = ui'.per_page
                         \/ \E j \in DOMAIN tasks' : j > m /\ tasks'[j].st = "new"
    BY DEF NewestLoad
  <2>1. m \in DOMAIN tasks /\ tasks[m].st = "new" /\ GoesOn(tasks[m], tasks'[m])
    BY DEF GoesOn
  <2>2. /\ tasks[m].op = "list"
        /\ \/ ui.load
           \/ tasks[m].page = ui.page /\ tasks[m].per = ui.per_page
           \/ \E j \in DOMAIN tasks : j > m /\ tasks[j].st = "new"
    BY <2>1 DEF SpinInv, NewestLoad
  <2>3. ASSUME NEW j \in DOMAIN tasks, j > m, tasks[j].st = "new"
        PROVE  j \in DOMAIN tasks' /\ tasks'[j].st = "new"
    BY <2>3 DEF GoesOn
  <2> QED BY <2>1, <2>2, <2>3 DEF GoesOn, Selects
<1>2. ListWorks'
  <2> SUFFICES ASSUME ui.list.st = "loading", ~ui'.load
               PROVE  \E i \in DOMAIN tasks' : tasks'[i].st = "new" \/ LoadUnderWay(tasks[i])'
    BY DEF ListWorks, Selects
  <2>1. /\ ~ui.load /\ ui'.page = ui.page /\ ui'.per_page = ui.per_page
        /\ ui'.list_version = ui.list_version
    BY DEF Selects
  <2>2. PICK i \in DOMAIN tasks : tasks[i].st = "new" \/ LoadUnderWay(tasks[i])
    BY <2>1 DEF SpinInv, SpinnersHaveWork, ListWorks
  <2>3. i \in DOMAIN tasks' /\ GoesOn(tasks[i], tasks'[i])
    OBVIOUS
  <2>4. tasks'[i].st = "new" \/ LoadUnderWay(tasks[i])'
    BY <2>1, <2>2, <2>3 DEF GoesOn, LoadUnderWay, Stale
  <2> QED BY <2>3, <2>4
<1> QED BY <1>1, <1>2

(* Something happens to a request under way, or to its answer. *)
LEMMA RequestGoesOn ==
  ASSUME ViewsInv, SpinInv, UNCHANGED <<ui, dash>>, NEW i \in DOMAIN tasks, NEW t,
         tasks' = [tasks EXCEPT ![i] = t],
         tasks[i].st = "sent", t.st \in {"sent", "answered"}, GoesOn(tasks[i], t)
  PROVE  SpinInv'
<1>1. /\ DOMAIN tasks' = DOMAIN tasks /\ tasks'[i] = t
      /\ \A j \in DOMAIN tasks \ {i} : tasks'[j] = tasks[j]
  BY Replaced DEF ViewsInv, ViewsTypes
<1>2. Selects
  BY DEF Selects, ViewsInv, ViewsTypes
<1>3. NewestLoad' /\ ListWorks'
  <2>1. \A k \in DOMAIN tasks : k \in DOMAIN tasks' /\ GoesOn(tasks[k], tasks'[k])
    BY <1>1 DEF GoesOn
  <2> QED BY <1>1, <1>2, <2>1, LoadsGoOn
<1>4. FormWorks' /\ CheckWorks'
  BY <1>1 DEF SpinInv, SpinnersHaveWork, FormWorks, CheckWorks, WriteUnderWay, CheckUnderWay, GoesOn
<1> QED BY <1>3, <1>4 DEF SpinInv, SpinnersHaveWork

(* A click that starts no request, and the effect on the search text *)
LEMMA SignalsGoOn ==
  ASSUME SpinInv, Selects, UNCHANGED <<tasks, dash>>, ui'.submitting => ui.submitting
  PROVE  SpinInv'
<1>1. NewestLoad' /\ ListWorks'
  BY LoadsGoOn DEF GoesOn
<1>2. FormWorks' /\ CheckWorks'
  BY DEF SpinInv, SpinnersHaveWork, FormWorks, CheckWorks, WriteUnderWay, CheckUnderWay
<1> QED BY <1>1, <1>2 DEF SpinInv, SpinnersHaveWork

(* A click that sends a request *)
LEMMA SpawnGoesOn ==
  ASSUME ViewsInv, SpinInv, Selects, NEW t, Spawn(t), t.st = "sent",
         \/ UNCHANGED dash /\ t.op \notin {"list", "check"}
         \/ /\ UNCHANGED ui /\ t.op = "check" /\ DOMAIN dash' = DashFields
            /\ t.ver = dash'.version
  PROVE  SpinInv'
<1>1. /\ DOMAIN tasks' = DOMAIN tasks \cup {Len(tasks) + 1}
      /\ \A i \in DOMAIN tasks : tasks'[i] = tasks[i]
      /\ tasks'[Len(tasks) + 1] = t
  BY Appended DEF Spawn, ViewsInv, ViewsTypes
<1>2. NewestLoad' /\ ListWorks'
  <2>1. \A k \in DOMAIN tasks : k \in DOMAIN tasks' /\ GoesOn(tasks[k], tasks'[k])
    BY <1>1 DEF GoesOn
  <2>2. \A m \in DOMAIN tasks' : tasks'[m].st = "new" => m \in DOMAIN tasks
    BY <1>1
  <2> QED BY <2>1, <2>2, LoadsGoOn
<1>3. FormWorks' /\ CheckWorks'
  BY <1>1 DEF SpinInv, SpinnersHaveWork, FormWorks, CheckWorks, WriteUnderWay, CheckUnderWay
<1> QED BY <1>2, <1>3 DEF SpinInv, SpinnersHaveWork

(* Mounting, and leaving a view with its tasks *)
LEMMA FreshWorks ==
  ASSUME tasks = <<>>, ui = UsersSignals, dash = DashboardSignals
  PROVE  SpinInv
<1>1. DOMAIN tasks = {}
  OBVIOUS
<1>2. ui.load /\ ~ui.submitting /\ ~dash.checking /\ DOMAIN dash = DashFields
  BY DEF UsersSignals, DashboardSignals, DashFields
<1> QED BY <1>1, <1>2 DEF SpinInv, SpinnersHaveWork, NewestLoad, ListWorks, FormWorks, CheckWorks

LEMMA UnmountGoesOn ==
  ASSUME Unmounted
  PROVE  SpinInv'
<1>1. DOMAIN tasks' = {}
  BY DEF Unmounted
<1>2. ui'.load /\ ~ui'.submitting /\ ~dash'.checking /\ DOMAIN dash' = DashFields
  BY DEF Unmounted, UsersSignals, DashboardSignals, DashFields
<1> QED BY <1>1, <1>2 DEF SpinInv, SpinnersHaveWork, NewestLoad, ListWorks, FormWorks, CheckWorks

LEMMA UserGoesOn ==
  ASSUME ViewsInv, SpinInv, User
  PROVE  SpinInv'
<1>a. DOMAIN ui = SignalFields /\ DOMAIN dash = DashFields
  BY DEF ViewsInv, ViewsTypes, SpinInv
<1>1. CASE open_create \/ edit_handler \/ delete_handler \/ close_all \/ Search
  <2>1. Selects /\ UNCHANGED <<tasks, dash>> /\ (ui'.submitting => ui.submitting)
    BY <1>1, <1>a, SignalNames
       DEF open_create, edit_handler, delete_handler, close_all, Search, OnPage, Click, Selects
  <2> QED BY <2>1, SignalsGoOn
<1>2. CASE on_prev \/ on_next \/ set_per_page
  <2>1. Selects /\ UNCHANGED <<tasks, dash>> /\ (ui'.submitting => ui.submitting)
    BY <1>2, <1>a, SignalNames DEF on_prev, on_next, set_per_page, OnPage, Click, Selects, SetPage
  <2> QED BY <2>1, SignalsGoOn
<1>3. CASE on_submit
  <2>1. Selects /\ UNCHANGED dash
    BY <1>3, <1>a, SignalNames DEF on_submit, Click, Selects
  <2>2. CASE UNCHANGED tasks /\ ui' = [ui EXCEPT !.form_error = TRUE]
    <3>1. ui'.submitting => ui.submitting
      BY <1>a, <2>2, SignalNames
    <3> QED BY <2>1, <2>2, <3>1, SignalsGoOn
  <2>3. CASE ~(UNCHANGED tasks /\ ui' = [ui EXCEPT !.form_error = TRUE])
    <3>1. PICK r : Spawn([Task(ui.modal_kind) EXCEPT !.role = r,
                            !.id = IF ui.editing_user = Nothing THEN 0 ELSE ui.editing_user.id])
      BY <1>3, <2>3 DEF on_submit
    <3> DEFINE t == [Task(ui.modal_kind) EXCEPT !.role = r,
                       !.id = IF ui.editing_user = Nothing THEN 0 ELSE ui.editing_user.id]
    <3>2. ui.modal_kind \notin {"list", "check"}
      BY <1>3 DEF on_submit
    <3>3. t.op \notin {"list", "check"} /\ t.st = "sent"
      BY <3>2, FreshTask, TaskNames DEF TaskTypes
    <3> HIDE DEF t
    <3> QED BY <2>1, <3>1, <3>3, SpawnGoesOn DEF t
  <2> QED BY <2>2, <2>3
<1>4. CASE on_confirm
  <2>1. Selects /\ UNCHANGED dash
    BY <1>4, <1>a, SignalNames DEF on_confirm, Click, Selects
  <2> DEFINE t == [Task("delete") EXCEPT !.id = ui.deleting_user.id]
  <2>2. t.op \notin {"list", "check"} /\ t.st = "sent"
    BY FreshTask, TaskNames DEF TaskTypes
  <2>3. Spawn(t)
    BY <1>4 DEF on_confirm
  <2> HIDE DEF t
  <2> QED BY <2>1, <2>2, <2>3, SpawnGoesOn
<1>5. ASSUME NEW m, adjust_handler(m) PROVE SpinInv'
  <2>1. Selects /\ UNCHANGED dash
    BY <1>5, <1>a, SignalNames DEF adjust_handler, Click, Selects
  <2> DEFINE t == [Task("adjust") EXCEPT !.id = ui.editing_user.id, !.amount = m]
  <2>2. t.op \notin {"list", "check"} /\ t.st = "sent"
    BY FreshTask, TaskNames DEF TaskTypes
  <2>3. (UNCHANGED tasks /\ ui' = [ui EXCEPT !.form_error = TRUE]) \/ Spawn(t)
    BY <1>5 DEF adjust_handler
  <2> HIDE DEF t
  <2>4. CASE UNCHANGED tasks /\ ui' = [ui EXCEPT !.form_error = TRUE]
    <3>1. ui'.submitting => ui.submitting
      BY <1>a, <2>4, SignalNames
    <3> QED BY <2>1, <2>4, <3>1, SignalsGoOn
  <2> QED BY <2>1, <2>2, <2>3, <2>4, SpawnGoesOn
<1>6. CASE on_run_health
  <2> DEFINE t == [Task("check") EXCEPT !.ver = dash.version + 1]
  <2>1. /\ Selects /\ Spawn(t) /\ UNCHANGED ui
        /\ DOMAIN dash' = DashFields /\ dash'.version = dash.version + 1
    BY <1>6, <1>a DEF on_run_health, Selects, DashFields
  <2>2. t.op = "check" /\ t.st = "sent" /\ t.ver = dash.version + 1
    BY FreshTask, TaskNames DEF TaskTypes
  <2> HIDE DEF t
  <2> QED BY <2>1, <2>2, SpawnGoesOn
<1>7. CASE Navigate
  BY <1>7, UnmountGoesOn DEF Navigate
<1> QED BY <1>1, <1>2, <1>3, <1>4, <1>5, <1>6, <1>7 DEF User

LEMMA EffectGoesOn ==
  ASSUME ViewsInv, SpinInv, SearchEffect \/ LoadEffect \/ \E i \in DOMAIN tasks : StartLoad(i)
  PROVE  SpinInv'
<1>a. DOMAIN ui = SignalFields /\ IsSequence(tasks)
  BY DEF ViewsInv, ViewsTypes
<1>1. CASE SearchEffect
  <2>1. Selects /\ UNCHANGED <<tasks, dash>> /\ (ui'.submitting => ui.submitting)
    BY <1>1, <1>a, SignalNames DEF SearchEffect, SetPage, Selects
  <2> QED BY <2>1, SignalsGoOn
<1>2. CASE LoadEffect
  <2> DEFINE t == [Task("list") EXCEPT !.st = "new", !.page = ui.page, !.per = ui.per_page]
  <2>1. t.st = "new" /\ t.op = "list" /\ t.page = ui.page /\ t.per = ui.per_page
    BY FreshTask, TaskNames DEF TaskTypes
  <2>2. tasks' = Append(tasks, t) /\ UNCHANGED dash
    BY <1>2 DEF LoadEffect
  <2> HIDE DEF t
  <2>3. /\ DOMAIN tasks' = DOMAIN tasks \cup {Len(tasks) + 1}
        /\ \A i \in DOMAIN tasks : tasks'[i] = tasks[i] /\ i < Len(tasks) + 1
        /\ tasks'[Len(tasks) + 1] = t
    <3>1. DOMAIN tasks = 1..Len(tasks) /\ Len(tasks) \in Nat
      BY <1>a, LenProperties DEF IsSequence
    <3> QED BY <1>a, <2>2, <3>1, Appended
  <2>4. ui'.page = ui.page /\ ui'.per_page = ui.per_page /\ ui'.submitting = ui.submitting
    BY <1>2, <1>a, SignalNames DEF LoadEffect
  <2>5. NewestLoad'
    BY <2>1, <2>3, <2>4 DEF SpinInv, NewestLoad
  <2>6. SpinnersHaveWork'
    BY <2>1, <2>2, <2>3, <2>4
       DEF SpinInv, SpinnersHaveWork, ListWorks, FormWorks, CheckWorks, WriteUnderWay, CheckUnderWay
  <2> QED BY <2>2, <2>5, <2>6 DEF SpinInv
<1>3. ASSUME NEW i \in DOMAIN tasks, StartLoad(i) PROVE SpinInv'
  <2> DEFINE t == [tasks[i] EXCEPT !.st = "sent", !.ver = ui.list_version]
  <2>1. /\ TaskTypes(tasks[i]) /\ tasks[i].st = "new" /\ UNCHANGED dash
        /\ \A j \in 1..(i - 1) : tasks[j].st # "new"
    BY <1>3 DEF ViewsInv, TaskInv, StartLoad
  <2>2. /\ t.st = "sent" /\ t.ver = ui.list_version /\ t.op = tasks[i].op
        /\ t.page = tasks[i].page /\ t.per = tasks[i].per
    BY <2>1, TaskNames DEF TaskTypes
  <2>3. tasks' = [tasks EXCEPT ![i] = t]
    BY <1>3 DEF StartLoad
  <2> HIDE DEF t
  <2>4. /\ DOMAIN tasks' = DOMAIN tasks /\ tasks'[i] = t
        /\ \A k \in DOMAIN tasks \ {i} : tasks'[k] = tasks[k]
    BY <1>a, <2>3, Replaced
  <2>5. /\ ui'.list_version = ui.list_version /\ ui'.load = ui.load /\ ui'.page = ui.page
        /\ ui'.per_page = ui.per_page /\ ui'.submitting = ui.submitting
    BY <1>3, <1>a, SignalNames DEF StartLoad
  <2>6. \A k \in DOMAIN tasks : tasks[k].st = "new" => k = i \/ k > i
    <3>1. DOMAIN tasks = 1..Len(tasks) /\ Len(tasks) \in Nat
      BY <1>a, LenProperties DEF IsSequence
    <3> QED BY <2>1, <3>1
  <2>7. NewestLoad'
    <3> SUFFICES ASSUME NEW m \in DOMAIN tasks', tasks'[m].st = "new"
                 PROVE  /\ tasks'[m].op = "list"
                        /\ \/ ui'.load
                           \/ tasks'[m].page = ui'.page /\ tasks'[m].per = ui'.per_page
                           \/ \E j \in DOMAIN tasks' : j > m /\ tasks'[j].st = "new"
      BY DEF NewestLoad
    <3>1. m \in DOMAIN tasks \ {i} /\ tasks'[m] = tasks[m]
      BY <2>2, <2>4
    <3>2. m > i /\ m \in Int /\ i \in Int
      <4>1. DOMAIN tasks = 1..Len(tasks) /\ Len(tasks) \in Nat
        BY <1>a, LenProperties DEF IsSequence
      <4> QED BY <2>6, <3>1, <4>1
    <3>3. ASSUME NEW j \in DOMAIN tasks, j > m, tasks[j].st = "new"
          PROVE  j \in DOMAIN tasks' /\ tasks'[j].st = "new"
      <4>1. j # i
        BY <3>2, <3>3
      <4> QED BY <2>4, <3>3, <4>1
    <3> QED BY <2>5, <3>1, <3>3 DEF SpinInv, NewestLoad
  <2>8. ListWorks'
    <3> SUFFICES ASSUME ~ui'.load, \A j \in DOMAIN tasks' : tasks'[j].st # "new"
                 PROVE  LoadUnderWay(tasks[i])'
      BY <2>4 DEF ListWorks
    <3>1. \A j \in DOMAIN tasks : j > i => tasks[j].st # "new"
      <4> SUFFICES ASSUME NEW j \in DOMAIN tasks, j > i PROVE tasks[j].st # "new"
        OBVIOUS
      <4>1. i \in Int
        BY <1>a, LenProperties DEF IsSequence
      <4>2. j # i
        BY <4>1
      <4> QED BY <2>4, <4>2
    <3>2. tasks[i].op = "list" /\ tasks[i].page = ui.page /\ tasks[i].per = ui.per_page
      BY <2>1, <2>5, <3>1 DEF SpinInv, NewestLoad
    <3> QED BY <2>2, <2>4, <2>5, <3>2 DEF LoadUnderWay, Stale
  <2>9. FormWorks' /\ CheckWorks'
    <3>1. tasks[i].op = "list"
      BY <2>1 DEF SpinInv, NewestLoad
    <3> QED BY <2>1, <2>2, <2>4, <2>5, <3>1
            DEF SpinInv, SpinnersHaveWork, FormWorks, CheckWorks, WriteUnderWay, CheckUnderWay
  <2> QED BY <2>1, <2>7, <2>8, <2>9 DEF SpinInv, SpinnersHaveWork
<1> QED BY <1>1, <1>2, <1>3

(* The server and the network *)
LEMMA ServerGoesOn ==
  ASSUME ViewsInv, SpinInv,
         Elsewhere \/ \E i \in DOMAIN tasks : ServeTask(i) \/ Lose(i) \/ Refuse(i)
  PROVE  SpinInv'
<1>1. CASE Elsewhere
  <2>1. Selects /\ UNCHANGED <<ui, tasks, dash>>
    BY <1>1 DEF Elsewhere, Selects, ViewsInv, ViewsTypes
  <2> QED BY <2>1, SignalsGoOn
<1>2. ASSUME NEW i \in DOMAIN tasks, ServeTask(i) PROVE SpinInv'
  <2> DEFINE r == Served(db, tasks[i])
  <2>1. PICK n : tasks' = [tasks EXCEPT ![i].st = "answered",
                                        ![i].ans = [r.ans EXCEPT !.total = n]]
    BY <1>2 DEF ServeTask
  <2> DEFINE t == [tasks[i] EXCEPT !.st = "answered", !.ans = [r.ans EXCEPT !.total = n]]
  <2>2. tasks' = [tasks EXCEPT ![i] = t]
    BY <2>1
  <2>3. TaskTypes(tasks[i]) /\ tasks[i].st = "sent" /\ UNCHANGED <<ui, dash>>
    BY <1>2 DEF ViewsInv, TaskInv, ServeTask
  <2> HIDE DEF r
  <2>4. t.st = "answered" /\ GoesOn(tasks[i], t)
    BY <2>3, TaskNames DEF TaskTypes, GoesOn
  <2> HIDE DEF t
  <2> QED BY <2>2, <2>3, <2>4, RequestGoesOn
<1>3. ASSUME NEW i \in DOMAIN tasks, Lose(i) PROVE SpinInv'
  <2>0. PICK w \in {tasks[i], Inserted(tasks[i])} : tasks' = [tasks EXCEPT ![i] = Retried(w)]
    BY <1>3 DEF Lose
  <2> DEFINE t == Retried(w)
  <2>1. /\ tasks' = [tasks EXCEPT ![i] = t] /\ UNCHANGED <<ui, dash>>
        /\ tasks[i].st = "sent" /\ TaskTypes(tasks[i])
    BY <1>3, <2>0 DEF ViewsInv, TaskInv, Lose
  <2>w. SameRequest(tasks[i], w)
    BY <2>1, InsertedIsSame
  <2>2. t.st \in {"sent", "answered"} /\ GoesOn(tasks[i], t)
    BY <2>1, <2>w, TaskNames DEF SameRequest, Retried, TaskTypes, GoesOn
  <2> HIDE DEF t
  <2> QED BY <2>1, <2>2, RequestGoesOn
<1>4. ASSUME NEW i \in DOMAIN tasks, Refuse(i) PROVE SpinInv'
  <2>1. PICK st \in {"401", "403", "other"} :
               tasks' = [tasks EXCEPT ![i].st = "answered", ![i].ans.st = st]
    BY <1>4 DEF Refuse
  <2> DEFINE t == [tasks[i] EXCEPT !.st = "answered", !.ans.st = st]
  <2>2. UNCHANGED <<ui, dash>> /\ tasks[i].st = "sent" /\ TaskTypes(tasks[i])
    BY <1>4 DEF ViewsInv, TaskInv, Refuse
  <2>3. tasks' = [tasks EXCEPT ![i] = t]
    BY <2>1, <2>2, TaskNames DEF TaskTypes
  <2>4. t.st = "answered" /\ GoesOn(tasks[i], t)
    BY <2>2, TaskNames DEF TaskTypes, GoesOn
  <2> HIDE DEF t
  <2> QED BY <2>2, <2>3, <2>4, RequestGoesOn
<1> QED BY <1>1, <1>2, <1>3, <1>4

(* A task that is over goes; the loads still to be started keep their order. *)
LEMMA RemovedGoesOn ==
  ASSUME ViewsInv, SpinInv, NEW i \in DOMAIN tasks, tasks[i].st # "new",
         tasks' = RemoveAt(tasks, i),
         ui'.load \/ (ui'.load = ui.load /\ ui'.page = ui.page /\ ui'.per_page = ui.per_page)
  PROVE  /\ NewestLoad'
         /\ \A k \in DOMAIN tasks \ {i} : \E j \in DOMAIN tasks' : tasks'[j] = tasks[k]
<1>1. /\ \A j \in DOMAIN tasks' : \E k \in DOMAIN tasks :
           /\ tasks'[j] = tasks[k]
           /\ \A l \in DOMAIN tasks \ {i} :
                l > k => \E m \in DOMAIN tasks' : m > j /\ tasks'[m] = tasks[l]
      /\ \A k \in DOMAIN tasks \ {i} : \E j \in DOMAIN tasks' : tasks'[j] = tasks[k]
  BY Removed DEF ViewsInv, ViewsTypes
<1>2. NewestLoad'
  <2> SUFFICES ASSUME NEW j \in DOMAIN tasks', tasks'[j].st = "new"
               PROVE  /\ tasks'[j].op = "list"
                      /\ \/ ui'.load
                         \/ tasks'[j].page = ui'.page /\ tasks'[j].per = ui'.per_page
                         \/ \E m \in DOMAIN tasks' : m > j /\ tasks'[m].st = "new"
    BY DEF NewestLoad
  <2>1. PICK k \in DOMAIN tasks :
           /\ tasks'[j] = tasks[k]
           /\ \A l \in DOMAIN tasks \ {i} :
                l > k => \E m \in DOMAIN tasks' : m > j /\ tasks'[m] = tasks[l]
    BY <1>1
  <2>2. /\ tasks[k].op = "list"
        /\ \/ ui.load
           \/ tasks[k].page = ui.page /\ tasks[k].per = ui.per_page
           \/ \E l \in DOMAIN tasks : l > k /\ tasks[l].st = "new"
    BY <2>1 DEF SpinInv, NewestLoad
  <2>3. ASSUME NEW l \in DOMAIN tasks, l > k, tasks[l].st = "new"
        PROVE  \E m \in DOMAIN tasks' : m > j /\ tasks'[m].st = "new"
    <3>1. l \in DOMAIN tasks \ {i}
      BY <2>3
    <3>2. PICK m \in DOMAIN tasks' : m > j /\ tasks'[m] = tasks[l]
      BY <2>1, <2>3, <3>1
    <3> QED BY <2>3, <3>2
  <2> QED BY <2>1, <2>2, <2>3
<1> QED BY <1>1, <1>2

(* What an answer does to the form, and to a list that was loading *)
LEMMA AnswersEndWaiting ==
  ASSUME NEW t, DOMAIN ui = SignalFields
  PROVE  /\ ~Adjusted(t).submitting /\ ~Submitted(t).submitting
         /\ Loaded(t).submitting = ui.submitting
         /\ ~Stale(t) => Loaded(t).list.st # "loading"
BY SignalNames DEF Adjusted, Submitted, BumpList, Loaded, Loading

LEMMA FinishGoesOn ==
  ASSUME ViewsInv, SpinInv, NEW i \in DOMAIN tasks, Finish(i)
  PROVE  SpinInv'
<1> DEFINE t == tasks[i]
<1>1. DOMAIN ui = SignalFields /\ ui.list_version \in Nat
  BY DEF ViewsInv, ViewsTypes
<1>2. /\ t.st = "answered" /\ t.op # "check" /\ UNCHANGED dash
      /\ tasks' = RemoveAt(tasks, i)
  BY DEF Finish, Own
<1>3. CASE t.op = "list"
  <2>1. ui' = Loaded(t)
    BY <1>3 DEF Finish
  <2>2. /\ ui'.list_version = ui.list_version /\ ui'.load = ui.load
        /\ ui'.page = ui.page /\ ui'.per_page = ui.per_page
        /\ ui'.submitting = ui.submitting
        /\ Stale(t) => ui' = ui
        /\ ~Stale(t) => ui'.list.st # "loading"
    BY <1>1, <2>1, ListAnswered, AnswersEndWaiting DEF Loaded
  <2>3. /\ NewestLoad'
        /\ \A k \in DOMAIN tasks \ {i} : \E j \in DOMAIN tasks' : tasks'[j] = tasks[k]
    BY <1>2, <2>2, RemovedGoesOn
  <2>4. ListWorks'
    <3> SUFFICES ASSUME ui'.list.st = "loading", ~ui'.load
                 PROVE  \E j \in DOMAIN tasks' : tasks'[j].st = "new" \/ LoadUnderWay(tasks[j])'
      BY DEF ListWorks
    <3>1. Stale(t) /\ ui' = ui
      BY <2>2
    <3>2. PICK k \in DOMAIN tasks : tasks[k].st = "new" \/ LoadUnderWay(tasks[k])
      BY <3>1 DEF SpinInv, SpinnersHaveWork, ListWorks
    <3>3. k # i
      BY <1>2, <3>1, <3>2 DEF LoadUnderWay
    <3>4. PICK j \in DOMAIN tasks' : tasks'[j] = tasks[k]
      BY <2>3, <3>3
    <3> QED BY <3>1, <3>2, <3>4 DEF LoadUnderWay, Stale
  <2>5. FormWorks' /\ CheckWorks'
    BY <1>2, <1>3, <2>2, <2>3
       DEF SpinInv, SpinnersHaveWork, FormWorks, CheckWorks, WriteUnderWay, CheckUnderWay
  <2> QED BY <1>2, <2>3, <2>4, <2>5 DEF SpinInv, SpinnersHaveWork
<1>4. CASE t.op # "list"
  <2>1. ui' = Adjusted(t) \/ ui' = Submitted(t)
    BY <1>4 DEF Finish
  <2>2. /\ ~ui'.submitting
        /\ \/ ui'.load
           \/ /\ ui'.list_version = ui.list_version /\ ui'.list = ui.list
              /\ ui'.load = ui.load /\ ui'.page = ui.page /\ ui'.per_page = ui.per_page
    BY <1>1, <2>1, WriteAnswered, AnswersEndWaiting
  <2>3. /\ NewestLoad'
        /\ \A k \in DOMAIN tasks \ {i} : \E j \in DOMAIN tasks' : tasks'[j] = tasks[k]
    BY <1>2, <2>2, RemovedGoesOn
  <2>4. ListWorks'
    <3> SUFFICES ASSUME ui'.list.st = "loading", ~ui'.load
                 PROVE  \E j \in DOMAIN tasks' : tasks'[j].st = "new" \/ LoadUnderWay(tasks[j])'
      BY DEF ListWorks
    <3>1. PICK k \in DOMAIN tasks : tasks[k].st = "new" \/ LoadUnderWay(tasks[k])
      BY <2>2 DEF SpinInv, SpinnersHaveWork, ListWorks
    <3>2. k # i
      BY <1>2, <1>4, <3>1 DEF LoadUnderWay
    <3>3. PICK j \in DOMAIN tasks' : tasks'[j] = tasks[k]
      BY <2>3, <3>2
    <3> QED BY <2>2, <3>1, <3>3 DEF LoadUnderWay, Stale
  <2>5. FormWorks' /\ CheckWorks'
    BY <1>2, <2>2, <2>3
       DEF SpinInv, SpinnersHaveWork, FormWorks, CheckWorks, CheckUnderWay
  <2> QED BY <1>2, <2>3, <2>4, <2>5 DEF SpinInv, SpinnersHaveWork
<1> QED BY <1>3, <1>4

LEMMA AnswerGoesOn ==
  ASSUME ViewsInv, SpinInv, NEW i \in DOMAIN tasks,
         Check(i) \/ SessionEnded(i) \/ SignedOut(i) \/ Forbidden(i)
  PROVE  SpinInv'
<1>a. /\ DOMAIN ui = SignalFields /\ DOMAIN dash = DashFields
      /\ TaskTypes(tasks[i]) /\ IsSequence(tasks)
  BY DEF ViewsInv, ViewsTypes, TaskInv, SpinInv
<1>1. CASE SignedOut(i) \/ Forbidden(i)
  BY <1>1, UnmountGoesOn DEF SignedOut, Forbidden
<1>2. CASE SessionEnded(i)
  <2> DEFINE t == [tasks[i] EXCEPT !.st = "leaving"]
  <2>1. tasks' = [tasks EXCEPT ![i] = t] /\ tasks[i].st = "answered"
    BY <1>2 DEF SessionEnded
  <2>2. GoesOn(tasks[i], t) /\ t.st = "leaving"
    BY <1>a, <2>1, TaskNames DEF TaskTypes, GoesOn
  <2> HIDE DEF t
  <2>3. /\ DOMAIN tasks' = DOMAIN tasks /\ tasks'[i] = t
        /\ \A j \in DOMAIN tasks \ {i} : tasks'[j] = tasks[j]
    BY <1>a, <2>1, Replaced
  <2>4. /\ Selects /\ (ui'.submitting => ui.submitting /\ tasks[i].op = "list")
        /\ DOMAIN dash' = DashFields /\ dash'.checking = dash.checking
        /\ dash'.version = dash.version
    BY <1>2, <1>a, SignalNames DEF SessionEnded, Selects, DashFields
  <2>5. NewestLoad' /\ ListWorks'
    <3>1. \A k \in DOMAIN tasks : k \in DOMAIN tasks' /\ GoesOn(tasks[k], tasks'[k])
      BY <2>2, <2>3 DEF GoesOn
    <3> QED BY <2>3, <2>4, <3>1, LoadsGoOn
  <2>6. FormWorks' /\ CheckWorks'
    BY <2>2, <2>3, <2>4
       DEF SpinInv, SpinnersHaveWork, FormWorks, CheckWorks, WriteUnderWay, CheckUnderWay, GoesOn
  <2> QED BY <2>4, <2>5, <2>6 DEF SpinInv, SpinnersHaveWork
<1>3. CASE Check(i) /\ ~(tasks[i].count \/ ~is_admin)
  <2> DEFINE t == [Task("check") EXCEPT !.count = TRUE, !.ver = tasks[i].ver]
  <2>1. /\ tasks' = [tasks EXCEPT ![i] = t] /\ UNCHANGED ui
        /\ tasks[i].st = "answered" /\ tasks[i].op = "check" /\ dash' = HealthChecked(tasks[i])
    BY <1>3 DEF Check, Own
  <2>2. t.op = "check" /\ t.st = "sent" /\ t.ver = tasks[i].ver
    BY FreshTask, TaskNames DEF TaskTypes
  <2> HIDE DEF t
  <2>3. /\ DOMAIN tasks' = DOMAIN tasks /\ tasks'[i] = t
        /\ \A j \in DOMAIN tasks \ {i} : tasks'[j] = tasks[j]
    BY <1>a, <2>1, Replaced
  <2>4. /\ DOMAIN dash' = DashFields /\ dash'.checking = dash.checking
        /\ dash'.version = dash.version
    BY <1>a, <2>1 DEF HealthChecked, DashFields
  <2>5. NewestLoad'
    BY <2>1, <2>2, <2>3 DEF SpinInv, NewestLoad
  <2>6. ListWorks'
    BY <2>1, <2>2, <2>3 DEF SpinInv, SpinnersHaveWork, ListWorks, LoadUnderWay, Stale
  <2>7. FormWorks' /\ CheckWorks'
    BY <2>1, <2>2, <2>3, <2>4
       DEF SpinInv, SpinnersHaveWork, FormWorks, CheckWorks, WriteUnderWay, CheckUnderWay
  <2> QED BY <2>4, <2>5, <2>6, <2>7 DEF SpinInv, SpinnersHaveWork
<1>4. CASE Check(i) /\ (tasks[i].count \/ ~is_admin)
  <2>1. /\ tasks' = RemoveAt(tasks, i) /\ UNCHANGED ui
        /\ tasks[i].st = "answered" /\ tasks[i].op = "check"
        /\ \E d \in {UserCounted(tasks[i]), HealthChecked(tasks[i])} :
             dash' = CheckDone(d, tasks[i])
    BY <1>4 DEF Check, Own
  <2>2. /\ DOMAIN dash' = DashFields
        /\ dash'.checking => dash' = dash /\ dash.version # tasks[i].ver
    <3>1. PICK d \in {UserCounted(tasks[i]), HealthChecked(tasks[i])} :
               dash' = CheckDone(d, tasks[i])
      BY <2>1
    <3>2. /\ DOMAIN d = DashFields /\ d.version = dash.version
          /\ dash.version # tasks[i].ver => d = dash
      BY <1>a DEF UserCounted, HealthChecked, DashFields
    <3> QED BY <3>1, <3>2 DEF CheckDone, DashFields
  <2>3. /\ NewestLoad'
        /\ \A k \in DOMAIN tasks \ {i} : \E j \in DOMAIN tasks' : tasks'[j] = tasks[k]
    BY <2>1, RemovedGoesOn
  <2>4. ListWorks'
    BY <2>1, <2>3 DEF SpinInv, SpinnersHaveWork, ListWorks, LoadUnderWay, Stale
  <2>5. FormWorks' /\ CheckWorks'
    BY <2>1, <2>2, <2>3
       DEF SpinInv, SpinnersHaveWork, FormWorks, CheckWorks, WriteUnderWay, CheckUnderWay
  <2> QED BY <2>2, <2>3, <2>4, <2>5 DEF SpinInv, SpinnersHaveWork
<1> QED BY <1>1, <1>2, <1>3, <1>4

LEMMA SpinInvNext == ViewsInv /\ SpinInv /\ [ViewsNext]_viewsVars => SpinInv'
<1> SUFFICES ASSUME ViewsInv, SpinInv, [ViewsNext]_viewsVars PROVE SpinInv'
  OBVIOUS
<1>1. CASE User
  BY <1>1, UserGoesOn
<1>2. CASE Browser
  BY <1>2, EffectGoesOn, ServerGoesOn, FinishGoesOn, AnswerGoesOn DEF Browser
<1>3. CASE Elsewhere \/ \E i \in DOMAIN tasks : Lose(i) \/ Refuse(i)
  BY <1>3, ServerGoesOn
<1>4. CASE UNCHANGED viewsVars
  <2>1. Selects /\ UNCHANGED <<ui, tasks, dash>>
    BY <1>4 DEF viewsVars, Selects, ViewsInv, ViewsTypes
  <2> QED BY <2>1, SignalsGoOn
<1> QED BY <1>1, <1>2, <1>3, <1>4 DEF ViewsNext

(* users.rs and dashboard.rs never leave a spinner behind: however answers *)
(* are dropped as stale, lost or refused, a list that is loading has its   *)
(* load effect queued or a load whose answer will be shown, a form that is *)
(* submitting has its request under way, and a running health check has a  *)
(* task of the current version.                                            *)
THEOREM SpinnersEnd == ViewsSpec => []SpinnersHaveWork
<1>1. ViewsInit => SpinInv
  BY FreshWorks DEF ViewsInit
<1>2. SpinInv => SpinnersHaveWork
  BY DEF SpinInv
<1> QED BY <1>1, <1>2, SpinInvNext, ViewsInvInit, ViewsInvNext, PTL DEF ViewsSpec

----------------------------------------------------------------------------
(***************************************************************************)
(* The gateway: what the two frameworks' middlewares do with a request is  *)
(* the same, piece by piece and then chain by chain.                       *)
(***************************************************************************)
(* extract_client_ip, the peer's address, the email of the body: the two   *)
(* limiters charge the same counters in the same order.                    *)
LEMMA LimitersAgree ==
  ASSUME NEW g, NEW r, NEW lim, lim.available \in BOOLEAN, NEW h
  PROVE  RateLimitMiddleware(g, r, lim, h)
           = rate_limit_middleware(g, r, lim, h)
<1> DEFINE ip == FirstOf(extract_client_ip(r), r.peer)
           byIp == IF ip = None THEN Verdict("next", h)
                   ELSE Charge(<<g.key_prefix, "ip", ip>>, g.ip_max_requests, lim, h)
           email == extract_email_from_body(r)
           byEmail == IF r.body = "broken" THEN Verdict("500", byIp.hits)
                      ELSE IF email = None THEN byIp
                      ELSE Charge(<<g.key_prefix, "email", email>>, g.email_max_requests,
                                  lim, byIp.hits)
           all == IF ~lim.available THEN Verdict("next", h)
                  ELSE IF byIp.verdict # "next" \/ g.email_max_requests = None THEN byIp
                  ELSE byEmail
<1>1. rate_limit_middleware(g, r, lim, h) = all
  BY DEF rate_limit_middleware
<1>2. RateLimitMiddleware(g, r, lim, h) = all
  BY DEF RateLimitMiddleware, FirstOf
<1> QED BY <1>1, <1>2

(* auth_middleware and AuthMiddleware look for the token in the same order. *)
LEMMA TokensAgree ==
  ASSUME NEW e, NEW r, NEW version
  PROVE  AuthMiddleware(e, r, version) = auth_middleware(e, r, version)
BY DEF AuthMiddleware, auth_middleware, SalvoToken, AxumToken, FirstOf

(* apply_admin_guard of the two crates.                                    *)
LEMMA GuardsAgree ==
  ASSUME NEW u
  PROVE  RequireAdmin(u) = require_admin(u)
BY DEF RequireAdmin, require_admin

(* The body salvo's limiter cached is not read again, and could be read:   *)
(* axum's second reading cannot fail either.                               *)
LEMMA BodiesAgree ==
  ASSUME NEW g, NEW r, NEW lim, lim.available \in BOOLEAN, NEW h,
         g # None,
         rate_limit_middleware(g, r, lim, h).verdict = "next"
  PROVE  UnifiedHandler(g, r, lim.available) = from_request(r)
<1>1. CASE lim.available /\ g.email_max_requests # None /\ r.body = "broken"
  BY <1>1 DEF rate_limit_middleware, Verdict
<1>2. CASE ~(lim.available /\ g.email_max_requests # None /\ r.body = "broken")
  BY <1>2 DEF UnifiedHandler, from_request
<1> QED BY <1>1, <1>2

(* One gateway: any route, request, version, claim and limiter.             *)
LEMMA ChainsAgree ==
  ASSUME NEW route, NEW r, NEW version, NEW claim, NEW lim, lim.available \in BOOLEAN, NEW h
  PROVE  SalvoChain(route, r, version, claim, lim, h)
           = AxumChain(route, r, version, claim, lim, h)
<1> DEFINE e == route.handler
           g == make_guard(e)
           l == rate_limit_middleware(g, r, lim, h)
           a == auth_middleware(e, r, version)
           b == IF route.admin THEN require_admin(AuthUser(a, claim)) ELSE "next"
<1>1. CASE e \in Public
  <2>1. AxumChain(route, r, version, claim, lim, h)
          = IF l.verdict = "next" THEN Verdict(from_request(r), l.hits) ELSE l
    BY <1>1 DEF AxumChain
  <2>2. SalvoChain(route, r, version, claim, lim, h)
          = IF l.verdict # "next" THEN l ELSE Verdict(UnifiedHandler(g, r, lim.available), l.hits)
    BY <1>1, LimitersAgree DEF SalvoChain
  <2>3. l.verdict = "next" => UnifiedHandler(g, r, lim.available) = from_request(r)
    BY <1>1, BodiesAgree, NoneIsAbsent
  <2> HIDE DEF l, g
  <2> QED BY <2>1, <2>2, <2>3
<1>2. CASE e \notin Public
  <2>1. UnifiedHandler(None, r, lim.available) = from_request(r)
    BY DEF UnifiedHandler, from_request
  <2>2. /\ AuthMiddleware(e, r, version) = a
        /\ RequireAdmin(AuthUser(a, claim)) = require_admin(AuthUser(a, claim))
    BY TokensAgree, GuardsAgree
  <2>3. AxumChain(route, r, version, claim, lim, h)
          = Verdict(IF e = "none" THEN "404" ELSE IF a # "next" THEN a
                    ELSE IF b # "next" THEN b ELSE from_request(r), h)
    BY <1>2 DEF AxumChain
  <2>4. SalvoChain(route, r, version, claim, lim, h)
          = Verdict(CASE e = "none" -> "404"
                      [] e # "none" /\ a # "next" -> a
                      [] e # "none" /\ a = "next" /\ b # "next" -> b
                      [] OTHER -> from_request(r), h)
    BY <1>2, <2>1, <2>2 DEF SalvoChain
  <2> HIDE DEF a, b, e
  <2> QED BY <2>3, <2>4
<1> QED BY <1>1, <1>2

(* The same origins are let in exactly when the two crates keep the same   *)
(* origins of the configuration.                                           *)
LEMMA SameOrigins ==
  ASSUME NEW allowed, NEW env, \A o \in allowed : o.header \in BOOLEAN /\ o.scheme \in BOOLEAN
  PROVE  configure_cors(allowed, env) = CorsConfig(allowed, env)
           <=> \A o \in allowed : o.header = o.scheme
<1> DEFINE origins == {o \in allowed : o.header}
           valid == {o \in allowed : o.scheme}
           any(kept) == kept = {} /\ env = "development"
<1>1. configure_cors(allowed, env) = Cors(any(origins), origins)
  BY DEF configure_cors
<1>2. CorsConfig(allowed, env) = Cors(any(valid), valid)
  BY DEF CorsConfig
<1>3. \A x, y : Cors(x, y).origins = y
  BY DEF Cors
<1>4. origins = valid <=> \A o \in allowed : o.header = o.scheme
  OBVIOUS
<1> HIDE DEF origins, valid
<1> QED BY <1>1, <1>2, <1>3, <1>4

LEMMA OriginsDoAgree == OriginsAgree
<1>1. \A o \in Origin : o.header \in BOOLEAN /\ o.scheme \in BOOLEAN
  BY DEF Origin
<1> QED BY <1>1, SameOrigins DEF OriginsAgree

(* Where a task may have a request under way: the endpoints of Endpoint.   *)
Calls == {"refresh", "login", "reset", "logout", "interceptLogout", "guardLogout", "me",
          "meAgain", "loginMe", "persistMe", "logoutAll", "password", "page"}

PublicCalls == {"refresh", "login", "reset", "logout", "interceptLogout", "guardLogout"}

LEMMA PublicEndpoints ==
  ASSUME NEW pc \in PublicCalls
  PROVE  /\ Endpoint(pc).path[1] = "public"
         /\ Endpoint(pc).path[3] = "login" <=> pc = "login"
BY DEF PublicCalls, Endpoint

LEMMA OtherEndpoints ==
  ASSUME NEW pc \in Calls \ PublicCalls
  PROVE  \/ Endpoint(pc) = [path |-> <<"users", "me">>, method |-> "GET"]
         \/ Endpoint(pc) = [path |-> <<"users", "me", "logout-all">>, method |-> "POST"]
         \/ Endpoint(pc) = [path |-> <<"users", "me", "password">>, method |-> "POST"]
         \/ Endpoint(pc) = [path |-> <<"users">>, method |-> "GET"]
BY DEF Calls, PublicCalls, Endpoint

(* api_routes by index: the provers do not evaluate a tuple of records.    *)
LEMMA RouteTable ==
  /\ DOMAIN api_routes = 1..11
  /\ api_routes[1] = Route(<<"health">>, "GET", "health_check", FALSE)
  /\ api_routes[2] = Route(<<"users", "me">>, "GET", "get_me", FALSE)
  /\ api_routes[3] = Route(<<"users", "me", "password">>, "POST", "change_my_password", FALSE)
  /\ api_routes[4] = Route(<<"users", "me", "logout-all">>, "POST", "logout_all", FALSE)
  /\ api_routes[5] = Route(<<"users">>, "GET", "list_users", TRUE)
  /\ api_routes[6] = Route(<<"users">>, "POST", "create_user", TRUE)
  /\ api_routes[7] = Route(<<"users", Id>>, "GET", "get_user", TRUE)
  /\ api_routes[8] = Route(<<"users", Id>>, "PUT", "update_user", TRUE)
  /\ api_routes[9] = Route(<<"users", Id>>, "DELETE", "delete_user", TRUE)
  /\ api_routes[10] = Route(<<"users", Id, "balance">>, "PUT", "set_balance", TRUE)
  /\ api_routes[11] = Route(<<"users", Id, "balance", "adjust">>, "POST", "adjust_balance", TRUE)
BY DEF api_routes

LEMMA NoRouteIsLogin == \A i \in DOMAIN api_routes : api_routes[i].handler # "login"
BY RouteTable DEF Route
(* Lengths and domains of the paths that are matched.                      *)
LEMMA ShortPaths ==
  /\ \A a : Len(<<a>>) = 1 /\ DOMAIN <<a>> = {1}
  /\ \A a, b : Len(<<a, b>>) = 2 /\ DOMAIN <<a, b>> = {1, 2}
  /\ \A a, b, c : Len(<<a, b, c>>) = 3 /\ DOMAIN <<a, b, c>> = {1, 2, 3}
  /\ \A a, b, c, d : Len(<<a, b, c, d>>) = 4
<1>1. \A a : Len(<<a>>) = 1 /\ DOMAIN <<a>> = {1}
  OBVIOUS
<1>2. \A a, b : Len(<<a, b>>) = 2 /\ DOMAIN <<a, b>> = {1, 2}
  OBVIOUS
<1>3. \A a, b, c : Len(<<a, b, c>>) = 3 /\ DOMAIN <<a, b, c>> = {1, 2, 3}
  OBVIOUS
<1>4. \A a, b, c, d : Len(<<a, b, c, d>>) = 4
  OBVIOUS
<1> QED BY <1>1, <1>2, <1>3, <1>4

LEMMA MatchOne ==
  ASSUME NEW p, NEW b
  PROVE  /\ Len(p) # 1 => ~Matches(p, <<b>>)
         /\ \A a : p = <<a>> => (Matches(p, <<b>>) <=> a \in {b, Id})
<1>1. Len(p) # 1 => ~Matches(p, <<b>>)
  BY ShortPaths DEF Matches
<1>2. ASSUME NEW a, p = <<a>> PROVE Matches(p, <<b>>) <=> a \in {b, Id}
  BY <1>2, ShortPaths DEF Matches
<1> QED BY <1>1, <1>2

LEMMA MatchTwo ==
  ASSUME NEW p, NEW b1, NEW b2
  PROVE  /\ Len(p) # 2 => ~Matches(p, <<b1, b2>>)
         /\ \A a1, a2 : p = <<a1, a2>> =>
              (Matches(p, <<b1, b2>>) <=> a1 \in {b1, Id} /\ a2 \in {b2, Id})
<1>1. Len(p) # 2 => ~Matches(p, <<b1, b2>>)
  BY ShortPaths DEF Matches
<1>2. ASSUME NEW a1, NEW a2, p = <<a1, a2>>
      PROVE  Matches(p, <<b1, b2>>) <=> a1 \in {b1, Id} /\ a2 \in {b2, Id}
  BY <1>2, ShortPaths DEF Matches
<1> QED BY <1>1, <1>2

LEMMA MatchThree ==
  ASSUME NEW p, NEW b1, NEW b2, NEW b3
  PROVE  /\ Len(p) # 3 => ~Matches(p, <<b1, b2, b3>>)
         /\ \A a1, a2, a3 : p = <<a1, a2, a3>> =>
              (Matches(p, <<b1, b2, b3>>)
                 <=> a1 \in {b1, Id} /\ a2 \in {b2, Id} /\ a3 \in {b3, Id})
<1>1. Len(p) # 3 => ~Matches(p, <<b1, b2, b3>>)
  BY ShortPaths DEF Matches
<1>2. ASSUME NEW a1, NEW a2, NEW a3, p = <<a1, a2, a3>>
      PROVE  Matches(p, <<b1, b2, b3>>)
                 <=> a1 \in {b1, Id} /\ a2 \in {b2, Id} /\ a3 \in {b3, Id}
  BY <1>2, ShortPaths DEF Matches
<1> QED BY <1>1, <1>2

(* The path and the method of each entry the client's calls can meet.      *)
LEMMA RoutePaths ==
  /\ api_routes[1].path = <<"health">> /\ Len(api_routes[1].path) = 1 /\ api_routes[1].method = "GET"
  /\ api_routes[2].path = <<"users", "me">> /\ Len(api_routes[2].path) = 2 /\ api_routes[2].method = "GET"
  /\ api_routes[3].path = <<"users", "me", "password">> /\ Len(api_routes[3].path) = 3 /\ api_routes[3].method = "POST"
  /\ api_routes[4].path = <<"users", "me", "logout-all">> /\ Len(api_routes[4].path) = 3 /\ api_routes[4].method = "POST"
  /\ api_routes[5].path = <<"users">> /\ Len(api_routes[5].path) = 1 /\ api_routes[5].method = "GET"
  /\ api_routes[6].path = <<"users">> /\ Len(api_routes[6].path) = 1 /\ api_routes[6].method = "POST"
  /\ api_routes[7].path = <<"users", Id>> /\ Len(api_routes[7].path) = 2 /\ api_routes[7].method = "GET"
  /\ api_routes[8].path = <<"users", Id>> /\ Len(api_routes[8].path) = 2 /\ api_routes[8].method = "PUT"
  /\ api_routes[9].path = <<"users", Id>> /\ Len(api_routes[9].path) = 2 /\ api_routes[9].method = "DELETE"
  /\ api_routes[10].path = <<"users", Id, "balance">> /\ Len(api_routes[10].path) = 3 /\ api_routes[10].method = "PUT"
  /\ api_routes[11].path = <<"users", Id, "balance", "adjust">> /\ Len(api_routes[11].path) = 4 /\ api_routes[11].method = "POST"
BY RouteTable, ShortPaths DEF Route

(* What GET /users/me could be taken for: /users/{id} comes later.         *)
LEMMA MatchesUsersMe ==
  \A i \in DOMAIN api_routes :
    Matches(api_routes[i].path, <<"users", "me">>) <=> i \in {2, 7, 8, 9}
<1>1. \A i \in {1, 3, 4, 5, 6, 10, 11} : ~Matches(api_routes[i].path, <<"users", "me">>)
  <2>1. \A i \in {1, 3, 4, 5, 6, 10, 11} : Len(api_routes[i].path) # 2
    BY RoutePaths
  <2> QED BY <2>1, MatchTwo
<1>2. /\ Matches(<<"users", "me">>, <<"users", "me">>)
      /\ Matches(<<"users", Id>>, <<"users", "me">>)
  BY MatchTwo
<1>3. \A i \in {2, 7, 8, 9} : Matches(api_routes[i].path, <<"users", "me">>)
  BY <1>2, RoutePaths
<1> QED BY <1>1, <1>3, RouteTable

LEMMA MatchesUsers ==
  \A i \in DOMAIN api_routes : Matches(api_routes[i].path, <<"users">>) <=> i \in {5, 6}
<1>1. \A i \in {2, 3, 4, 7, 8, 9, 10, 11} : ~Matches(api_routes[i].path, <<"users">>)
  <2>1. \A i \in {2, 3, 4, 7, 8, 9, 10, 11} : Len(api_routes[i].path) # 1
    BY RoutePaths
  <2> QED BY <2>1, MatchOne
<1>2. Matches(<<"users">>, <<"users">>) /\ ~Matches(<<"health">>, <<"users">>)
  BY MatchOne DEF Id
<1>3. /\ ~Matches(api_routes[1].path, <<"users">>)
      /\ \A i \in {5, 6} : Matches(api_routes[i].path, <<"users">>)
  BY <1>2, RoutePaths
<1>4. \A i \in {1, 2, 3, 4, 7, 8, 9, 10, 11} : ~Matches(api_routes[i].path, <<"users">>)
  BY <1>1, <1>3
<1> QED BY <1>3, <1>4, RouteTable

(* /users/{id}/balance is not what a call below /users/me meets.           *)
LEMMA MatchesBelowMe ==
  ASSUME NEW last \in {"password", "logout-all"}
  PROVE  \A i \in DOMAIN api_routes :
           Matches(api_routes[i].path, <<"users", "me", last>>)
             <=> i = IF last = "password" THEN 3 ELSE 4
<1>1. \A i \in {1, 2, 5, 6, 7, 8, 9, 11} :
        ~Matches(api_routes[i].path, <<"users", "me", last>>)
  <2>1. \A i \in {1, 2, 5, 6, 7, 8, 9, 11} : Len(api_routes[i].path) # 3
    BY RoutePaths
  <2> QED BY <2>1, MatchThree
<1>2. ~Matches(<<"users", Id, "balance">>, <<"users", "me", last>>)
  <2>1. Matches(<<"users", Id, "balance">>, <<"users", "me", last>>)
          <=> "users" \in {"users", Id} /\ Id \in {"me", Id} /\ "balance" \in {last, Id}
    BY MatchThree
  <2> QED BY <2>1 DEF Id
<1>3. ASSUME NEW a \in {"password", "logout-all"}
      PROVE  Matches(<<"users", "me", a>>, <<"users", "me", last>>) <=> last = a
  <2>1. Matches(<<"users", "me", a>>, <<"users", "me", last>>)
          <=> "users" \in {"users", Id} /\ "me" \in {"me", Id} /\ a \in {last, Id}
    BY MatchThree
  <2> QED BY <2>1 DEF Id
<1>4. /\ ~Matches(api_routes[10].path, <<"users", "me", last>>)
      /\ Matches(api_routes[3].path, <<"users", "me", last>>) <=> last = "password"
      /\ Matches(api_routes[4].path, <<"users", "me", last>>) <=> last = "logout-all"
  BY <1>2, <1>3, RoutePaths
<1>5. CASE last = "password"
  <2>1. \A i \in {1, 2, 4, 5, 6, 7, 8, 9, 10, 11} :
          ~Matches(api_routes[i].path, <<"users", "me", last>>)
    BY <1>1, <1>4, <1>5
  <2>2. \A i \in DOMAIN api_routes : i = 3 \/ i \in {1, 2, 4, 5, 6, 7, 8, 9, 10, 11}
    BY RouteTable
  <2> QED BY <1>4, <1>5, <2>1, <2>2
<1>6. CASE last = "logout-all"
  <2>1. \A i \in {1, 2, 3, 5, 6, 7, 8, 9, 10, 11} :
          ~Matches(api_routes[i].path, <<"users", "me", last>>)
    BY <1>1, <1>4, <1>6
  <2>2. \A i \in DOMAIN api_routes : i = 4 \/ i \in {1, 2, 3, 5, 6, 7, 8, 9, 10, 11}
    BY RouteTable
  <2> QED BY <1>4, <1>6, <2>1, <2>2
<1> QED BY <1>5, <1>6

(* A literal route that comes first among those of its method is what both *)
(* routers find.                                                           *)
LEMMA LiteralRouteIsFound ==
  ASSUME NEW r, r.path[1] # "public", NEW n \in DOMAIN api_routes,
         DOMAIN api_routes \subseteq Int,
         api_routes[n].path = r.path, api_routes[n].method = r.method,
         Matches(api_routes[n].path, r.path),
         \A i \in DOMAIN api_routes :
           Matches(api_routes[i].path, r.path) /\ api_routes[i].method = r.method
             => n <= i /\ (api_routes[i].path = r.path => i = n)
  PROVE  AxumRoute(r) = api_routes[n] /\ SalvoRoute(r) = api_routes[n]
<1>1. AxumRoute(r) = api_routes[n]
  <2> DEFINE found == {a \in Routes : Matches(a.path, r.path)}
             literal == {a \in found : r.path = a.path}
             best == {a \in (IF literal # {} THEN literal ELSE found) : a.method = r.method}
  <2>1. api_routes[n] \in literal
    BY DEF Routes
  <2>2. \A a \in best : a = api_routes[n]
    BY <2>1 DEF Routes
  <2>3. api_routes[n] \in best
    BY <2>1
  <2>4. AxumRoute(r) = IF best = {} THEN NotFound ELSE CHOOSE a \in best : TRUE
    BY DEF AxumRoute
  <2> HIDE DEF best
  <2> QED BY <2>2, <2>3, <2>4
<1>2. SalvoRoute(r) = api_routes[n]
  <2> DEFINE found == {i \in DOMAIN api_routes : /\ Matches(api_routes[i].path, r.path)
                                                 /\ api_routes[i].method = r.method}
  <2>1. n \in found /\ \A i \in found : n <= i
    OBVIOUS
  <2>2. found \subseteq Int
    OBVIOUS
  <2>3. SalvoRoute(r) = api_routes[CHOOSE i \in found : \A k \in found : i <= k]
    BY <2>1 DEF SalvoRoute
  <2> HIDE DEF found
  <2>4. (CHOOSE i \in found : \A k \in found : i <= k) = n
    BY <2>1, <2>2
  <2> QED BY <2>3, <2>4
<1> QED BY <1>1, <1>2

(* axum's most literal pattern and salvo's first pushed route are the same, *)
(* and only the login form's request reaches /login.                       *)
LEMMA RoutesAgree ==
  ASSUME NEW pc \in Calls, NEW r,
         r.path = Endpoint(pc).path, r.method = Endpoint(pc).method
  PROVE  AxumRoute(r) = SalvoRoute(r) /\ (AxumRoute(r).handler = "login" <=> pc = "login")
<1>1. CASE pc \in PublicCalls
  <2>1. r.path[1] = "public" /\ (r.path[3] = "login" <=> pc = "login")
    BY <1>1, PublicEndpoints
  <2>2. AxumRoute(r) = PublicRoute(r) /\ SalvoRoute(r) = PublicRoute(r)
    BY <2>1 DEF AxumRoute, SalvoRoute
  <2> QED BY <2>1, <2>2 DEF PublicRoute, Route
<1>2. CASE pc \notin PublicCalls
  <2>1. pc # "login" /\ DOMAIN api_routes \subseteq Int
    BY <1>2, RouteTable DEF PublicCalls
  <2>2. \E n \in DOMAIN api_routes :
          AxumRoute(r) = api_routes[n] /\ SalvoRoute(r) = api_routes[n]
    <3>1. CASE Endpoint(pc) = [path |-> <<"users", "me">>, method |-> "GET"]
      <4>1. r.path = <<"users", "me">> /\ r.method = "GET" /\ r.path[1] # "public"
        BY <3>1
      <4>2. 2 \in DOMAIN api_routes
        BY RouteTable
      <4>3. <<"users", Id>> # <<"users", "me">>
        BY DEF Id
      <4>4. \A i \in DOMAIN api_routes :
              Matches(api_routes[i].path, r.path) /\ api_routes[i].method = r.method
                => 2 <= i /\ (api_routes[i].path = r.path => i = 2)
        BY <4>1, <4>3, MatchesUsersMe, RoutePaths
      <4>5. Matches(api_routes[2].path, r.path)
        BY <4>1, <4>2, MatchesUsersMe
      <4>6. api_routes[2].path = r.path /\ api_routes[2].method = r.method
        BY <4>1, RoutePaths
      <4>7. AxumRoute(r) = api_routes[2] /\ SalvoRoute(r) = api_routes[2]
        BY <2>1, <4>1, <4>2, <4>4, <4>5, <4>6, LiteralRouteIsFound
      <4> QED BY <4>2, <4>7
    <3>2. CASE Endpoint(pc) = [path |-> <<"users">>, method |-> "GET"]
      <4>1. r.path = <<"users">> /\ r.method = "GET" /\ r.path[1] # "public"
        BY <3>2
      <4>2. 5 \in DOMAIN api_routes
        BY RouteTable
      <4>3. \A i \in DOMAIN api_routes :
              Matches(api_routes[i].path, r.path) /\ api_routes[i].method = r.method
                => 5 <= i /\ (api_routes[i].path = r.path => i = 5)
        BY <4>1, MatchesUsers, RoutePaths
      <4>4. Matches(api_routes[5].path, r.path)
        BY <4>1, <4>2, MatchesUsers
      <4> QED BY <2>1, <4>1, <4>2, <4>3, <4>4, RoutePaths, LiteralRouteIsFound
    <3>3. ASSUME NEW last \in {"password", "logout-all"},
                 Endpoint(pc) = [path |-> <<"users", "me", last>>, method |-> "POST"]
          PROVE  \E n \in DOMAIN api_routes :
                   AxumRoute(r) = api_routes[n] /\ SalvoRoute(r) = api_routes[n]
      <4> DEFINE n == IF last = "password" THEN 3 ELSE 4
      <4>1. r.path = <<"users", "me", last>> /\ r.method = "POST" /\ r.path[1] # "public"
        BY <3>3
      <4>2. n \in DOMAIN api_routes
        BY RouteTable
      <4>3. api_routes[n].path = r.path /\ api_routes[n].method = r.method
        BY <4>1, RoutePaths
      <4>4. \A i \in DOMAIN api_routes : Matches(api_routes[i].path, r.path) <=> i = n
        BY <4>1, MatchesBelowMe
      <4>5. n <= n
        OBVIOUS
      <4> HIDE DEF n
      <4> QED BY <2>1, <4>1, <4>2, <4>3, <4>4, <4>5, LiteralRouteIsFound
    <3> QED BY <1>2, <3>1, <3>2, <3>3, OtherEndpoints
  <2> QED BY <2>1, <2>2, NoRouteIsLogin
<1> QED BY <1>1, <1>2

----------------------------------------------------------------------------
(***************************************************************************)
(* The tasks of the tab: only a task that is at a call of the client has a *)
(* request under way, and a task that waits for a refresh knows what for.  *)
(***************************************************************************)
Waits == {"restore", "again", "guard"}

CallFields == {"pc", "http", "ans", "tries", "cont", "n", "exp", "remember", "bearer"}

GoodTask(tk) ==
    /\ DOMAIN tk = CallFields
    /\ (tk.http # "none") => (tk.pc \in Calls)
    /\ (tk.pc \in {"wait", "refresh"}) => (tk.cont \in Waits)

TasksAreGood == /\ DOMAIN task = Tasks
                /\ \A t \in Tasks : GoodTask(task[t])

LEMMA IdleIsGood == /\ DOMAIN Idle = CallFields
                    /\ GoodTask(Idle)
                    /\ Idle.http = "none"
                    /\ Idle.pc = "idle"
BY DEF Idle, GoodTask, CallFields

(* A call of any endpoint but the refresh needs no continuation.           *)
LEMMA CallIsGood ==
  ASSUME NEW pc \in Calls, NEW tb
  PROVE  /\ DOMAIN Call(pc, tb) = CallFields
         /\ Call(pc, tb).pc = pc
         /\ pc # "refresh" => GoodTask(Call(pc, tb))
         /\ pc # "refresh" => \A x : GoodTask([Call(pc, tb) EXCEPT !.exp = x])
         /\ pc # "refresh" => \A x : GoodTask([Call(pc, tb) EXCEPT !.remember = x])
<1> DEFINE b == IF Endpoint(pc).path[1] = "public" THEN None ELSE tb.client
           c == [Idle EXCEPT !.pc = pc, !.http = "sent", !.bearer = b]
<1>1. Call(pc, tb) = c
  BY DEF Call
<1> HIDE DEF b
<1>2. DOMAIN c = CallFields /\ c.pc = pc /\ c.http = "sent"
  BY IdleIsGood DEF CallFields
<1> HIDE DEF c
<1>3. ASSUME NEW x
      PROVE  /\ DOMAIN [c EXCEPT !.exp = x] = CallFields
             /\ [c EXCEPT !.exp = x].pc = pc
             /\ DOMAIN [c EXCEPT !.remember = x] = CallFields
             /\ [c EXCEPT !.remember = x].pc = pc
  BY <1>2 DEF CallFields
<1>4. pc # "wait"
  BY DEF Calls, PublicCalls
<1> QED BY <1>1, <1>2, <1>3, <1>4 DEF GoodTask

(* try_refresh_async waits or calls; both remember who asked.              *)
LEMMA TryRefreshIsGood ==
  ASSUME NEW tb, NEW s, NEW cont \in Waits, NEW exp
  PROVE  GoodTask(try_refresh(tb, s, cont, exp).task)
<1>1. "refresh" \in Calls
  BY DEF Calls, PublicCalls
<1>2. CASE tb.refreshing
  <2> DEFINE w == [Idle EXCEPT !.pc = "wait", !.cont = cont, !.n = Polls, !.exp = exp]
  <2>1. try_refresh(tb, s, cont, exp).task = w
    BY <1>2 DEF try_refresh, Result
  <2>2. DOMAIN w = CallFields /\ w.pc = "wait" /\ w.cont = cont /\ w.http = "none"
    BY IdleIsGood DEF CallFields
  <2> HIDE DEF w
  <2> QED BY <2>1, <2>2 DEF GoodTask
<1>3. CASE ~tb.refreshing
  <2> DEFINE c == Call("refresh", tb)
             w == [c EXCEPT !.cont = cont, !.exp = exp]
  <2>1. try_refresh(tb, s, cont, exp).task = w
    BY <1>3 DEF try_refresh, Result
  <2>2. DOMAIN c = CallFields /\ c.pc = "refresh"
    BY <1>1, CallIsGood
  <2> HIDE DEF c
  <2>3. DOMAIN w = CallFields /\ w.pc = "refresh" /\ w.cont = cont
    BY <2>2 DEF CallFields
  <2> HIDE DEF w
  <2> QED BY <1>1, <2>1, <2>3 DEF GoodTask
<1> QED BY <1>2, <1>3

LEMMA RefreshedIsGood ==
  ASSUME NEW tb, NEW s, NEW cont \in Waits, NEW exp, NEW ok \in BOOLEAN
  PROVE  GoodTask(Refreshed(tb, s, cont, exp, ok).task)
<1>1. \A pc \in {"me", "meAgain", "guardLogout"} : pc \in Calls /\ pc # "refresh"
  BY DEF Calls, PublicCalls
<1>2. /\ GoodTask([Call("me", tb) EXCEPT !.exp = exp])
      /\ GoodTask(Call("meAgain", tb))
      /\ GoodTask(Call("guardLogout", tb))
  BY <1>1, CallIsGood
<1>3. Refreshed(tb, s, cont, exp, ok).task
        \in {[Call("me", tb) EXCEPT !.exp = exp], Call("meAgain", tb),
             Call("guardLogout", tb), Idle}
  BY DEF Refreshed, Result, Waits
<1> QED BY <1>2, <1>3, IdleIsGood

LEMMA UnauthIsGood ==
  ASSUME NEW tb, NEW s, NEW tk
  PROVE  GoodTask(handle_unauth(tb, s, tk).task)
<1>1. "interceptLogout" \in Calls
  BY DEF Calls, PublicCalls
<1>2. GoodTask(Call("interceptLogout", tb))
  BY <1>1, CallIsGood
<1>3. handle_unauth(tb, s, tk).task \in {Call("interceptLogout", tb), Idle}
  BY DEF handle_unauth, Result
<1> QED BY <1>2, <1>3, IdleIsGood

(* Whatever an answer makes the task do next.                              *)
LEMMA AnsweredIsGood ==
  ASSUME NEW tb, NEW s, NEW tk, GoodTask(tk)
  PROVE  GoodTask(Answered(tb, s, tk).task)
<1>1. CASE tk.pc = "refresh"
  <2>1. tk.cont \in Waits
    BY <1>1 DEF GoodTask
  <2>2. \E a, b : \E ok \in BOOLEAN :
          Answered(tb, s, tk) = Refreshed(a, b, tk.cont, tk.exp, ok)
    BY <1>1 DEF Answered, refresh_answered
  <2> QED BY <2>1, <2>2, RefreshedIsGood
<1>2. CASE tk.pc \in {"me", "meAgain"}
  <2>1. Answered(tb, s, tk) = me_answered(tb, s, tk)
    BY <1>2 DEF Answered
  <2>2. \/ me_answered(tb, s, tk).task = Idle
        \/ me_answered(tb, s, tk) = try_refresh(tb, s, "again", 0)
    BY <1>2 DEF me_answered, Result, is_auth_failure
  <2>3. GoodTask(try_refresh(tb, s, "again", 0).task)
    BY TryRefreshIsGood DEF Waits
  <2> QED BY <2>1, <2>2, <2>3, IdleIsGood
<1>3. CASE tk.pc = "login"
  <2>1. "loginMe" \in Calls
    BY DEF Calls, PublicCalls
  <2>2. \E a : Answered(tb, s, tk).task \in {Idle, Call("loginMe", a)}
    BY <1>3 DEF Answered, login_answered, Result
  <2> QED BY <2>1, <2>2, CallIsGood, IdleIsGood
<1>4. CASE tk.pc = "loginMe"
  <2>1. Answered(tb, s, tk).task = Idle
    BY <1>4 DEF Answered, login_me_answered, Result, is_auth_failure
  <2> QED BY <2>1, IdleIsGood
<1>5. CASE tk.pc = "reset"
  <2>1. "persistMe" \in Calls
    BY DEF Calls, PublicCalls
  <2>2. \E a : Answered(tb, s, tk).task
                 \in {Idle, [Call("persistMe", a) EXCEPT !.remember = tk.remember]}
    BY <1>5 DEF Answered, reset_answered, Result
  <2> QED BY <2>1, <2>2, CallIsGood, IdleIsGood
<1>6. CASE tk.pc = "persistMe"
  <2>1. Answered(tb, s, tk).task = Idle
    BY <1>6 DEF Answered, persist_session, Result
  <2> QED BY <2>1, IdleIsGood
<1>7. CASE tk.pc = "password"
  <2>1. Answered(tb, s, tk) = swap_token(tb, s, tk)
    BY <1>7 DEF Answered
  <2>2. \/ swap_token(tb, s, tk).task = Idle
        \/ swap_token(tb, s, tk) = handle_unauth(tb, s, tk)
    BY DEF swap_token, Result
  <2> QED BY <2>1, <2>2, UnauthIsGood, IdleIsGood
<1>8. CASE tk.pc = "page"
  <2>1. Answered(tb, s, tk) = handle_unauth(tb, s, tk)
    BY <1>8 DEF Answered
  <2> QED BY <2>1, UnauthIsGood
<1>9. CASE tk.pc \notin {"refresh", "me", "meAgain", "login", "loginMe", "reset",
                         "persistMe", "password", "page"}
  <2>1. Answered(tb, s, tk).task = Idle
    BY <1>9 DEF Answered, Result
  <2> QED BY <2>1, IdleIsGood
<1> QED BY <1>1, <1>2, <1>3, <1>4, <1>5, <1>6, <1>7, <1>8, <1>9

(* A step of one task, with the tasks the framework drops.                 *)
LEMMA StepIsGood ==
  ASSUME TasksAreGood, NEW t \in Tasks, NEW result, NEW pending,
         Step(t, result, pending), GoodTask(result.task)
  PROVE  TasksAreGood'
<1> DEFINE after == [task EXCEPT ![t] = result.task]
<1>1. \A u \in Tasks : GoodTask(after[u])
  BY DEF TasksAreGood
<1>2. task' = [u \in Tasks |-> IF Alive(u, after[u], result.tab) THEN after[u] ELSE Idle]
  BY DEF Step
<1> HIDE DEF after
<1>3. DOMAIN task' = Tasks /\ \A u \in Tasks : task'[u] \in {after[u], Idle}
  BY <1>2
<1> QED BY <1>1, <1>3, IdleIsGood DEF TasksAreGood, GoodTask

(* fire_expiry goes to sleep, refreshes or waits for a refresh.            *)
LEMMA ExpiryIsGood ==
  ASSUME NEW tb
  PROVE  GoodTask(fire_expiry(tb).task)
<1>1. fire_expiry(tb).task = Idle \/ fire_expiry(tb) = try_refresh(tb, store, "guard", 0)
  BY DEF fire_expiry, Result
<1>2. GoodTask(try_refresh(tb, store, "guard", 0).task)
  BY TryRefreshIsGood DEF Waits
<1> QED BY <1>1, <1>2, IdleIsGood

(* A step that keeps where task t is and what it waits for, and leaves the *)
(* other tasks alone.                                                      *)
LEMMA SameTaskIsGood ==
  ASSUME TasksAreGood, NEW t \in Tasks, NEW tk, task' = [task EXCEPT ![t] = tk],
         DOMAIN tk = CallFields, tk.pc = task[t].pc, tk.cont = task[t].cont,
         task[t].http # "none"
  PROVE  TasksAreGood'
<1>1. GoodTask(tk)
  BY DEF TasksAreGood, GoodTask
<1>2. DOMAIN task' = Tasks /\ \A u \in Tasks : task'[u] \in {tk, task[u]}
  BY DEF TasksAreGood
<1> QED BY <1>1, <1>2 DEF TasksAreGood, GoodTask

LEMMA UserIsGood ==
  ASSUME TasksAreGood, NEW pc \in Calls \ {"refresh"}, NEW remember, UserCalls(pc, remember)
  PROVE  TasksAreGood'
<1> DEFINE c == [Call(pc, tab) EXCEPT !.remember = remember]
<1>1. GoodTask(c)
  BY CallIsGood
<1>2. task' = [task EXCEPT !["user"] = c]
  BY DEF UserCalls
<1> HIDE DEF c
<1>3. DOMAIN task' = Tasks /\ \A u \in Tasks : task'[u] \in {c, task[u]}
  BY <1>2 DEF TasksAreGood
<1> QED BY <1>1, <1>3 DEF TasksAreGood, GoodTask

(* What the server does with a request: c is the gateway's verdict, o what *)
(* the handler does.                                                       *)
ServedAs(t, r, route, redis, lost, c, o) ==
    /\ r = Request(task[t]) /\ route = RouteOf(r) /\ c = Chain(route, r, redis)
    /\ hits' = c.hits
    /\ served' = [k \in DOMAIN served |->
                    IF k \in KeysOf(route.handler) /\ redis /\ c.verdict = "next"
                    THEN served[k] + 1 ELSE served[k]]
    /\ task' = [task EXCEPT ![t].http = "answered",
                            ![t].ans = IF lost THEN Fail("net").ans ELSE o.ans]
    /\ now' = now

LEMMA ServeShape ==
  ASSUME NEW t, Serve(t)
  PROVE  \E redis, lost \in BOOLEAN : \E r, route, c, o :
           task[t].http = "sent" /\ ServedAs(t, r, route, redis, lost, c, o)
<1> DEFINE tk == task[t]
           Rest(e, redis, lost, c, o) ==
                  /\ IF redis /\ ~lost THEN faults' = faults ELSE Fault(tk)
                  /\ hits' = c.hits
                  /\ served' = [k \in DOMAIN served |->
                        IF k \in KeysOf(e) /\ redis /\ c.verdict = "next"
                        THEN served[k] + 1 ELSE served[k]]
                  /\ server' = o.server
                  /\ task' = [task EXCEPT ![t].http = "answered",
                                          ![t].ans = IF lost THEN Fail("net").ans ELSE o.ans]
           Links(e) == IF e \in Public THEN BOOLEAN ELSE {TRUE}
           Outs(e, c) == IF c.verdict = "next" THEN Handle(e, tk) ELSE {Fail(c.verdict)}
<1>1. tk.http = "sent" /\ now' = now
  BY DEF Serve
<1>2. \E r \in {Request(tk)} : \E route \in {RouteOf(r)}, lost \in BOOLEAN :
        \E redis \in Links(route.handler) : \E c \in {Chain(route, r, redis)} :
        \E o \in Outs(route.handler, c) : Rest(route.handler, redis, lost, c, o)
  BY Zenon DEF Serve
<1>3. \A e : Links(e) \subseteq BOOLEAN
  OBVIOUS
<1> HIDE DEF Links, Outs, Rest
<1>4. PICK r, route, c, o : \E lost, redis \in BOOLEAN :
        /\ r = Request(tk) /\ route = RouteOf(r) /\ c = Chain(route, r, redis)
        /\ Rest(route.handler, redis, lost, c, o)
  BY <1>2, <1>3
<1>5. \A e, d, a, redis, lost : Rest(e, redis, lost, d, a) =>
        /\ hits' = d.hits
        /\ served' = [k \in DOMAIN served |->
                        IF k \in KeysOf(e) /\ redis /\ d.verdict = "next"
                        THEN served[k] + 1 ELSE served[k]]
        /\ task' = [task EXCEPT ![t].http = "answered",
                                ![t].ans = IF lost THEN Fail("net").ans ELSE a.ans]
  BY DEF Rest
<1> QED BY <1>1, <1>4, <1>5 DEF ServedAs

LEMMA TasksStayGood ==
  ASSUME TasksAreGood, [Next]_vars
  PROVE  TasksAreGood'
<1>1. CASE Boot
  <2> DEFINE tb == [tab EXCEPT !.client = FirstOf(store.jwt, @)]
             exp == load_token(store)
             res == CASE exp = 0 -> Result([tb EXCEPT !.initialized = TRUE], store, Idle)
                      [] exp # 0 /\ Expired(exp) -> try_refresh(tb, store, "restore", exp)
                      [] OTHER -> Result([tb EXCEPT !.expires = exp], store,
                                         [Call("me", tb) EXCEPT !.exp = exp])
  <2>1. Step("restore", res, dirty)
    BY <1>1 DEF Boot
  <2>2. \/ res.task = Idle
        \/ res = try_refresh(tb, store, "restore", exp)
        \/ res.task = [Call("me", tb) EXCEPT !.exp = exp]
    BY DEF Result
  <2>3. GoodTask(try_refresh(tb, store, "restore", exp).task)
    BY TryRefreshIsGood DEF Waits
  <2>4. "me" \in Calls
    BY DEF Calls
  <2>5. GoodTask([Call("me", tb) EXCEPT !.exp = exp])
    BY <2>4, CallIsGood
  <2> HIDE DEF tb, exp, res
  <2>6. GoodTask(res.task)
    BY <2>2, <2>3, <2>5, IdleIsGood
  <2> QED BY <2>1, <2>6, StepIsGood DEF Tasks
<1>2. CASE GuardRestart
  <2> DEFINE long == tab.expires - now > TimerMax
             wake == IF long THEN now ELSE tab.expires
             tb == [tab EXCEPT !.missed = IF long THEN tab.expires ELSE 0]
             slp == [Idle EXCEPT !.pc = "sleep", !.n = wake]
             res == IF tab.expires = 0 \/ Expired(tab.expires) THEN fire_expiry(tb)
                    ELSE Result(tb, store, slp)
  <2>1. Step("guard", res, FALSE)
    BY <1>2 DEF GuardRestart
  <2>2. DOMAIN slp = CallFields /\ slp.pc = "sleep" /\ slp.http = "none"
    BY IdleIsGood DEF CallFields
  <2>3. res = fire_expiry(tb) \/ res.task = slp
    BY DEF Result
  <2> HIDE DEF long, wake, tb, slp, res
  <2>4. GoodTask(res.task)
    BY <2>2, <2>3, ExpiryIsGood DEF GoodTask
  <2> QED BY <2>1, <2>4, StepIsGood DEF Tasks
<1>3. CASE GuardTimer
  <2>1. Step("guard", fire_expiry(tab), dirty)
    BY <1>3 DEF GuardTimer
  <2> QED BY <2>1, ExpiryIsGood, StepIsGood DEF Tasks
<1>4. ASSUME NEW t \in Tasks, WaitPoll(t)
      PROVE  TasksAreGood'
  <2> DEFINE tk == task[t]
             less == [tk EXCEPT !.n = @ - 1]
             ok == tab.expires # 0 /\ ~Expired(tab.expires)
             res == CASE ~tab.refreshing -> Refreshed(tab, store, tk.cont, tk.exp, ok)
                      [] tab.refreshing /\ tk.n > 1 -> Result(tab, store, less)
                      [] OTHER -> Refreshed(tab, store, tk.cont, tk.exp, FALSE)
  <2>1. Step(t, res, dirty) /\ tk.pc = "wait"
    BY <1>4 DEF WaitPoll
  <2>2. GoodTask(tk) /\ tk.cont \in Waits
    BY <2>1 DEF TasksAreGood, GoodTask
  <2>3. DOMAIN less = CallFields /\ less.pc = tk.pc /\ less.http = tk.http
          /\ less.cont = tk.cont
    BY <2>2 DEF GoodTask, CallFields
  <2>4. ok \in BOOLEAN
    OBVIOUS
  <2>5. \/ \E b \in BOOLEAN : res = Refreshed(tab, store, tk.cont, tk.exp, b)
        \/ res.task = less
    BY <2>4 DEF Result
  <2> HIDE DEF less, ok, res
  <2>6. GoodTask(less)
    BY <2>2, <2>3 DEF GoodTask
  <2>7. GoodTask(res.task)
    BY <2>2, <2>5, <2>6, RefreshedIsGood
  <2> QED BY <2>1, <2>7, StepIsGood
<1>5. ASSUME NEW t \in Tasks, Serve(t)
      PROVE  TasksAreGood'
  <2>1. PICK lost, o :
          task' = [task EXCEPT ![t].http = "answered",
                               ![t].ans = IF lost THEN Fail("net").ans ELSE o.ans]
    BY <1>5, ServeShape DEF ServedAs
  <2>2. task[t].http # "none"
    BY <1>5 DEF Serve
  <2> DEFINE a == IF lost THEN Fail("net").ans ELSE o.ans
             tk == [task[t] EXCEPT !.http = "answered", !.ans = a]
  <2>3. DOMAIN tk = CallFields /\ tk.pc = task[t].pc /\ tk.cont = task[t].cont
    BY DEF TasksAreGood, GoodTask, CallFields
  <2>4. task' = [task EXCEPT ![t] = tk]
    BY <2>1 DEF TasksAreGood
  <2> HIDE DEF tk
  <2> QED BY <2>2, <2>3, <2>4, SameTaskIsGood
<1>6. ASSUME NEW t \in Tasks, LoseRequest(t)
      PROVE  TasksAreGood'
  <2> DEFINE a == Fail("net").ans
             tk == [task[t] EXCEPT !.http = "answered", !.ans = a]
  <2>1. task[t].http # "none"
    BY <1>6 DEF LoseRequest
  <2>2. DOMAIN tk = CallFields /\ tk.pc = task[t].pc /\ tk.cont = task[t].cont
    BY DEF TasksAreGood, GoodTask, CallFields
  <2>3. task' = [task EXCEPT ![t] = tk]
    BY <1>6 DEF LoseRequest, TasksAreGood
  <2> HIDE DEF tk
  <2> QED BY <2>1, <2>2, <2>3, SameTaskIsGood
<1>7. ASSUME NEW t \in Tasks, Retry(t)
      PROVE  TasksAreGood'
  <2> DEFINE tk == [task[t] EXCEPT !.http = "sent", !.ans = None, !.tries = @ + 1]
  <2>1. task[t].http # "none"
    BY <1>7 DEF Retry
  <2>2. DOMAIN tk = CallFields /\ tk.pc = task[t].pc /\ tk.cont = task[t].cont
    BY DEF TasksAreGood, GoodTask, CallFields
  <2>3. task' = [task EXCEPT ![t] = tk]
    BY <1>7 DEF Retry, TasksAreGood
  <2> HIDE DEF tk
  <2> QED BY <2>1, <2>2, <2>3, SameTaskIsGood
<1>8. ASSUME NEW t \in Tasks, Deliver(t)
      PROVE  TasksAreGood'
  <2>1. PICK s : Step(t, Answered(tab, s, task[t]), dirty)
    BY <1>8 DEF Deliver
  <2>2. GoodTask(task[t])
    BY DEF TasksAreGood
  <2>3. GoodTask(Answered(tab, s, task[t]).task)
    BY <2>2, AnsweredIsGood
  <2> QED BY <2>1, <2>3, StepIsGood
<1>9. CASE SubmitLogin \/ SubmitReset \/ ClickLogout \/ ClickLogoutAll \/ SubmitPassword
  <2>1. \E pc \in {"login", "reset", "logout", "logoutAll", "password"} :
          \E remember : UserCalls(pc, remember)
    BY <1>9 DEF SubmitLogin, SubmitReset, ClickLogout, ClickLogoutAll, SubmitPassword
  <2>2. {"login", "reset", "logout", "logoutAll", "password"} \subseteq Calls \ {"refresh"}
    BY DEF Calls
  <2> QED BY <2>1, <2>2, UserIsGood
<1>10. CASE LoadPage
  <2>1. "page" \in Calls
    BY DEF Calls
  <2> DEFINE c == Call("page", tab)
  <2>2. GoodTask(c)
    BY <2>1, CallIsGood
  <2>3. task' = [task EXCEPT !["page"] = c]
    BY <1>10 DEF LoadPage
  <2> HIDE DEF c
  <2>4. DOMAIN task' = Tasks /\ \A u \in Tasks : task'[u] \in {c, task[u]}
    BY <2>3 DEF TasksAreGood
  <2> QED BY <2>2, <2>4 DEF TasksAreGood, GoodTask
<1>11. CASE RevokedElsewhere \/ Tick \/ UNCHANGED vars
  <2>1. task' = task
    BY <1>11 DEF RevokedElsewhere, Tick, vars
  <2> QED BY <2>1 DEF TasksAreGood, GoodTask
<1> QED BY <1>1, <1>2, <1>3, <1>4, <1>5, <1>6, <1>7, <1>8, <1>9, <1>10, <1>11
      DEF Next, System, Environment

LEMMA TasksBeginGood == Init => TasksAreGood
<1> SUFFICES ASSUME Init PROVE TasksAreGood
  OBVIOUS
<1> DEFINE b == [Idle EXCEPT !.pc = "boot"]
<1>1. DOMAIN b = CallFields /\ b.pc = "boot" /\ b.http = "none"
  BY IdleIsGood DEF CallFields
<1>2. task = [t \in Tasks |-> IF t = "restore" THEN b ELSE Idle]
  BY DEF Init
<1> HIDE DEF b
<1> QED BY <1>1, <1>2, IdleIsGood DEF TasksAreGood, GoodTask

(* What the gateway would do with a request under way does not depend on   *)
(* the framework the server was built with: for every route table entry    *)
(* the client calls, every state of the limiter and of Redis, failing open *)
(* or closed, every token and every role, the two crates' middlewares give *)
(* one answer; and of the origins, exactly when each configured one is a   *)
(* header value if and only if it has a scheme.                            *)
THEOREM FrameworksAreOneGateway == Spec => []FrameworksAgree
<1>1. TasksAreGood => FrameworksAgree
  <2> SUFFICES ASSUME TasksAreGood PROVE FrameworksAgree
    OBVIOUS
  <2>1. ASSUME NEW t \in {u \in Tasks : task[u].http = "sent" /\ task[u].tries = 0}
        PROVE  AxumRoute(Request(task[t])) = SalvoRoute(Request(task[t]))
    <3>1. task[t].pc \in Calls
      BY DEF TasksAreGood, GoodTask
    <3>2. /\ Request(task[t]).path = Endpoint(task[t].pc).path
          /\ Request(task[t]).method = Endpoint(task[t].pc).method
      BY DEF Request
    <3> QED BY <3>1, <3>2, RoutesAgree
  <2>2. ASSUME NEW route, NEW r,
               NEW m \in Meets(route)
        PROVE  AxumChain(route, r, server.ver, m[2], m[1], hits)
                 = SalvoChain(route, r, server.ver, m[2], m[1], hits)
    <3>1. \A a, b, c : Limiter(a, b, c).available = a
      BY DEF Limiter
    <3>2. \E a, b, c \in BOOLEAN : m[1] = Limiter(a, b, c)
      BY DEF Meets
    <3>3. m[1].available \in BOOLEAN
      BY <3>1, <3>2
    <3> QED BY <3>3, ChainsAgree
  <2> DEFINE Sent == {u \in Tasks : task[u].http = "sent" /\ task[u].tries = 0}
             Same(sent, axum, salvo, ip, body, m) ==
                LET r == [sent EXCEPT !.forwarded = ip, !.peer = None, !.body = body]
                IN  AxumChain(axum, r, server.ver, m[2], m[1], hits)
                      = SalvoChain(salvo, r, server.ver, m[2], m[1], hits)
             Agree == \A t \in Sent : \A sent \in {Request(task[t])} :
                \A axum \in {AxumRoute(sent)}, salvo \in {SalvoRoute(sent)} :
                  /\ axum = salvo
                  /\ \A ip \in {None, Ip}, body \in {"none", "broken", Email},
                       m \in Meets(axum) : Same(sent, axum, salvo, ip, body, m)
  <2>3. \A route, sent, ip, body : \A m \in Meets(route) : Same(sent, route, route, ip, body, m)
    BY <2>2
  <2>4. \A t \in Sent : AxumRoute(Request(task[t])) = SalvoRoute(Request(task[t]))
    BY <2>1
  <2>5. Agree => FrameworksAgree
    BY OriginsDoAgree, Zenon DEF FrameworksAgree
  <2> HIDE DEF Sent, Same
  <2>6. Agree
    BY <2>3, <2>4
  <2> QED BY <2>5, <2>6
<1> QED BY <1>1, TasksBeginGood, TasksStayGood, PTL DEF Spec

----------------------------------------------------------------------------
(***************************************************************************)
(* The rate limiter.  What a window has admitted is bounded by what its    *)
(* counter counted, and an admission is counted before the limit is        *)
(* compared.                                                               *)
(***************************************************************************)
BrowserKeys == Keys({Ip}, {Email})

LimitOf(k) == IF k[2] = "ip" THEN IpMax[k[1]] ELSE LoginEmailMax

CountersOf(h) == /\ DOMAIN h = BrowserKeys
                 /\ \A k \in DOMAIN h : h[k].n \in Nat

LimiterInv ==
    /\ CountersOf(hits)
    /\ DOMAIN served = DOMAIN hits
    /\ \A k \in DOMAIN hits : /\ served[k] \in Nat
                              /\ served[k] <= hits[k].n
                              /\ served[k] <= LimitOf(k)

LEMMA KeyShapes ==
  ASSUME NEW k
  PROVE  k \in BrowserKeys
           <=> \/ \E e \in Public : k = <<e, "ip", Ip>>
               \/ k = <<"login", "email", Email>>
BY DEF BrowserKeys, Keys

(* A limiter key names a public endpoint, and the browser or its email.    *)
LEMMA KeyParts ==
  ASSUME NEW k \in BrowserKeys
  PROVE  /\ k[1] \in Public
         /\ k[2] = "ip" => k = <<k[1], "ip", Ip>>
         /\ k[2] # "ip" => k = <<"login", "email", Email>>
         /\ LimitOf(k) \in Nat
<1>1. \A e : /\ <<e, "ip", Ip>>[1] = e
             /\ <<e, "ip", Ip>>[2] = "ip"
  OBVIOUS
<1>2. <<"login", "email", Email>>[1] = "login" /\ <<"login", "email", Email>>[2] # "ip"
  OBVIOUS
<1>3. "login" \in Public
  BY LimitsAreNatural DEF Public
<1>4. CASE k = <<"login", "email", Email>>
  <2>1. k[1] = "login" /\ k[2] # "ip"
    BY <1>2, <1>4
  <2> QED BY <1>3, <1>4, <2>1, LimitsAreNatural DEF LimitOf
<1>5. ASSUME NEW e \in Public, k = <<e, "ip", Ip>>
      PROVE  k[1] = e /\ k[2] = "ip" /\ LimitOf(k) \in Nat
  <2>1. k[1] = e /\ k[2] = "ip"
    BY <1>1, <1>5
  <2> QED BY <2>1, LimitsAreNatural DEF LimitOf, Public
<1> QED BY <1>4, <1>5, KeyShapes

(* What a check of counter k leaves, and what a request to e leaves of all *)
(* the counters.                                                           *)
Charged(c, k, max, h) ==
    /\ CountersOf(c.hits)
    /\ c.hits[k].n = h[k].n + 1
    /\ \A j \in DOMAIN h \ {k} : c.hits[j] = h[j]
    /\ c.verdict = "next" => h[k].n + 1 <= max

Limited(c, e, redis, h) ==
    /\ CountersOf(c.hits)
    /\ \A k \in DOMAIN h : h[k].n <= c.hits[k].n
    /\ redis /\ c.verdict = "next"
         => \A k \in DOMAIN h : k[1] = e => /\ c.hits[k].n = h[k].n + 1
                                            /\ c.hits[k].n <= LimitOf(k)

(* RedisRateLimiter::check counts before it compares.                      *)
LEMMA ChargeCounts ==
  ASSUME NEW h, CountersOf(h), NEW k \in DOMAIN h, NEW max,
         NEW lim, lim.redis = TRUE, NEW c, c = Charge(k, max, lim, h)
  PROVE  Charged(c, k, max, h)
<1> DEFINE u == IF h[k].n + 1 = 1 THEN now + Window ELSE h[k].until
           m == h[k].n + 1
           after == [h EXCEPT ![k] = [n |-> m, until |-> u]]
<1>1. /\ c.hits = after
      /\ c.verdict = IF m <= max THEN "next" ELSE "429"
  BY DEF Charge, check, Verdict
<1>2. m \in Nat
  BY DEF CountersOf
<1> HIDE DEF u, m
<1>3. /\ DOMAIN after = DOMAIN h
      /\ after[k].n = m
      /\ \A j \in DOMAIN h \ {k} : after[j] = h[j]
  OBVIOUS
<1> HIDE DEF after
<1>4. CountersOf(after)
  BY <1>2, <1>3 DEF CountersOf
<1> QED BY <1>1, <1>3, <1>4 DEF m, Charged

LEMMA ChargeFails ==
  ASSUME NEW h, NEW k, NEW max, NEW lim, lim.redis = FALSE
  PROVE  Charge(k, max, lim, h).hits = h
BY DEF Charge, Verdict

(* rate_limit_middleware on a request of the browser.                      *)
LEMMA LimiterCounts ==
  ASSUME NEW e \in Public, NEW r, NEW h, CountersOf(h), NEW redis \in BOOLEAN,
         NEW lim, lim.available = TRUE, lim.redis = redis,
         r.forwarded = None, r.real = None, r.peer = Ip,
         e = "login" => r.body = Email,
         NEW l, l = rate_limit_middleware(make_guard(e), r, lim, h)
  PROVE  Limited(l, e, redis, h)
<1> DEFINE kip == <<e, "ip", Ip>>
           kmail == <<"login", "email", Email>>
           byIp == Charge(kip, IpMax[e], lim, h)
           byMail == Charge(kmail, LoginEmailMax, lim, byIp.hits)
<1>1. FirstOf(extract_client_ip(r), r.peer) = Ip /\ Ip # None
  BY BrowserIsKnown DEF FirstOf, extract_client_ip
<1>2. /\ make_guard(e).key_prefix = e
      /\ make_guard(e).ip_max_requests = IpMax[e]
      /\ make_guard(e).email_max_requests = IF e = "login" THEN LoginEmailMax ELSE None
  BY DEF make_guard
<1>3. e # "login" => l = byIp
  BY <1>1, <1>2 DEF rate_limit_middleware
<1>4. e = "login" => l = IF byIp.verdict # "next" THEN byIp ELSE byMail
  <2> SUFFICES ASSUME e = "login" PROVE l = IF byIp.verdict # "next" THEN byIp ELSE byMail
    OBVIOUS
  <2>1. r.body # "broken" /\ extract_email_from_body(r) = Email /\ Email # None
    BY BrowserIsKnown DEF extract_email_from_body
  <2>2. LoginEmailMax # None
    BY LimitsAreNatural, NoneIsAbsent
  <2> QED BY <1>1, <1>2, <2>1, <2>2 DEF rate_limit_middleware
<1>5. kip \in DOMAIN h /\ kmail \in DOMAIN h
  BY KeyShapes DEF CountersOf
<1>6. kip # kmail
  OBVIOUS
<1>7. \A k \in DOMAIN h : k[1] = e => k = kip \/ (e = "login" /\ k = kmail)
  BY KeyParts DEF CountersOf
<1>8. /\ LimitOf(kip) = IpMax[e]
      /\ LimitOf(kmail) = LoginEmailMax
  BY DEF LimitOf
<1>9. \A k \in DOMAIN h : h[k].n \in Nat
  BY DEF CountersOf
<1>10. CASE ~redis
  <2>0. redis = FALSE
    BY <1>10
  <2>1. \A k, max, g : Charge(k, max, lim, g).hits = g
    BY <2>0, ChargeFails
  <2>2. byIp.hits = h /\ byMail.hits = byIp.hits
    BY <2>1
  <2>3. l.hits = h
    BY <1>3, <1>4, <2>2
  <2>4. \A k \in DOMAIN h : h[k].n <= h[k].n
    BY <1>9
  <2> QED BY <1>10, <2>3, <2>4 DEF Limited
<1>11. CASE redis
  <2> HIDE DEF kip, kmail
  <2>1. Charged(byIp, kip, IpMax[e], h)
    <3>1. byIp = Charge(kip, IpMax[e], lim, h)
      OBVIOUS
    <3> HIDE DEF byIp
    <3> QED BY <1>5, <1>11, <3>1, ChargeCounts
  <2>2. DOMAIN byIp.hits = DOMAIN h /\ CountersOf(byIp.hits)
    BY <2>1 DEF CountersOf, Charged
  <2>3. Charged(byMail, kmail, LoginEmailMax, byIp.hits)
    <3>1. byMail = Charge(kmail, LoginEmailMax, lim, byIp.hits)
      OBVIOUS
    <3> HIDE DEF byIp, byMail
    <3> QED BY <1>5, <1>11, <2>2, <3>1, ChargeCounts
  <2> HIDE DEF byIp, byMail
  <2>4. CASE l = byIp /\ (e = "login" => byIp.verdict # "next")
    <3>1. ASSUME NEW k \in DOMAIN h
          PROVE  /\ h[k].n <= byIp.hits[k].n
                 /\ k = kip => byIp.hits[k].n = h[k].n + 1
      BY <1>9, <2>1 DEF Charged
    <3>2. byIp.verdict = "next" => byIp.hits[kip].n <= IpMax[e]
      BY <2>1 DEF Charged
    <3> QED BY <1>7, <1>8, <2>2, <2>4, <3>1, <3>2 DEF Limited
  <2>5. CASE l = byMail /\ byIp.verdict = "next" /\ e = "login"
    <3>1. ASSUME NEW k \in DOMAIN h
          PROVE  /\ h[k].n <= byMail.hits[k].n
                 /\ k \in {kip, kmail} => byMail.hits[k].n = h[k].n + 1
      BY <1>6, <1>9, <2>1, <2>2, <2>3 DEF Charged
    <3>2. byMail.hits[kip].n <= IpMax[e]
      BY <1>5, <1>6, <2>1, <2>2, <2>3, <2>5 DEF Charged
    <3>3. byMail.verdict = "next" => byMail.hits[kmail].n <= LoginEmailMax
      BY <2>3 DEF Charged
    <3>4. CountersOf(byMail.hits)
      BY <2>3 DEF Charged
    <3> QED BY <1>7, <1>8, <2>5, <3>1, <3>2, <3>3, <3>4 DEF Limited
  <2> QED BY <1>3, <1>4, <2>4, <2>5
<1> QED BY <1>10, <1>11

(* The limiter's counters after a request, whatever the framework.         *)
LEMMA ChainCounts ==
  ASSUME NEW r, NEW route, CountersOf(hits), NEW redis \in BOOLEAN,
         r.forwarded = None, r.real = None, r.peer = Ip,
         route.handler = "login" => r.body = Email,
         NEW c, c = Chain(route, r, redis)
  PROVE  Limited(c, route.handler, redis, hits)
<1> DEFINE e == route.handler
           lim == Limiter(TRUE, redis, FailOpen)
           l == rate_limit_middleware(make_guard(e), r, lim, hits)
<1>0. lim.available = TRUE /\ lim.redis = redis
  BY DEF Limiter
<1>1. c = AxumChain(route, r, server.ver, Role, lim, hits)
  <2>1. c \in {AxumChain(route, r, server.ver, Role, lim, hits),
               SalvoChain(route, r, server.ver, Role, lim, hits)}
    BY Zenon DEF Chain
  <2>2. lim.available \in BOOLEAN
    BY <1>0
  <2> HIDE DEF lim
  <2>3. SalvoChain(route, r, server.ver, Role, lim, hits)
          = AxumChain(route, r, server.ver, Role, lim, hits)
    BY <2>2, ChainsAgree
  <2> QED BY <2>1, <2>3
<1> HIDE DEF lim
<1>2. CASE e \in Public
  <2>1. c = IF l.verdict = "next" THEN Verdict(from_request(r), l.hits) ELSE l
    BY <1>1, <1>2, Zenon DEF AxumChain
  <2>2. Limited(l, e, redis, hits)
    <3>1. l = rate_limit_middleware(make_guard(e), r, lim, hits)
      OBVIOUS
    <3> HIDE DEF l
    <3> QED BY <1>0, <1>2, <3>1, LimiterCounts
  <2> HIDE DEF l
  <2>3. c.hits = l.hits /\ (c.verdict = "next" => l.verdict = "next")
    BY <2>1 DEF Verdict
  <2> QED BY <2>2, <2>3 DEF Limited
<1>3. CASE e \notin Public
  <2>1. c.hits = hits
    BY <1>1, <1>3 DEF AxumChain, Verdict
  <2>2. \A k \in DOMAIN hits : k[1] # e
    BY <1>3, KeyParts DEF CountersOf
  <2>3. \A k \in DOMAIN hits : hits[k].n <= hits[k].n
    BY DEF CountersOf
  <2> QED BY <2>1, <2>2, <2>3 DEF Limited
<1> QED BY <1>2, <1>3

LEMMA LimiterBegins == Init => LimiterInv
<1> SUFFICES ASSUME Init PROVE LimiterInv
  OBVIOUS
<1>1. /\ hits = [k \in BrowserKeys |-> NoHits]
      /\ served = [k \in BrowserKeys |-> 0]
  BY DEF Init, BrowserKeys
<1>2. NoHits.n = 0
  BY DEF NoHits
<1>3. \A k \in BrowserKeys : 0 <= LimitOf(k)
  BY KeyParts
<1>4. \A k \in BrowserKeys : hits[k].n = 0 /\ served[k] = 0
  BY <1>1, <1>2
<1>5. DOMAIN hits = BrowserKeys /\ DOMAIN served = BrowserKeys
  BY <1>1
<1>6. CountersOf(hits)
  BY <1>4, <1>5 DEF CountersOf
<1>7. \A k \in DOMAIN hits : /\ served[k] \in Nat
                             /\ served[k] <= hits[k].n
                             /\ served[k] <= LimitOf(k)
  BY <1>3, <1>4, <1>5
<1> QED BY <1>5, <1>6, <1>7 DEF LimiterInv

(* A request that reaches a handler was counted in each of its keys.       *)
LEMMA ServeIsCounted ==
  ASSUME TasksAreGood, LimiterInv, NEW t \in Tasks, Serve(t)
  PROVE  LimiterInv'
<1>0. PICK redis \in BOOLEAN : \E lost, r, route, c, o :
        task[t].http = "sent" /\ ServedAs(t, r, route, redis, lost, c, o)
  BY ServeShape
<1>1. PICK lost, r, route, c, o :
        task[t].http = "sent" /\ ServedAs(t, r, route, redis, lost, c, o)
  BY <1>0
<1>2. /\ r = Request(task[t]) /\ route = RouteOf(r) /\ c = Chain(route, r, redis)
      /\ hits' = c.hits
      /\ served' = [k \in DOMAIN served |->
                      IF k \in KeysOf(route.handler) /\ redis /\ c.verdict = "next"
                      THEN served[k] + 1 ELSE served[k]]
  BY <1>1 DEF ServedAs
<1>3. /\ r.path = Endpoint(task[t].pc).path /\ r.method = Endpoint(task[t].pc).method
      /\ r.forwarded = None /\ r.real = None /\ r.peer = Ip
      /\ task[t].pc = "login" => r.body = Email
  BY <1>2 DEF Request
<1>4. task[t].pc \in Calls
  BY <1>1 DEF TasksAreGood, GoodTask
<1>5. route.handler = "login" => r.body = Email
  BY <1>2, <1>3, <1>4, RoutesAgree DEF RouteOf
<1>6. Limited(c, route.handler, redis, hits)
  BY <1>2, <1>3, <1>5, ChainCounts DEF LimiterInv
<1>7. DOMAIN c.hits = DOMAIN hits
  BY <1>6 DEF Limited, CountersOf, LimiterInv
<1>8. ASSUME NEW k \in DOMAIN hits
      PROVE  served'[k] \in Nat /\ served'[k] <= c.hits[k].n /\ served'[k] <= LimitOf(k)
  <2>1. /\ served[k] \in Nat /\ served[k] <= hits[k].n /\ served[k] <= LimitOf(k)
        /\ hits[k].n \in Nat /\ c.hits[k].n \in Nat /\ LimitOf(k) \in Nat
    BY <1>6, <1>7, KeyParts DEF Limited, LimiterInv, CountersOf
  <2>2. CASE k \in KeysOf(route.handler) /\ redis /\ c.verdict = "next"
    <3>1. served'[k] = served[k] + 1
      BY <1>2, <2>2 DEF LimiterInv
    <3>2. c.hits[k].n = hits[k].n + 1 /\ c.hits[k].n <= LimitOf(k)
      BY <1>6, <2>2 DEF Limited, KeysOf
    <3> QED BY <2>1, <3>1, <3>2
  <2>3. CASE ~(k \in KeysOf(route.handler) /\ redis /\ c.verdict = "next")
    <3>1. served'[k] = served[k]
      BY <1>2, <2>3 DEF LimiterInv
    <3>2. hits[k].n <= c.hits[k].n
      BY <1>6 DEF Limited
    <3> QED BY <2>1, <3>1, <3>2
  <2> QED BY <2>2, <2>3
<1>9. DOMAIN served' = DOMAIN hits
  BY <1>2 DEF LimiterInv
<1> QED BY <1>2, <1>6, <1>7, <1>8, <1>9 DEF Limited, LimiterInv, CountersOf, LimitOf

(* A counter expires together with its window's admissions.                *)
LEMMA TickIsCounted ==
  ASSUME LimiterInv, Tick
  PROVE  LimiterInv'
<1>1. /\ hits' = [k \in DOMAIN hits |-> IF hits[k].until <= now + 1 THEN NoHits ELSE hits[k]]
      /\ served' = [k \in DOMAIN served |-> IF hits[k].until <= now + 1 THEN 0 ELSE served[k]]
  BY DEF Tick, Expire
<1>2. NoHits.n = 0
  BY DEF NoHits
<1>3. \A k \in DOMAIN hits : /\ hits'[k].n \in Nat /\ served'[k] \in Nat
                             /\ served'[k] <= hits'[k].n
                             /\ served'[k] <= LimitOf(k)
  <2> SUFFICES ASSUME NEW k \in DOMAIN hits
               PROVE  /\ hits'[k].n \in Nat /\ served'[k] \in Nat
                      /\ served'[k] <= hits'[k].n
                      /\ served'[k] <= LimitOf(k)
    OBVIOUS
  <2>1. LimitOf(k) \in Nat
    BY KeyParts DEF LimiterInv, CountersOf
  <2>2. \/ hits'[k] = NoHits /\ served'[k] = 0
        \/ hits'[k] = hits[k] /\ served'[k] = served[k]
    BY <1>1 DEF LimiterInv
  <2>3. CASE hits'[k] = NoHits /\ served'[k] = 0
    <3>1. hits'[k].n = 0
      BY <1>2, <2>3
    <3> QED BY <2>1, <2>3, <3>1
  <2>4. CASE hits'[k] = hits[k] /\ served'[k] = served[k]
    <3>1. hits'[k].n = hits[k].n
      BY <2>4
    <3> QED BY <2>4, <3>1 DEF LimiterInv, CountersOf
  <2> QED BY <2>2, <2>3, <2>4
<1>4. DOMAIN hits' = DOMAIN hits /\ DOMAIN served' = DOMAIN hits
  BY <1>1 DEF LimiterInv
<1> QED BY <1>3, <1>4 DEF LimiterInv, CountersOf, LimitOf

LEMMA LimiterHolds ==
  ASSUME TasksAreGood, LimiterInv, [Next]_vars
  PROVE  LimiterInv'
<1>1. CASE \E t \in Tasks : Serve(t)
  BY <1>1, ServeIsCounted
<1>2. CASE Tick
  BY <1>2, TickIsCounted
<1>3. CASE ~Tick /\ ~\E t \in Tasks : Serve(t)
  <2>1. hits' = hits /\ served' = served
    BY <1>3 DEF Next, System, Environment, Boot, GuardRestart, GuardTimer, WaitPoll,
         LoseRequest, Retry, Deliver, SubmitLogin, SubmitReset, ClickLogout, ClickLogoutAll,
         SubmitPassword, UserCalls, LoadPage, RevokedElsewhere, vars
  <2> QED BY <2>1 DEF LimiterInv, CountersOf, LimitOf
<1> QED BY <1>1, <1>2, <1>3

(* The login limiter's promise, for any limits, window, number of retries  *)
(* and framework: while Redis answers, a window of an address or an email  *)
(* admits no more requests than its limit.                                 *)
THEOREM BudgetsHold == Spec => []LimiterBudget
<1>1. LimiterInv => LimiterBudget
  BY DEF LimiterInv, LimiterBudget, LimitOf
<1> QED BY <1>1, LimiterBegins, LimiterHolds, TasksBeginGood, TasksStayGood, PTL DEF Spec

----------------------------------------------------------------------------
(***************************************************************************)
(* The safety half of RestoreFinishes and of ExpiredSessionIsSettled.      *)
(***************************************************************************)

\* restore_from_storage_async cannot end without initialized.set(true),
\* whichever of its branches it takes: until then its task is at a call, at
\* a refresh of its own or at another task's refresh.
Restores(tk) ==
    \/ tk.pc \in {"boot", "me", "meAgain"}
    \/ tk.pc \in {"wait", "refresh"} /\ tk.cont \in {"restore", "again"}

RestoreIsUnderWay == tab.initialized \/ Restores(task["restore"])

\* An open session is watched: the guard's resource is about to start again,
\* or sleeps until the moment the session expires, or refreshes it or waits
\* for a refresh because it has expired, or signs out.  Only a session that
\* was too far from its expiry for the browser's timer when the guard last
\* set it is left alone.  (An expiry is a number of seconds.)
Watches(g, exp) ==
    \/ g.pc = "sleep" /\ g.n = exp
    \/ g.pc \in {"wait", "refresh"} /\ g.cont = "guard" /\ Expired(exp)
    \/ g.pc = "guardLogout"

SessionIsWatched ==
    Mounted(tab) /\ tab.expires \in Nat \ {0, tab.missed}
        => dirty \/ Watches(task["guard"], tab.expires)

TabFields == {"client", "expires", "user", "initialized", "refreshing", "tracks", "missed"}

TabInv == /\ DOMAIN tab = TabFields
          /\ now \in Nat
          /\ RestoreIsUnderWay
          /\ SessionIsWatched

(* What the code of a step may do to the signals it found as tb.           *)
KeepsTab(tb, x) == /\ DOMAIN x = TabFields
                   /\ tb.initialized => x.initialized
                   /\ x.missed = tb.missed

Keeps(tb, r) == KeepsTab(tb, r.tab)

LEMMA ResultParts ==
  ASSUME NEW tb, NEW s, NEW tk
  PROVE  Result(tb, s, tk).tab = tb /\ Result(tb, s, tk).task = tk
BY DEF Result

LEMMA LogoutKeeps ==
  ASSUME NEW tb, DOMAIN tb = TabFields
  PROVE  /\ DOMAIN logout(tb) = TabFields
         /\ tb.initialized => logout(tb).initialized
         /\ logout(tb).user = FALSE /\ logout(tb).missed = tb.missed
BY DEF logout, TabFields

LEMMA TryRefreshKeeps ==
  ASSUME NEW tb, NEW s, NEW cont, NEW exp, DOMAIN tb = TabFields
  PROVE  Keeps(tb, try_refresh(tb, s, cont, exp))
<1> DEFINE on == [tb EXCEPT !.refreshing = TRUE]
<1>1. try_refresh(tb, s, cont, exp).tab \in {tb, on}
  BY DEF try_refresh, Result
<1>2. DOMAIN on = TabFields /\ (tb.initialized => on.initialized) /\ on.missed = tb.missed
  BY DEF TabFields
<1> HIDE DEF on
<1> QED BY <1>1, <1>2 DEF Keeps, KeepsTab

LEMMA TryRefreshWaits ==
  ASSUME NEW tb, NEW s, NEW cont, NEW exp
  PROVE  LET tk == try_refresh(tb, s, cont, exp).task
         IN  tk.pc \in {"wait", "refresh"} /\ tk.cont = cont
<1> DEFINE tr == try_refresh(tb, s, cont, exp)
<1> SUFFICES tr.task.pc \in {"wait", "refresh"} /\ tr.task.cont = cont
  OBVIOUS
<1>1. CASE tb.refreshing
  <2> DEFINE w == [Idle EXCEPT !.pc = "wait", !.cont = cont, !.n = Polls, !.exp = exp]
  <2>1. tr.task = w
    BY <1>1 DEF try_refresh, Result
  <2>2. w.pc = "wait" /\ w.cont = cont
    BY IdleIsGood DEF CallFields
  <2> HIDE DEF w, tr
  <2> QED BY <2>1, <2>2
<1>2. CASE ~tb.refreshing
  <2> DEFINE c == Call("refresh", tb)
             w == [c EXCEPT !.cont = cont, !.exp = exp]
  <2>1. tr.task = w
    BY <1>2 DEF try_refresh, Result
  <2>2. "refresh" \in Calls
    BY DEF Calls
  <2>3. DOMAIN c = CallFields /\ c.pc = "refresh"
    BY <2>2, CallIsGood
  <2> HIDE DEF c
  <2>4. w.pc = "refresh" /\ w.cont = cont
    BY <2>3 DEF CallFields
  <2> HIDE DEF w, tr
  <2> QED BY <2>1, <2>4
<1> QED BY <1>1, <1>2

LEMMA RefreshedKeeps ==
  ASSUME NEW tb, NEW s, NEW cont \in Waits, NEW exp, NEW ok \in BOOLEAN,
         DOMAIN tb = TabFields
  PROVE  Keeps(tb, Refreshed(tb, s, cont, exp, ok))
<1> DEFINE on == [tb EXCEPT !.initialized = TRUE]
           off == [logout(tb) EXCEPT !.initialized = TRUE]
<1>1. Refreshed(tb, s, cont, exp, ok).tab \in {tb, on, off}
  BY DEF Refreshed, Result, Waits
<1>2. DOMAIN on = TabFields /\ on.initialized /\ on.missed = tb.missed
  BY DEF TabFields
<1>3. DOMAIN off = TabFields /\ off.initialized /\ off.missed = tb.missed
  BY LogoutKeeps DEF TabFields
<1> HIDE DEF on, off
<1> QED BY <1>1, <1>2, <1>3 DEF Keeps, KeepsTab

LEMMA AnsweredKeeps ==
  ASSUME NEW tb, NEW s, NEW tk, GoodTask(tk), DOMAIN tb = TabFields
  PROVE  Keeps(tb, Answered(tb, s, tk))
<1> DEFINE r == Answered(tb, s, tk)
           out == logout(tb)
           outInit == [out EXCEPT !.initialized = TRUE]
<1> SUFFICES Keeps(tb, r)
  OBVIOUS
<1>1. KeepsTab(tb, out) /\ KeepsTab(tb, outInit)
  <2>1. DOMAIN out = TabFields /\ (tb.initialized => out.initialized) /\ out.missed = tb.missed
    BY LogoutKeeps
  <2> HIDE DEF out
  <2>2. DOMAIN outInit = TabFields /\ outInit.initialized /\ outInit.missed = tb.missed
    BY <2>1 DEF TabFields
  <2> QED BY <2>1, <2>2 DEF KeepsTab
<1>2. ASSUME NEW x, NEW y
      PROVE  /\ KeepsTab(tb, [tb EXCEPT !.client = x, !.expires = y])
             /\ KeepsTab(tb, [tb EXCEPT !.user = x])
             /\ KeepsTab(tb, [tb EXCEPT !.user = x, !.initialized = TRUE])
             /\ KeepsTab(tb, [tb EXCEPT !.expires = y, !.initialized = TRUE])
  <2>1. KeepsTab(tb, [tb EXCEPT !.client = x, !.expires = y])
    BY DEF TabFields, KeepsTab
  <2>2. KeepsTab(tb, [tb EXCEPT !.user = x])
    BY DEF TabFields, KeepsTab
  <2>3. KeepsTab(tb, [tb EXCEPT !.user = x, !.initialized = TRUE])
    BY DEF TabFields, KeepsTab
  <2>4. KeepsTab(tb, [tb EXCEPT !.expires = y, !.initialized = TRUE])
    BY DEF TabFields, KeepsTab
  <2> QED BY <2>1, <2>2, <2>3, <2>4
<1>k. KeepsTab(tb, tb)
  BY DEF KeepsTab
<1> DEFINE signed(x, y) == [tb EXCEPT !.client = x, !.expires = y]
<1>t. \A x, y : KeepsTab(tb, signed(x, y))
  BY <1>2
<1>3. CASE tk.pc = "refresh"
  <2>1. tk.cont \in Waits
    BY <1>3 DEF GoodTask
  <2> DEFINE exp == now + RememberLife
             won == [tb EXCEPT !.client = tk.ans.token, !.expires = exp, !.refreshing = FALSE]
             lost == [tb EXCEPT !.refreshing = FALSE]
             kept == save_token(save_jwt(s, tk.ans.token), exp, Max2(RefreshLife, RememberLife))
  <2>2. \/ r = Refreshed(won, kept, tk.cont, tk.exp, TRUE)
        \/ r = Refreshed(lost, s, tk.cont, tk.exp, FALSE)
    BY <1>3 DEF Answered, refresh_answered
  <2> HIDE DEF exp, kept, r
  <2>3. /\ DOMAIN won = TabFields /\ (tb.initialized => won.initialized)
        /\ DOMAIN lost = TabFields /\ (tb.initialized => lost.initialized)
        /\ won.missed = tb.missed /\ lost.missed = tb.missed
    BY DEF TabFields
  <2> HIDE DEF won, lost
  <2>4. /\ Keeps(won, Refreshed(won, kept, tk.cont, tk.exp, TRUE))
        /\ Keeps(lost, Refreshed(lost, s, tk.cont, tk.exp, FALSE))
    BY <2>1, <2>3, RefreshedKeeps
  <2> QED BY <2>2, <2>3, <2>4 DEF Keeps, KeepsTab
<1>4. CASE tk.pc \in {"me", "meAgain"}
  <2>1. r = me_answered(tb, s, tk)
    BY <1>4 DEF Answered
  <2> DEFINE named == tb.user \/ tb.client # None
  <2>2. \/ r.tab = [tb EXCEPT !.user = TRUE, !.initialized = TRUE]
        \/ r.tab = [tb EXCEPT !.user = named, !.initialized = TRUE]
        \/ r = try_refresh(tb, s, "again", 0)
        \/ r.tab = outInit
        \/ r.tab = [tb EXCEPT !.expires = tk.exp, !.initialized = TRUE]
    BY <1>4, <2>1 DEF me_answered, Result, is_auth_failure
  <2> HIDE DEF r, outInit, named
  <2>3. Keeps(tb, try_refresh(tb, s, "again", 0))
    BY TryRefreshKeeps
  <2> QED BY <1>1, <1>2, <2>2, <2>3 DEF Keeps
<1>5. CASE tk.pc = "login"
  <2>1. r.tab = tb \/ \E x, y : r.tab = signed(x, y)
    BY <1>5 DEF Answered, login_answered, Result
  <2> HIDE DEF r, signed
  <2> QED BY <1>t, <1>k, <2>1 DEF Keeps
<1>6. CASE tk.pc = "loginMe"
  <2>1. r.tab \in {tb, out} \/ r.tab = [tb EXCEPT !.user = TRUE]
    BY <1>6 DEF Answered, login_me_answered, Result, is_auth_failure
  <2> HIDE DEF r, out
  <2> QED BY <1>1, <1>2, <1>k, <2>1 DEF Keeps
<1>7. CASE tk.pc = "reset"
  <2>1. r.tab = tb \/ \E x, y : r.tab = signed(x, y)
    BY <1>7 DEF Answered, reset_answered, Result
  <2> HIDE DEF r, signed
  <2> QED BY <1>t, <1>k, <2>1 DEF Keeps
<1>8. CASE tk.pc = "persistMe"
  <2>1. r.tab = out \/ r.tab = [tb EXCEPT !.user = TRUE]
    BY <1>8 DEF Answered, persist_session, Result
  <2> HIDE DEF r, out
  <2> QED BY <1>1, <1>2, <1>k, <2>1 DEF Keeps
<1>9. CASE tk.pc = "password"
  <2>1. r = swap_token(tb, s, tk)
    BY <1>9 DEF Answered
  <2>2. \/ r.tab \in {tb, out}
        \/ r.tab = signed(tk.ans.token, tk.ans.token.exp)
    BY <2>1 DEF swap_token, handle_unauth, Result
  <2> HIDE DEF r, out, signed
  <2> QED BY <1>1, <1>t, <1>k, <2>2 DEF Keeps
<1>10. CASE tk.pc = "page"
  <2>1. r.tab = tb
    BY <1>10 DEF Answered, handle_unauth, Result
  <2> HIDE DEF r
  <2> QED BY <1>k, <2>1 DEF Keeps
<1>11. CASE tk.pc \notin {"refresh", "me", "meAgain", "login", "loginMe", "reset",
                         "persistMe", "password", "page"}
  <2>1. r.tab = out
    BY <1>11 DEF Answered, Result
  <2> HIDE DEF r, out
  <2> QED BY <1>1, <2>1 DEF Keeps
<1> QED BY <1>3, <1>4, <1>5, <1>6, <1>7, <1>8, <1>9, <1>10, <1>11

(* The guard's step r leaves the session watched, unless it changes what   *)
(* the guard's resource is told of.                                        *)
GuardGoesOn(r, pending) ==
    /\ Mounted(tab) /\ Mounted(r.tab) /\ ~pending
    /\ r.tab.expires = tab.expires /\ tab.expires \in Nat \ {0, r.tab.missed}
    => Watches(r.task, tab.expires)

LEMMA StepKeepsTab ==
  ASSUME TabInv, TasksAreGood, NEW t \in Tasks, NEW r, NEW pending,
         Step(t, r, pending), now' = now,
         DOMAIN r.tab = TabFields, tab.initialized => r.tab.initialized,
         t # "guard" => r.tab.missed = tab.missed,
         t = "restore" => r.tab.initialized \/ Restores(r.task),
         t # "guard" => (dirty => pending),
         t = "guard" => GuardGoesOn(r, pending)
  PROVE  TabInv'
<1> DEFINE after == [task EXCEPT ![t] = r.task]
<1>1. /\ tab' = r.tab
      /\ task' = [u \in Tasks |-> IF Alive(u, after[u], r.tab) THEN after[u] ELSE Idle]
      /\ dirty' = /\ Mounted(r.tab)
                  /\ \/ pending \/ ~Mounted(tab)
                     \/ r.tab.expires # tab.expires
                     \/ tab.tracks /\ r.tab.refreshing # tab.refreshing
  BY DEF Step
<1>2. \A u \in Tasks : after[u] = IF u = t THEN r.task ELSE task[u]
  BY DEF TasksAreGood
<1> HIDE DEF after
<1>3. DOMAIN tab' = TabFields /\ now' \in Nat
  BY <1>1 DEF TabInv
<1>4. RestoreIsUnderWay'
  <2>1. task'["restore"] = after["restore"]
    BY <1>1 DEF Tasks, Alive
  <2>2. tab'.initialized \/ Restores(task'["restore"])
    BY <1>1, <1>2, <2>1 DEF TabInv, RestoreIsUnderWay, Tasks
  <2> QED BY <2>2 DEF RestoreIsUnderWay, Restores
<1>5. SessionIsWatched'
  <2> SUFFICES ASSUME Mounted(tab)', tab'.expires \in Nat \ {0, tab'.missed}, ~dirty'
               PROVE  Watches(task'["guard"], tab'.expires)
    BY <1>1 DEF SessionIsWatched, Watches, Expired
  <2>1. Mounted(r.tab)
    BY <1>1 DEF Mounted
  <2>2. ~pending /\ Mounted(tab) /\ r.tab.expires = tab.expires
    BY <1>1, <2>1
  <2>3. task'["guard"] = after["guard"]
    BY <1>1, <2>1 DEF Tasks, Alive
  <2>4. tab'.expires = tab.expires
    BY <1>1, <2>2
  <2>5. CASE t = "guard"
    <3>1. Watches(r.task, tab.expires)
      BY <1>1, <2>1, <2>2, <2>4, <2>5 DEF GuardGoesOn
    <3> QED BY <1>2, <2>3, <2>4, <2>5, <3>1
  <2>6. CASE t # "guard"
    <3>1. after["guard"] = task["guard"]
      BY <1>2, <2>6 DEF Tasks
    <3>2. Watches(task["guard"], tab.expires)
      BY <1>1, <2>2, <2>4, <2>6 DEF TabInv, SessionIsWatched
    <3> QED BY <2>3, <2>4, <3>1, <3>2
  <2> QED BY <2>5, <2>6
<1> QED BY <1>3, <1>4, <1>5 DEF TabInv

(* A step that leaves the tab alone, and what the two tasks are at.        *)
LEMMA SameTabIsKept ==
  ASSUME TabInv, UNCHANGED <<tab, dirty>>, now' \in {now, now + 1},
         \A u \in {"restore", "guard"} : /\ task'[u].pc = task[u].pc
                                         /\ task'[u].cont = task[u].cont
                                         /\ task'[u].n = task[u].n
  PROVE  TabInv'
<1>1. RestoreIsUnderWay'
  BY DEF TabInv, RestoreIsUnderWay, Restores
<1>2. SessionIsWatched'
  <2> SUFFICES ASSUME Mounted(tab), tab.expires \in Nat \ {0, tab.missed}, ~dirty
               PROVE  Watches(task["guard"], tab.expires)'
    BY DEF SessionIsWatched, Mounted
  <2>1. Watches(task["guard"], tab.expires)
    BY DEF TabInv, SessionIsWatched
  <2>2. Expired(tab.expires) => Expired(tab.expires)'
    BY LimitsAreNatural, RefreshedTokensLast DEF Expired, TabInv
  <2> QED BY <2>1, <2>2 DEF Watches
<1> QED BY <1>1, <1>2 DEF TabInv

LEMMA ExpiryGoesOn ==
  ASSUME NEW tb, DOMAIN tb = TabFields
  PROVE  /\ Keeps(tb, fire_expiry(tb))
         /\ tb.expires # 0 /\ Expired(tb.expires)
              => Watches(fire_expiry(tb).task, tb.expires)
<1> DEFINE tr == try_refresh(tb, store, "guard", 0)
<1>1. IF tb.expires # 0 /\ Expired(tb.expires) THEN fire_expiry(tb) = tr
      ELSE fire_expiry(tb).tab = tb
  BY DEF fire_expiry, Result
<1>2. Keeps(tb, tr)
  BY TryRefreshKeeps
<1>3. tr.task.pc \in {"wait", "refresh"} /\ tr.task.cont = "guard"
  BY TryRefreshWaits
<1> HIDE DEF tr
<1> QED BY <1>1, <1>2, <1>3 DEF Keeps, KeepsTab, Watches

(* After a refresh, restoring goes on or sets initialized; the guard whose *)
(* refresh failed signs out.                                               *)
LEMMA RefreshedGoesOn ==
  ASSUME NEW tb, NEW s, NEW exp, NEW ok \in BOOLEAN, DOMAIN tb = TabFields
  PROVE  /\ \A cont \in {"restore", "again"} :
              LET r == Refreshed(tb, s, cont, exp, ok)
              IN  r.tab.initialized \/ Restores(r.task)
         /\ \A e : ~ok => Watches(Refreshed(tb, s, "guard", exp, ok).task, e)
<1>1. \A pc \in {"me", "meAgain", "guardLogout"} : pc \in Calls
  BY DEF Calls
<1> DEFINE me == [Call("me", tb) EXCEPT !.exp = exp]
           on == [tb EXCEPT !.initialized = TRUE]
           off == [logout(tb) EXCEPT !.initialized = TRUE]
<1>2. me.pc = "me" /\ Call("meAgain", tb).pc = "meAgain"
        /\ Call("guardLogout", tb).pc = "guardLogout"
  BY <1>1, CallIsGood DEF CallFields
<1>3. on.initialized /\ off.initialized
  BY LogoutKeeps DEF TabFields
<1>4. ASSUME NEW cont \in {"restore", "again"}
      PROVE  \/ Refreshed(tb, s, cont, exp, ok).task \in {me, Call("meAgain", tb)}
             \/ Refreshed(tb, s, cont, exp, ok).tab \in {on, off}
  BY DEF Refreshed, Result
<1>5. ~ok => Refreshed(tb, s, "guard", exp, ok).task = Call("guardLogout", tb)
  BY DEF Refreshed, Result
<1> HIDE DEF me, on, off
<1>6. ASSUME NEW cont \in {"restore", "again"}
      PROVE  \/ Refreshed(tb, s, cont, exp, ok).tab.initialized
             \/ Restores(Refreshed(tb, s, cont, exp, ok).task)
  BY <1>2, <1>3, <1>4 DEF Restores
<1> QED BY <1>2, <1>5, <1>6 DEF Watches

LEMMA RestoreGoesOn ==
  ASSUME NEW tb, NEW s, NEW tk, GoodTask(tk), DOMAIN tb = TabFields,
         Restores(tk), tk.pc \in Calls
  PROVE  LET r == Answered(tb, s, tk) IN r.tab.initialized \/ Restores(r.task)
<1> DEFINE r == Answered(tb, s, tk)
<1> SUFFICES r.tab.initialized \/ Restores(r.task)
  OBVIOUS
<1>1. tk.pc # "boot" /\ tk.pc # "wait"
  BY DEF Calls
<1>2. CASE tk.pc = "refresh"
  <2>1. tk.cont \in {"restore", "again"}
    BY <1>2 DEF Restores
  <2> DEFINE exp == now + RememberLife
             won == [tb EXCEPT !.client = tk.ans.token, !.expires = exp, !.refreshing = FALSE]
             lost == [tb EXCEPT !.refreshing = FALSE]
             kept == save_token(save_jwt(s, tk.ans.token), exp, Max2(RefreshLife, RememberLife))
  <2>2. \/ r = Refreshed(won, kept, tk.cont, tk.exp, TRUE)
        \/ r = Refreshed(lost, s, tk.cont, tk.exp, FALSE)
    BY <1>2 DEF Answered, refresh_answered
  <2> HIDE DEF exp, kept, r
  <2>3. DOMAIN won = TabFields /\ DOMAIN lost = TabFields
    BY DEF TabFields
  <2> HIDE DEF won, lost
  <2> QED BY <2>1, <2>2, <2>3, RefreshedGoesOn
<1>3. CASE tk.pc \in {"me", "meAgain"}
  <2> DEFINE named == tb.user \/ tb.client # None
             found == [tb EXCEPT !.user = TRUE, !.initialized = TRUE]
             claimed == [tb EXCEPT !.user = named, !.initialized = TRUE]
             out == [logout(tb) EXCEPT !.initialized = TRUE]
             later == [tb EXCEPT !.expires = tk.exp, !.initialized = TRUE]
             tr == try_refresh(tb, s, "again", 0)
  <2>1. r = me_answered(tb, s, tk)
    BY <1>3 DEF Answered
  <2>2. r.tab \in {found, claimed, out, later} \/ r = tr
    BY <1>3, <2>1 DEF me_answered, Result, is_auth_failure
  <2> HIDE DEF named
  <2>3. found.initialized /\ claimed.initialized /\ out.initialized /\ later.initialized
    BY LogoutKeeps DEF TabFields
  <2>4. tr.task.pc \in {"wait", "refresh"} /\ tr.task.cont = "again"
    BY TryRefreshWaits
  <2> HIDE DEF found, claimed, out, later, tr, r
  <2> QED BY <2>2, <2>3, <2>4 DEF Restores
<1> QED BY <1>1, <1>2, <1>3 DEF Restores

(* The guard's own refresh renews the session, which restarts the guard,   *)
(* or fails, and the guard signs out.                                      *)
LEMMA GuardDelivers ==
  ASSUME TabInv, NEW s, NEW tk, tk = task["guard"], GoodTask(tk), tk.pc \in Calls, ~dirty
  PROVE  GuardGoesOn(Answered(tab, s, tk), dirty)
<1> DEFINE r == Answered(tab, s, tk)
<1> SUFFICES ASSUME Mounted(tab), Mounted(r.tab), r.tab.expires = tab.expires,
                    tab.expires \in Nat \ {0, tab.missed}
             PROVE  Watches(r.task, tab.expires)
  BY AnsweredKeeps DEF GuardGoesOn, Keeps, KeepsTab, TabInv
<1>1. Watches(tk, tab.expires)
  BY DEF TabInv, SessionIsWatched
<1>2. tk.pc \notin {"sleep", "wait"}
  BY DEF Calls
<1>3. CASE tk.pc = "refresh" /\ tk.cont = "guard" /\ Expired(tab.expires)
  <2> DEFINE exp == now + RememberLife
             won == [tab EXCEPT !.client = tk.ans.token, !.expires = exp, !.refreshing = FALSE]
             lost == [tab EXCEPT !.refreshing = FALSE]
             kept == save_token(save_jwt(s, tk.ans.token), exp, Max2(RefreshLife, RememberLife))
  <2>1. \/ r = Refreshed(won, kept, "guard", tk.exp, TRUE)
        \/ r = Refreshed(lost, s, "guard", tk.exp, FALSE)
    BY <1>3 DEF Answered, refresh_answered
  <2>2. exp # tab.expires
    BY <1>3, LimitsAreNatural, RefreshedTokensLast DEF Expired, TabInv
  <2> HIDE DEF exp, kept, r
  <2>3. won.expires = exp /\ DOMAIN lost = TabFields
    BY DEF TabFields, TabInv
  <2> HIDE DEF won, lost
  <2>4. Refreshed(won, kept, "guard", tk.exp, TRUE).tab = won
    BY DEF Refreshed, Result
  <2>5. Watches(Refreshed(lost, s, "guard", tk.exp, FALSE).task, tab.expires)
    BY <2>3, RefreshedGoesOn
  <2> QED BY <2>1, <2>2, <2>3, <2>4, <2>5
<1>4. CASE tk.pc = "guardLogout"
  <2>1. r.tab = logout(tab)
    BY <1>4 DEF Answered, Result
  <2>2. ~Mounted(r.tab)
    BY <2>1, LogoutKeeps DEF TabInv, Mounted
  <2> QED BY <2>2
<1> QED BY <1>1, <1>2, <1>3, <1>4 DEF Watches

LEMMA TabStays ==
  ASSUME TasksAreGood, TabInv, [Next]_vars
  PROVE  TabInv'
<1>0. DOMAIN tab = TabFields /\ DOMAIN task = Tasks
  BY DEF TabInv, TasksAreGood
<1>1. CASE Boot
  <2> DEFINE tb == [tab EXCEPT !.client = FirstOf(store.jwt, @)]
             exp == load_token(store)
             on == [tb EXCEPT !.initialized = TRUE]
             tr == try_refresh(tb, store, "restore", exp)
             me == [Call("me", tb) EXCEPT !.exp = exp]
             late == [tb EXCEPT !.expires = exp]
             r == CASE exp = 0 -> Result(on, store, Idle)
                    [] exp # 0 /\ Expired(exp) -> tr
                    [] OTHER -> Result(late, store, me)
  <2>1. Step("restore", r, dirty) /\ now' = now
    BY <1>1 DEF Boot
  <2>2. \/ r.tab = on
        \/ r = tr
        \/ r.tab = late /\ r.task = me
    BY DEF Result
  <2>3. DOMAIN tb = TabFields /\ (tab.initialized => tb.initialized) /\ tb.missed = tab.missed
    BY <1>0 DEF TabFields
  <2> HIDE DEF tb, exp, r
  <2>4. /\ DOMAIN on = TabFields /\ on.initialized
        /\ DOMAIN late = TabFields /\ (tab.initialized => late.initialized)
        /\ on.missed = tab.missed /\ late.missed = tab.missed
    BY <2>3 DEF TabFields
  <2>5. Keeps(tb, tr) /\ tr.task.pc \in {"wait", "refresh"} /\ tr.task.cont = "restore"
    BY <2>3, TryRefreshKeeps, TryRefreshWaits
  <2>6. me.pc = "me"
    <3>1. "me" \in Calls
      BY DEF Calls
    <3> QED BY <3>1, CallIsGood DEF CallFields
  <2> HIDE DEF on, tr, me, late
  <2>7. Keeps(tab, r) /\ (r.tab.initialized \/ Restores(r.task))
    BY <2>2, <2>3, <2>4, <2>5, <2>6 DEF Keeps, KeepsTab, Restores
  <2> QED BY <2>1, <2>7, StepKeepsTab DEF Tasks, Keeps, KeepsTab
<1>2. CASE GuardRestart
  <2> DEFINE long == tab.expires - now > TimerMax
             wake == IF long THEN now ELSE tab.expires
             tb == [tab EXCEPT !.missed = IF long THEN tab.expires ELSE 0]
             slp == [Idle EXCEPT !.pc = "sleep", !.n = wake]
             r == IF tab.expires = 0 \/ Expired(tab.expires) THEN fire_expiry(tb)
                  ELSE Result(tb, store, slp)
  <2>1. Step("guard", r, FALSE) /\ now' = now
    BY <1>2 DEF GuardRestart
  <2>2. slp.pc = "sleep" /\ slp.n = wake
    BY IdleIsGood DEF CallFields
  <2>3. /\ DOMAIN tb = TabFields /\ tb.initialized = tab.initialized
        /\ tb.expires = tab.expires /\ tb.missed = IF long THEN tab.expires ELSE 0
    BY <1>0 DEF TabFields
  <2>4. \/ r = fire_expiry(tb) /\ (tab.expires = 0 \/ Expired(tab.expires))
        \/ r.tab = tb /\ r.task = slp
    BY DEF Result
  <2>5. tb.missed # tab.expires => wake = tab.expires
    BY <2>3
  <2> HIDE DEF long, wake, tb, slp, r
  <2>6. Keeps(tb, r)
    BY <2>3, <2>4, ExpiryGoesOn DEF Keeps, KeepsTab
  <2>7. GuardGoesOn(r, FALSE)
    BY <2>2, <2>3, <2>4, <2>5, <2>6, ExpiryGoesOn DEF GuardGoesOn, Watches, Keeps, KeepsTab
  <2> QED BY <2>1, <2>3, <2>6, <2>7, StepKeepsTab DEF Tasks, Keeps, KeepsTab
<1>3. CASE GuardTimer
  <2>1. /\ Step("guard", fire_expiry(tab), dirty) /\ now' = now /\ ~dirty
        /\ task["guard"].pc = "sleep" /\ now >= task["guard"].n
    BY <1>3 DEF GuardTimer, Runs
  <2>2. GuardGoesOn(fire_expiry(tab), dirty)
    <3> SUFFICES ASSUME Mounted(tab), tab.expires \in Nat \ {0, tab.missed}
                 PROVE  Watches(fire_expiry(tab).task, tab.expires)
      BY <1>0, ExpiryGoesOn DEF GuardGoesOn, Keeps, KeepsTab
    <3>1. task["guard"].n = tab.expires
      BY <2>1 DEF TabInv, SessionIsWatched, Watches
    <3>2. tab.expires # 0 /\ Expired(tab.expires)
      BY <2>1, <3>1, LimitsAreNatural, RefreshedTokensLast DEF Expired, TabInv
    <3> QED BY <1>0, <3>2, ExpiryGoesOn
  <2>3. Keeps(tab, fire_expiry(tab))
    BY <1>0, ExpiryGoesOn
  <2> QED BY <2>1, <2>2, <2>3, StepKeepsTab DEF Tasks, Keeps, KeepsTab
<1>4. ASSUME NEW t \in Tasks, WaitPoll(t)
      PROVE  TabInv'
  <2> DEFINE tk == task[t]
             less == [tk EXCEPT !.n = @ - 1]
             ok == tab.expires # 0 /\ ~Expired(tab.expires)
             r == CASE ~tab.refreshing -> Refreshed(tab, store, tk.cont, tk.exp, ok)
                    [] tab.refreshing /\ tk.n > 1 -> Result(tab, store, less)
                    [] OTHER -> Refreshed(tab, store, tk.cont, tk.exp, FALSE)
  <2>1. Step(t, r, dirty) /\ now' = now /\ tk.pc = "wait" /\ (t = "guard" => ~dirty)
    BY <1>4 DEF WaitPoll, Runs
  <2>2. GoodTask(tk) /\ tk.cont \in Waits
    BY <2>1 DEF TasksAreGood, GoodTask
  <2>3. less.pc = tk.pc /\ less.cont = tk.cont
    BY <2>2 DEF GoodTask, CallFields
  <2>4. ok \in BOOLEAN /\ (Expired(tab.expires) => ~ok)
    OBVIOUS
  <2>5. \/ r = Refreshed(tab, store, tk.cont, tk.exp, ok)
        \/ r = Refreshed(tab, store, tk.cont, tk.exp, FALSE)
        \/ r.tab = tab /\ r.task = less
    BY DEF Result
  <2> HIDE DEF less, ok, r
  <2>6. Keeps(tab, r)
    <3>1. \A b \in BOOLEAN : Keeps(tab, Refreshed(tab, store, tk.cont, tk.exp, b))
      BY <1>0, <2>2, RefreshedKeeps
    <3>2. KeepsTab(tab, tab)
      BY <1>0 DEF KeepsTab
    <3> QED BY <2>4, <2>5, <3>1, <3>2 DEF Keeps, KeepsTab
  <2>7. t = "restore" => r.tab.initialized \/ Restores(r.task)
    <3> SUFFICES ASSUME t = "restore" PROVE r.tab.initialized \/ Restores(r.task)
      OBVIOUS
    <3>1. CASE tab.initialized
      BY <2>6, <3>1 DEF Keeps, KeepsTab
    <3>2. CASE ~tab.initialized
      <4>1. tk.cont \in {"restore", "again"}
        BY <2>1, <3>2 DEF TabInv, RestoreIsUnderWay, Restores
      <4>2. Restores(less)
        BY <2>1, <2>3, <4>1 DEF Restores
      <4>3. \A b \in BOOLEAN :
              \/ Refreshed(tab, store, tk.cont, tk.exp, b).tab.initialized
              \/ Restores(Refreshed(tab, store, tk.cont, tk.exp, b).task)
        BY <1>0, <4>1, RefreshedGoesOn
      <4> QED BY <2>4, <2>5, <4>2, <4>3
    <3> QED BY <3>1, <3>2
  <2>8. t = "guard" => GuardGoesOn(r, dirty)
    <3> SUFFICES ASSUME t = "guard", Mounted(tab), tab.expires \in Nat \ {0, tab.missed}
                 PROVE  Watches(r.task, tab.expires)
      BY <2>6 DEF GuardGoesOn, Keeps, KeepsTab
    <3>1. tk.cont = "guard" /\ Expired(tab.expires)
      BY <2>1 DEF TabInv, SessionIsWatched, Watches
    <3>2. Watches(less, tab.expires)
      BY <2>1, <2>3, <3>1 DEF Watches
    <3>3. \A b \in BOOLEAN :
            ~b => Watches(Refreshed(tab, store, "guard", tk.exp, b).task, tab.expires)
      BY <1>0, RefreshedGoesOn
    <3> QED BY <2>4, <2>5, <3>1, <3>2, <3>3
  <2> QED BY <2>1, <2>6, <2>7, <2>8, StepKeepsTab DEF Keeps, KeepsTab
<1>5. ASSUME NEW t \in Tasks, Deliver(t)
      PROVE  TabInv'
  <2> DEFINE tk == task[t]
  <2>1. PICK s : Step(t, Answered(tab, s, tk), dirty)
    BY <1>5 DEF Deliver
  <2>2. tk.http # "none" /\ now' = now /\ (t = "guard" => ~dirty)
    BY <1>5 DEF Deliver, Runs
  <2>3. GoodTask(tk) /\ tk.pc \in Calls
    BY <2>2 DEF TasksAreGood, GoodTask
  <2> DEFINE r == Answered(tab, s, tk)
  <2>4. Keeps(tab, r)
    BY <1>0, <2>3, AnsweredKeeps
  <2>5. t = "restore" => r.tab.initialized \/ Restores(r.task)
    <3>1. CASE tab.initialized
      BY <2>4, <3>1 DEF Keeps, KeepsTab
    <3>2. CASE ~tab.initialized /\ t = "restore"
      <4>1. Restores(tk)
        BY <3>2 DEF TabInv, RestoreIsUnderWay
      <4> QED BY <1>0, <2>3, <4>1, RestoreGoesOn
    <3> QED BY <3>1, <3>2
  <2>6. t = "guard" => GuardGoesOn(r, dirty)
    BY <2>2, <2>3, GuardDelivers
  <2> HIDE DEF r
  <2> QED BY <2>1, <2>2, <2>4, <2>5, <2>6, StepKeepsTab DEF r, Keeps, KeepsTab
<1>6. ASSUME NEW t \in Tasks, Serve(t) \/ LoseRequest(t) \/ Retry(t)
      PROVE  TabInv'
  <2>1. UNCHANGED <<now, tab, dirty>>
    BY <1>6 DEF Serve, LoseRequest, Retry
  <2>2. GoodTask(task[t])
    BY DEF TasksAreGood
  <2>3. \E tk : /\ task' = [task EXCEPT ![t] = tk]
                /\ tk.pc = task[t].pc /\ tk.cont = task[t].cont /\ tk.n = task[t].n
    <3>1. CASE Serve(t)
      <4>1. PICK lost, o :
              task' = [task EXCEPT ![t].http = "answered",
                                   ![t].ans = IF lost THEN Fail("net").ans ELSE o.ans]
        BY <3>1, ServeShape DEF ServedAs
      <4> DEFINE a == IF lost THEN Fail("net").ans ELSE o.ans
                 tk == [task[t] EXCEPT !.http = "answered", !.ans = a]
      <4>2. task' = [task EXCEPT ![t] = tk]
        BY <1>0, <4>1
      <4>3. tk.pc = task[t].pc /\ tk.cont = task[t].cont /\ tk.n = task[t].n
        BY <2>2 DEF GoodTask, CallFields
      <4> HIDE DEF tk
      <4> QED BY <4>2, <4>3
    <3>2. CASE LoseRequest(t)
      <4> DEFINE a == Fail("net").ans
                 tk == [task[t] EXCEPT !.http = "answered", !.ans = a]
      <4>1. task' = [task EXCEPT ![t] = tk]
        BY <1>0, <3>2 DEF LoseRequest
      <4>2. tk.pc = task[t].pc /\ tk.cont = task[t].cont /\ tk.n = task[t].n
        BY <2>2 DEF GoodTask, CallFields
      <4> HIDE DEF tk
      <4> QED BY <4>1, <4>2
    <3>3. CASE Retry(t)
      <4> DEFINE tk == [task[t] EXCEPT !.http = "sent", !.ans = None, !.tries = @ + 1]
      <4>1. task' = [task EXCEPT ![t] = tk]
        BY <1>0, <3>3 DEF Retry
      <4>2. tk.pc = task[t].pc /\ tk.cont = task[t].cont /\ tk.n = task[t].n
        BY <2>2 DEF GoodTask, CallFields
      <4> HIDE DEF tk
      <4> QED BY <4>1, <4>2
    <3> QED BY <1>6, <3>1, <3>2, <3>3
  <2>4. \A u \in {"restore", "guard"} : /\ task'[u].pc = task[u].pc
                                        /\ task'[u].cont = task[u].cont
                                        /\ task'[u].n = task[u].n
    BY <1>0, <2>3 DEF Tasks
  <2> QED BY <2>1, <2>4, SameTabIsKept
<1>7. CASE \/ SubmitLogin \/ SubmitReset \/ ClickLogout \/ ClickLogoutAll
           \/ SubmitPassword \/ LoadPage
  <2>1. \E u \in {"user", "page"} : \E c : task' = [task EXCEPT ![u] = c]
    BY <1>7 DEF SubmitLogin, SubmitReset, ClickLogout, ClickLogoutAll, SubmitPassword,
         UserCalls, LoadPage
  <2>2. UNCHANGED <<now, tab, dirty>>
    BY <1>7 DEF SubmitLogin, SubmitReset, ClickLogout, ClickLogoutAll, SubmitPassword,
         UserCalls, LoadPage
  <2>3. \A u \in {"restore", "guard"} : task'[u] = task[u]
    BY <1>0, <2>1 DEF Tasks
  <2> QED BY <2>2, <2>3, SameTabIsKept
<1>8. CASE RevokedElsewhere \/ Tick \/ UNCHANGED vars
  <2>1. UNCHANGED <<tab, dirty, task>> /\ now' \in {now, now + 1}
    BY <1>8 DEF RevokedElsewhere, Tick, vars
  <2> QED BY <2>1, SameTabIsKept
<1> QED BY <1>1, <1>2, <1>3, <1>4, <1>5, <1>6, <1>7, <1>8
      DEF Next, System, Environment

LEMMA TabBegins == Init => TabInv
<1> SUFFICES ASSUME Init PROVE TabInv
  OBVIOUS
<1>1. /\ DOMAIN tab = TabFields /\ tab.user = FALSE /\ now = 0
  BY DEF Init, TabFields
<1> DEFINE b == [Idle EXCEPT !.pc = "boot"]
<1>2. b.pc = "boot"
  BY IdleIsGood DEF CallFields
<1>3. task["restore"] = b
  BY DEF Init, Tasks
<1> HIDE DEF b
<1>4. RestoreIsUnderWay
  BY <1>2, <1>3 DEF RestoreIsUnderWay, Restores
<1>5. SessionIsWatched
  BY <1>1 DEF SessionIsWatched, Mounted
<1> QED BY <1>1, <1>4, <1>5 DEF TabInv

(* RequireAuth renders nothing until initialized is set: no answer, lost   *)
(* answer, failed refresh or refresh of another task makes                 *)
(* restore_from_storage_async end without setting it.                      *)
THEOREM RestoreAlwaysSettles == Spec => []RestoreIsUnderWay
<1>1. TabInv => RestoreIsUnderWay
  BY DEF TabInv
<1> QED BY <1>1, TabBegins, TabStays, TasksBeginGood, TasksStayGood, PTL DEF Spec

(* TokenExpiryGuard never loses sight of a session whose expiry its timer  *)
(* could reach when it was set: however often its resource is dropped and  *)
(* started again, whoever refreshes, and whatever the tab does in between. *)
THEOREM SessionsAreWatched == Spec => []SessionIsWatched
<1>1. TabInv => SessionIsWatched
  BY DEF TabInv
<1> QED BY <1>1, TabBegins, TabStays, TasksBeginGood, TasksStayGood, PTL DEF Spec
=============================================================================
