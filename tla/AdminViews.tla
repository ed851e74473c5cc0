----------------------------- MODULE AdminViews -----------------------------
(***************************************************************************)
(* The two views of the web front end that load data in background tasks:  *)
(* Users (views/users.rs) and Dashboard (views/dashboard.rs).  A click     *)
(* changes signals and spawns tasks; a signal that the load effect reads   *)
(* queues that effect again; a task awaits its answer and then changes the *)
(* signals of whatever the view has become meanwhile.  Unmounting a view   *)
(* drops its tasks and signals.                                            *)
(*                                                                         *)
(* The server is its table of users, written by this view and elsewhere.   *)
(* A request may be lost, refused, or served with its answer lost, and the *)
(* client library then sends it again.                                     *)
(***************************************************************************)
EXTENDS Integers, Sequences, SequencesExt, FiniteSets

CONSTANTS Nothing,       \* no user, no answer
          Actors,        \* roles the signed-in user may have
          FirstUsers,    \* the users at the start, numbered by age
          PerPages,      \* sizes of a page that can be selected
          DefaultPer,    \* the size of a page at first
          MaxBalance,    \* bound: no balance above it
          MaxClicks,     \* bound on the user's clicks
          MaxLosses,     \* bound on lost or refused requests
          MaxElsewhere,  \* bound on writes by others
          max_retries    \* ClientConfig::max_retries

VARIABLES role,   \* the role of the signed-in user
          view,   \* "users", "dashboard", or "gone" after signing out
          ui,     \* the signals of Users
          dash,   \* the signals of Dashboard
          tasks,  \* the spawned tasks, in the order of spawning
          db,     \* the server's users: rows, revision, next id
          seen,   \* the latest revision whose write was answered here
          left    \* clicks, faults and writes elsewhere still to happen

viewsVars == <<role, view, ui, dash, tasks, db, seen, left>>

NoAnswer == [st |-> "none", items |-> {}, total |-> 0, balance |-> 0, rev |-> 0]
Loading == [st |-> "loading", items |-> {}, page |-> 0, per |-> 0, rev |-> 0]

\* The signals of a freshly mounted Users, both effects queued.
UsersSignals ==
    [list |-> Loading, list_version |-> 0, page |-> 1, per_page |-> DefaultPer,
     total_pages |-> 0, load |-> TRUE, search |-> TRUE, first_run |-> TRUE,
     modal_kind |-> "none", editing_user |-> Nothing, deleting_user |-> Nothing,
     submitting |-> FALSE, form_error |-> FALSE]

\* The signals of a freshly mounted Dashboard.  health_version and
\* user_count_version only ever move together and are one number here.
DashboardSignals ==
    [checking |-> FALSE, version |-> 0, health |-> "unknown", total_users |-> Nothing]

Task(op) ==
    [op |-> op, st |-> "sent", tries |-> 0, ver |-> 0, count |-> FALSE,
     page |-> 1, per |-> 1, id |-> 0, role |-> "user", amount |-> 0,
     ans |-> NoAnswer]

is_admin == role \in {"admin", "system"}

\* RequireAdmin sends a plain user from Users to Dashboard.
ViewsInit ==
    /\ role \in Actors
    /\ view \in IF is_admin THEN {"users", "dashboard"} ELSE {"dashboard"}
    /\ ui = UsersSignals
    /\ dash = DashboardSignals
    /\ tasks = <<>>
    /\ db = [rows |-> [u \in FirstUsers |->
                         [role |-> "user", balance |-> MaxBalance - 1]],
             rev |-> 0, totals |-> {Cardinality(FirstUsers)}, next |-> Cardinality(FirstUsers) + 1]
    /\ seen = 0
    /\ left = [clicks |-> MaxClicks, faults |-> MaxLosses, others |-> MaxElsewhere]

-----------------------------------------------------------------------------
(* The server.                                                             *)

\* The users the signed-in user may list, and the place of one, newest first.
Listed(d) == {i \in DOMAIN d.rows : role = "admin" => d.rows[i].role = "user"}
Rank(d, i) == Cardinality({j \in Listed(d) : j >= i})

\* list_users: one page, its users with what they are at this moment.  The
\* total is cached, so it is now or was once the number of users.
list_users(d, p, n) ==
    [NoAnswer EXCEPT !.st = "ok", !.rev = d.rev,
        !.items = {[id |-> i, role |-> d.rows[i].role, balance |-> d.rows[i].balance] :
                     i \in {j \in Listed(d) :
                              (p - 1) * n < Rank(d, j) /\ Rank(d, j) <= p * n}}]

Refused == [NoAnswer EXCEPT !.st = "other"]

Committed(d, rows) ==
    LET e == [d EXCEPT !.rows = rows, !.rev = @ + 1]
    IN [e EXCEPT !.totals = @ \cup {Cardinality(Listed(e))}]

Written(d, b) == [NoAnswer EXCEPT !.st = "ok", !.rev = d.rev + 1, !.balance = b]

\* What the server makes of request t: its table afterwards and its answer.
\* The t.id of a create is the row an earlier attempt of it inserted, whose
\* email it finds taken.
Served(d, t) ==
    IF t.op \in {"list", "check"}
    THEN [d |-> d, ans |-> list_users(d, t.page, t.per)]
    ELSE IF t.op = "create" /\ t.id \notin DOMAIN d.rows
    THEN [d |-> [Committed(d, [i \in DOMAIN d.rows \cup {d.next} |->
                                 IF i = d.next THEN [role |-> t.role, balance |-> 0]
                                               ELSE d.rows[i]])
                   EXCEPT !.next = @ + 1],
          ans |-> Written(d, 0)]
    ELSE IF t.op = "create" \/ t.id \notin DOMAIN d.rows
    THEN [d |-> d, ans |-> Refused]
    ELSE CASE t.op = "edit" ->
                [d |-> Committed(d, [d.rows EXCEPT ![t.id].role = t.role]),
                 ans |-> Written(d, 0)]
           [] t.op = "delete" ->
                [d |-> Committed(d, [i \in DOMAIN d.rows \ {t.id} |-> d.rows[i]]),
                 ans |-> Written(d, 0)]
           [] OTHER ->
                LET b == d.rows[t.id].balance + t.amount
                IN  IF b \in 0..MaxBalance
                    THEN [d |-> Committed(d, [d.rows EXCEPT ![t.id].balance = b]),
                          ans |-> Written(d, b)]
                    ELSE [d |-> d, ans |-> Refused]

\* send_and_parse after a network error or a 5xx.
Retried(t) ==
    IF t.tries < max_retries THEN [t EXCEPT !.tries = @ + 1]
    ELSE [t EXCEPT !.st = "answered", !.ans = [NoAnswer EXCEPT !.st = "net"]]

ServeTask(i) ==
    /\ tasks[i].st = "sent"
    /\ LET r == Served(db, tasks[i])
       IN /\ db' = r.d
          /\ \E n \in IF tasks[i].op \in {"list", "check"} THEN db.totals ELSE {0} :
               tasks' = [tasks EXCEPT ![i].st = "answered",
                                      ![i].ans = [r.ans EXCEPT !.total = n]]
    /\ UNCHANGED <<role, view, ui, dash, seen, left>>

\* A request that was served, with the row it inserted.
Inserted(t) ==
    IF t.op = "create" /\ t.id \notin DOMAIN db.rows THEN [t EXCEPT !.id = db.next] ELSE t

\* The request is lost, or it is served and its answer is lost.
Lose(i) ==
    /\ tasks[i].st = "sent"
    /\ left.faults > 0
    /\ left' = [left EXCEPT !.faults = @ - 1]
    /\ \/ db' = db /\ tasks' = [tasks EXCEPT ![i] = Retried(@)]
       \/ /\ db' = Served(db, tasks[i]).d
          /\ tasks' = [tasks EXCEPT ![i] = Retried(Inserted(@))]
    /\ UNCHANGED <<role, view, ui, dash, seen>>

\* The middleware or the handler refuses the request.
Refuse(i) ==
    /\ tasks[i].st = "sent"
    /\ left.faults > 0
    /\ left' = [left EXCEPT !.faults = @ - 1]
    /\ \E st \in IF tasks[i].op = "check" /\ ~tasks[i].count THEN {"other"}
                 ELSE {"401", "403", "other"} :
         tasks' = [tasks EXCEPT ![i].st = "answered", ![i].ans.st = st]
    /\ UNCHANGED <<role, view, ui, dash, db, seen>>

\* Another administrator deletes a user while a request is on its way; at any
\* other time no answer could tell.
Elsewhere ==
    /\ left.others > 0
    /\ \E i \in DOMAIN tasks : tasks[i].st = "sent"
    /\ left' = [left EXCEPT !.others = @ - 1]
    /\ \E i \in DOMAIN db.rows : db' = Served(db, [Task("delete") EXCEPT !.id = i]).d
    /\ UNCHANGED <<role, view, ui, dash, tasks, seen>>

-----------------------------------------------------------------------------
(* Users: signals and effects.                                             *)

\* Mutant: page() read inside the task, where nothing tracks it.
SetPageUntracked(u, p) == [u EXCEPT !.page = p]

\* page.set, which queues the load effect whatever the value.
SetPage(u, p) == [u EXCEPT !.page = p, !.load = TRUE]

BumpList(u) == [u EXCEPT !.list_version = @ + 1, !.load = TRUE]

\* The effect on the search text: back to the first page, but not on mounting.
SearchEffect ==
    /\ view = "users"
    /\ ui.search
    /\ ui' = IF ui.first_run THEN [ui EXCEPT !.search = FALSE, !.first_run = FALSE]
             ELSE SetPage([ui EXCEPT !.search = FALSE], 1)
    /\ UNCHANGED <<role, view, dash, tasks, db, seen, left>>

\* The load effect spawns a task for the page of this moment.
LoadEffect ==
    /\ view = "users"
    /\ ui.load
    /\ ui' = [ui EXCEPT !.load = FALSE]
    /\ tasks' = Append(tasks, [Task("list") EXCEPT
                                 !.st = "new", !.page = ui.page, !.per = ui.per_page])
    /\ UNCHANGED <<role, view, dash, db, seen, left>>

\* The load task runs for the first time, up to its request.
StartLoad(i) ==
    /\ tasks[i].st = "new"
    /\ \A j \in 1..(i - 1) : tasks[j].st # "new"
    /\ tasks' = [tasks EXCEPT ![i].st = "sent", ![i].ver = ui.list_version]
    /\ ui' = [ui EXCEPT !.list = Loading]
    /\ UNCHANGED <<role, view, dash, db, seen, left>>

\* Mutant: an answer is dropped only when the page has changed.
StalePage(t) == ui.page # t.page \/ ui.per_page # t.per

\* The answer belongs to another version or page of the list.
Stale(t) ==
    \/ ui.list_version # t.ver
    \/ ui.page # t.page
    \/ ui.per_page # t.per

\* The load task with its answer; 401 and 403 are the interceptor's.
Loaded(t) ==
    IF Stale(t) THEN ui
    ELSE IF t.ans.st = "ok"
         THEN [ui EXCEPT !.total_pages = (t.ans.total + t.per - 1) \div t.per,
                         !.list = [st |-> "loaded", items |-> t.ans.items,
                                   page |-> t.page, per |-> t.per, rev |-> t.ans.rev]]
         ELSE [ui EXCEPT !.list = [Loading EXCEPT !.st = "error"]]

\* The task of a submitted form, of a confirmed deletion.
Submitted(t) ==
    LET u == [ui EXCEPT !.submitting = FALSE]
        kind == IF t.op = "delete" THEN "confirm" ELSE t.op
    IN IF t.ans.st = "ok"
       THEN BumpList(IF u.modal_kind # kind THEN u
                     ELSE [u EXCEPT !.modal_kind = "none", !.form_error = FALSE,
                             !.editing_user = IF kind = "confirm" THEN @ ELSE Nothing,
                             !.deleting_user = IF kind = "confirm" THEN Nothing ELSE @])
       ELSE [u EXCEPT !.form_error = @ \/ kind # "confirm"]

\* The task of a balance adjustment: the balance goes to whoever is edited now.
Adjusted(t) ==
    LET u == [ui EXCEPT !.submitting = FALSE]
    IN IF t.ans.st # "ok" THEN [u EXCEPT !.form_error = TRUE]
       ELSE BumpList(IF u.editing_user = Nothing THEN u
                     ELSE [u EXCEPT !.editing_user.balance = t.ans.balance])

-----------------------------------------------------------------------------
(* Dashboard.                                                              *)

\* run_health_check with its answer.
HealthChecked(t) ==
    IF dash.version # t.ver THEN dash
    ELSE [dash EXCEPT !.health = IF t.ans.st = "ok" THEN "up" ELSE "down"]

\* run_user_count with its answer.
UserCounted(t) ==
    IF dash.version # t.ver THEN dash
    ELSE [dash EXCEPT !.total_users = IF t.ans.st = "ok" THEN t.ans.total ELSE Nothing]

\* The end of the spawned task, which found the signals as d.
CheckDone(d, t) == IF d.version # t.ver THEN d ELSE [d EXCEPT !.checking = FALSE]

-----------------------------------------------------------------------------
(* What a task does once it has its answer.                                *)

Unmounted == /\ tasks' = <<>>
             /\ ui' = UsersSignals
             /\ dash' = DashboardSignals

\* The task looks at its answer at all.
Heeded(t) == IF t.op = "check" THEN dash.version = t.ver
             ELSE t.op = "list" => ~Stale(t)

\* handle_unauth on 401: sign out, then leave for the login page.
SessionEnded(i) ==
    /\ tasks[i].st = "answered" /\ tasks[i].ans.st = "401" /\ Heeded(tasks[i])
    /\ tasks' = [tasks EXCEPT ![i].st = "leaving"]
    /\ ui' = IF tasks[i].op = "list" THEN ui ELSE [ui EXCEPT !.submitting = FALSE]
    /\ dash' = IF tasks[i].op = "check" THEN [dash EXCEPT !.total_users = Nothing] ELSE dash
    /\ UNCHANGED <<role, view, db, seen, left>>

SignedOut(i) ==
    /\ tasks[i].st = "leaving"
    /\ view' = "gone"
    /\ Unmounted
    /\ UNCHANGED <<role, db, seen, left>>

\* handle_unauth on 403: go to Dashboard, which unmounts Users.
Forbidden(i) ==
    /\ tasks[i].st = "answered" /\ tasks[i].ans.st = "403" /\ Heeded(tasks[i])
    /\ view = "users"
    /\ view' = "dashboard"
    /\ Unmounted
    /\ UNCHANGED <<role, db, seen, left>>

\* The answer is the view's own business.
Own(t) == /\ t.st = "answered"
          /\ (t.ans.st \in {"401", "403"} /\ Heeded(t)) =>
                (t.op = "check" /\ t.ans.st = "403")

Finish(i) ==
    LET t == tasks[i]
    IN /\ Own(t)
       /\ t.op # "check"
       /\ ui' = CASE t.op = "list" -> Loaded(t)
                  [] t.op = "adjust" -> Adjusted(t)
                  [] OTHER -> Submitted(t)
       /\ seen' = IF t.op # "list" /\ t.ans.st = "ok" /\ t.ans.rev > seen
                  THEN t.ans.rev ELSE seen
       /\ tasks' = RemoveAt(tasks, i)
       /\ UNCHANGED <<role, view, dash, db, left>>

\* The health check, then for an administrator the number of users.
Check(i) ==
    LET t == tasks[i]
    IN /\ Own(t)
       /\ t.op = "check"
       /\ IF t.count \/ ~is_admin
          THEN /\ dash' = CheckDone(IF t.count THEN UserCounted(t) ELSE HealthChecked(t), t)
               /\ tasks' = RemoveAt(tasks, i)
          ELSE /\ dash' = HealthChecked(t)
               /\ tasks' = [tasks EXCEPT ![i] = [Task("check") EXCEPT
                                                    !.count = TRUE, !.ver = t.ver]]
       /\ UNCHANGED <<role, view, ui, db, seen, left>>

-----------------------------------------------------------------------------
(* The user.                                                               *)

\* A click on something Users shows.
Click == /\ view = "users"
         /\ left.clicks > 0
         /\ left' = [left EXCEPT !.clicks = @ - 1]
         /\ UNCHANGED <<role, view, dash, db, seen>>

\* The page behind an open modal is covered.
OnPage == Click /\ ui.modal_kind = "none"

Spawn(t) == tasks' = Append(tasks, t)

open_create ==
    /\ OnPage
    /\ ui' = [ui EXCEPT !.form_error = FALSE, !.editing_user = Nothing, !.modal_kind = "create"]
    /\ UNCHANGED tasks

\* Rows of admin and system accounts have no buttons.
Editable(u) == ui.list.st = "loaded" /\ u \in ui.list.items /\ u.role = "user"

edit_handler ==
    /\ OnPage
    /\ \E u \in ui.list.items :
         /\ Editable(u)
         /\ ui' = [ui EXCEPT !.form_error = FALSE, !.editing_user = u, !.modal_kind = "edit"]
    /\ UNCHANGED tasks

delete_handler ==
    /\ OnPage
    /\ \E u \in ui.list.items :
         /\ Editable(u)
         /\ ui' = [ui EXCEPT !.form_error = FALSE, !.deleting_user = u,
                             !.modal_kind = "confirm"]
    /\ UNCHANGED tasks

\* The cross or the cancel button, which no request in flight disables.
close_all ==
    /\ Click
    /\ ui.modal_kind # "none"
    /\ ui' = [ui EXCEPT !.modal_kind = "none", !.editing_user = Nothing,
                        !.deleting_user = Nothing, !.submitting = FALSE,
                        !.form_error = FALSE]
    /\ UNCHANGED tasks

\* The submit button of both forms: a field is empty, or the request is sent.
\* Only a system account sends a role.
on_submit ==
    /\ Click
    /\ ui.modal_kind \in {"create", "edit"}
    /\ ~ui.submitting
    /\ \/ /\ ui' = [ui EXCEPT !.form_error = TRUE]
          /\ UNCHANGED tasks
       \/ /\ ui' = [ui EXCEPT !.submitting = TRUE, !.form_error = FALSE]
          /\ \E r \in IF role = "system" THEN {"user", "admin"} ELSE {"user"} :
               Spawn([Task(ui.modal_kind) EXCEPT !.role = r,
                        !.id = IF ui.editing_user = Nothing THEN 0 ELSE ui.editing_user.id])

on_confirm ==
    /\ Click
    /\ ui.modal_kind = "confirm"
    /\ ~ui.submitting
    /\ role = "admin" => ui.deleting_user.role = "user"
    /\ ui' = [ui EXCEPT !.submitting = TRUE]
    /\ Spawn([Task("delete") EXCEPT !.id = ui.deleting_user.id])

\* The balance buttons are there for the accounts below one's own.
CanAdjust(u) == \/ role = "system" /\ u.role # "system"
                \/ role = "admin" /\ u.role = "user"

\* The buttons that add and take: the amount is not one, or it is sent.
adjust_handler(multiplier) ==
    /\ Click
    /\ ui.modal_kind = "edit"
    /\ CanAdjust(ui.editing_user)
    /\ ~ui.submitting
    /\ \/ /\ ui' = [ui EXCEPT !.form_error = TRUE]
          /\ UNCHANGED tasks
       \/ /\ ui' = [ui EXCEPT !.submitting = TRUE, !.form_error = FALSE]
          /\ Spawn([Task("adjust") EXCEPT !.id = ui.editing_user.id,
                                             !.amount = multiplier])

on_prev ==
    /\ OnPage
    /\ ui.list.st = "loaded" /\ ui.page > 1
    /\ ui' = SetPage(ui, ui.page - 1)
    /\ UNCHANGED tasks

on_next ==
    /\ OnPage
    /\ ui.list.st = "loaded" /\ ui.page < ui.total_pages
    /\ ui' = SetPage(ui, ui.page + 1)
    /\ UNCHANGED tasks

set_per_page ==
    /\ OnPage
    /\ ui.list.st = "loaded"
    /\ \E n \in PerPages \ {ui.per_page} : ui' = SetPage([ui EXCEPT !.per_page = n], 1)
    /\ UNCHANGED tasks

\* Typing into the header's search box.
Search ==
    /\ OnPage
    /\ ui' = [ui EXCEPT !.search = TRUE]
    /\ UNCHANGED tasks

\* The Dashboard's button, disabled while a check runs.
on_run_health ==
    /\ view = "dashboard"
    /\ left.clicks > 0
    /\ ~dash.checking
    /\ left' = [left EXCEPT !.clicks = @ - 1]
    /\ dash' = [dash EXCEPT !.version = @ + 1, !.checking = TRUE]
    /\ Spawn([Task("check") EXCEPT !.ver = dash.version + 1])
    /\ UNCHANGED <<role, view, ui, db, seen>>

\* The sidebar leads an administrator to the other view.
Navigate ==
    /\ view # "gone" /\ is_admin
    /\ left.clicks > 0
    /\ left' = [left EXCEPT !.clicks = @ - 1]
    /\ view' = IF view = "users" THEN "dashboard" ELSE "users"
    /\ Unmounted
    /\ UNCHANGED <<role, db, seen>>

User == \/ open_create \/ edit_handler \/ delete_handler \/ close_all \/ on_submit
        \/ on_confirm \/ adjust_handler(1) \/ adjust_handler(-1)
        \/ on_prev \/ on_next \/ set_per_page \/ Search
        \/ on_run_health \/ Navigate

Browser == \/ SearchEffect \/ LoadEffect
          \/ \E i \in DOMAIN tasks :
               \/ StartLoad(i) \/ ServeTask(i) \/ Finish(i) \/ Check(i)
               \/ SessionEnded(i) \/ SignedOut(i) \/ Forbidden(i)

ViewsNext == \/ User \/ Browser \/ Elsewhere
        \/ \E i \in DOMAIN tasks : Lose(i) \/ Refuse(i)

ViewsSpec == ViewsInit /\ [][ViewsNext]_viewsVars

\* The browser runs what it has to run and answers arrive; the user, the
\* faults and the others owe nothing.
FairViewsSpec == ViewsSpec /\ WF_viewsVars(Browser)

-----------------------------------------------------------------------------
\* A list on the screen is the selected page and size, and is not older than
\* any write of this view that has been answered, however requests and answers
\* overtake each other: users.rs drops answers of another version or page.
ShownPageIsCurrent ==
    (/\ view = "users" /\ ui.list.st = "loaded" /\ ~ui.load
     /\ \A i \in DOMAIN tasks : tasks[i].st # "new")
    => /\ ui.list.page = ui.page
       /\ ui.list.per = ui.per_page
       /\ ui.list.rev >= seen

\* Nothing spins for ever: a list that is loading, a form that is submitting
\* and a health check that runs are always over at some later time, though
\* answers are dropped as stale and tasks as unmounted.
NothingSpinsForever ==
    []<>(/\ view = "users" => ui.list.st # "loading" /\ ~ui.submitting
         /\ ~dash.checking)
=============================================================================
