------------------------------- MODULE Ledger -------------------------------
(***************************************************************************)
(* What set_balance and adjust_balance promise: every account's balance is *)
(* a register in 0..MaxBalance; a change by an actor who may make it takes *)
(* effect at one instant and answers with the balance it left; it is       *)
(* refused only for what holds at one instant.  A request may also fail,   *)
(* before or after its effect.                                             *)
(***************************************************************************)
EXTENDS Integers

CONSTANTS Users, Requests, MaxBalance, None

VARIABLES account,   \* account[u]: its role and balance, or None
          change,    \* change[p]: the user, actor, kind and amount asked for
          answer     \* answer[p]: refused, error or the new balance; or None

vars == <<account, change, answer>>

Roles == {"user", "admin", "system"}
NewAccount == [role : Roles, balance : {0}]

Init ==
  /\ account \in [Users -> NewAccount \cup {None}]
  /\ answer = [p \in Requests |-> None]

(* Who may change whose balance *)
MayChange(c) ==
  /\ account[c.user] # None
  /\ account[c.user].role \in CASE c.actor = "system" -> {"user", "admin"}
                                [] c.actor = "admin" -> {"user"}
                                [] c.actor = "user" -> {}

Result(c) ==
  IF c.kind = "set" THEN c.amount ELSE account[c.user].balance + c.amount

Granted(c) == MayChange(c) /\ Result(c) \in 0..MaxBalance

Error == [is |-> "error"]
Answer(p, a) == answer[p] = None /\ answer' = [answer EXCEPT ![p] = a]

Apply(p) ==
  LET c == change[p] IN
  /\ Granted(c)
  /\ account' = [account EXCEPT ![c.user].balance = Result(c)]
  /\ Answer(p, [is |-> "balance", value |-> Result(c)]) \/ Answer(p, Error)

Refuse(p) == ~Granted(change[p]) /\ Answer(p, [is |-> "refused"]) /\ UNCHANGED account

Fail(p) == Answer(p, Error) /\ UNCHANGED account

(* The rest of the user service creates and deletes accounts and changes   *)
(* roles; it never changes a balance                                       *)
Administer(u) ==
  /\ \E a \in {None} \cup IF account[u] = None THEN NewAccount
                          ELSE [role : Roles, balance : {account[u].balance}] :
       account' = [account EXCEPT ![u] = a]
  /\ UNCHANGED answer

Next ==
  /\ \/ \E p \in Requests : change[p] # None /\ (Apply(p) \/ Refuse(p) \/ Fail(p))
     \/ \E u \in Users : Administer(u)
  /\ UNCHANGED change

Spec == Init /\ [][Next]_vars
=============================================================================
