------------------------------ MODULE Bootstrap -----------------------------
(***************************************************************************)
(* Server instances that start, serve and stop against one database:       *)
(* bootstrap() runs the migrations statement by statement, registers a     *)
(* worker id (SnowflakeWorkers, whose actions these are with the phase of  *)
(* the start-up added), seeds the system account and then serves.          *)
(* Instances of two configurations may run side by side, as in a rolling   *)
(* deployment.                                                             *)
(***************************************************************************)
EXTENDS SnowflakeWorkers

CONSTANTS Statements,  \* number of statements in 001_init.sql
          Emails,      \* the addresses an account can have
          Configured,  \* those of the instances' system accounts
          FirstUsers   \* possible states of the users table, by address

ASSUME BootstrapAssumption ==
  /\ Statements \in Nat
  /\ Configured \subseteq Emails
  /\ FirstUsers \subseteq [Emails -> {"none", "user", "system"}]

VARIABLES
  schema,  \* statements whose object exists
  done,    \* done[i]: statements that i has executed
  phase,   \* phase[i]: where bootstrap() is
  email,   \* email[i]: system_admin_email of i's configuration
  users,   \* users[e]: "system", "user" (any other role) or "none", by address
  squatted \* history: instances whose address a visitor took after they
           \* had found it free and before they inserted the account

bootVars == <<schema, done, phase, email, users, squatted>>
allVars == <<vars, bootVars>>

BootInit ==
  /\ Init
  /\ schema = {}
  /\ done = [i \in Instances |-> 0]
  /\ phase = [i \in Instances |-> "down"]
  /\ email \in [Instances -> Configured]
  /\ users \in FirstUsers
  /\ squatted = {}

Enter(i, p) == phase' = [phase EXCEPT ![i] = p]

(* bootstrap() with a configuration that it accepts *)
bootstrap(i) ==
  /\ phase[i] = "down" /\ pc[i] = "off"
  /\ Enter(i, "migrate")
  /\ UNCHANGED <<vars, schema, done, email, users, squatted>>

(* One statement in a transaction of its own.  It finds its object, creates *)
(* it, or fails because another instance has just created it; all the same *)
(* the object exists.  Any other error ends the process: Die.              *)
run_migrations(i) ==
  /\ phase[i] = "migrate" /\ done[i] < Statements
  /\ schema' = schema \cup {done[i] + 1}
  /\ done' = [done EXCEPT ![i] = @ + 1]
  /\ UNCHANGED <<vars, phase, email, users, squatted>>

(* The clean-up of refresh tokens may fail without consequence *)
Migrated(i) ==
  /\ phase[i] = "migrate" /\ done[i] = Statements
  /\ Start(i)
  /\ Enter(i, "register")
  /\ UNCHANGED <<schema, done, email, users, squatted>>

Register(i) ==
  /\ phase[i] = "register"
  /\ register_worker(i)
  /\ UNCHANGED bootVars

(* Mutant: any account with the address is taken for the system account *)
FindAnyAccount(i) ==
  /\ phase[i] = "register" /\ pc[i] = "run"
  /\ Enter(i, IF users[email[i]] = "none" THEN "seed" ELSE "ready")
  /\ UNCHANGED <<vars, schema, done, email, users, squatted>>

(* seed_system_admin: look for the account *)
FindAdmin(i) ==
  /\ phase[i] = "register" /\ pc[i] = "run"
  /\ users[email[i]] \in {"none", "system"}
  /\ Enter(i, IF users[email[i]] = "none" THEN "seed" ELSE "ready")
  /\ UNCHANGED <<vars, schema, done, email, users, squatted>>

(* ... and insert it.  A unique violation counts as its being there. *)
seed_system_admin(i) ==
  /\ phase[i] = "seed"
  /\ users' = IF users[email[i]] = "none" THEN [users EXCEPT ![email[i]] = "system"]
              ELSE users
  /\ Enter(i, "ready")
  /\ UNCHANGED <<vars, schema, done, email, squatted>>

serve(i) ==
  /\ phase[i] = "ready"
  /\ Enter(i, "serving")
  /\ UNCHANGED <<vars, schema, done, email, users, squatted>>

(* Instances that have found the address free and not inserted it yet *)
Seeding(e) == {i \in Instances : phase[i] = "seed" /\ email[i] = e}

(* A visitor of a serving instance registers any free address, the one of  *)
(* a system account included                                               *)
Visit(i, e) ==
  /\ phase[i] = "serving"
  /\ users[e] = "none"
  /\ users' = [users EXCEPT ![e] = "user"]
  /\ squatted' = squatted \cup Seeding(e)
  /\ UNCHANGED <<vars, schema, done, phase, email>>

(* An admin gives a regular account another free address; the system       *)
(* account is refused.  Both this and the deletion below write by the id   *)
(* of the account they checked, which never becomes a system account.      *)
update_user(i, e, f) ==
  /\ phase[i] = "serving"
  /\ users[e] = "user" /\ users[f] = "none"
  /\ users' = [users EXCEPT ![e] = "none", ![f] = "user"]
  /\ squatted' = squatted \cup Seeding(f)
  /\ UNCHANGED <<vars, schema, done, phase, email>>

delete_user(i, e) ==
  /\ phase[i] = "serving"
  /\ users[e] = "user"
  /\ users' = [users EXCEPT ![e] = "none"]
  /\ UNCHANGED <<vars, schema, done, phase, email, squatted>>

Heartbeat(i) == heartbeat(i) /\ UNCHANGED bootVars

(* SIGTERM: the server drains and then drops the worker's handle *)
shutdown_signal(i) ==
  /\ phase[i] = "serving"
  /\ Stop(i)
  /\ Enter(i, "stopping")
  /\ UNCHANGED <<schema, done, email, users, squatted>>

Gone(i) ==
  /\ Enter(i, "down")
  /\ done' = [done EXCEPT ![i] = 0]
  /\ squatted' = squatted \ {i}
  /\ UNCHANGED <<schema, email, users>>

Deregister(i) == deregister_worker(i) /\ Gone(i)

(* The process dies, or bootstrap() returns an error: no id is available, a *)
(* regular user has the address, a statement or the binding fails.         *)
Die(i) ==
  /\ phase[i] # "down"
  /\ \/ Crash(i)
     \/ pc[i] = "off" /\ UNCHANGED vars
  /\ Gone(i)

BootNext ==
  \/ \E i \in Instances :
       \/ bootstrap(i) \/ run_migrations(i) \/ Migrated(i) \/ Register(i)
       \/ FindAdmin(i) \/ seed_system_admin(i) \/ serve(i)
       \/ Heartbeat(i) \/ shutdown_signal(i) \/ Deregister(i) \/ Die(i)
       \/ \E e \in Emails : Visit(i, e) \/ delete_user(i, e)
       \/ \E e, f \in Emails : update_user(i, e, f)
  \/ Tick /\ UNCHANGED bootVars

BootSpec == BootInit /\ [][BootNext]_allVars

-----------------------------------------------------------------------------
(* The address an instance was started with belongs to a system account    *)
(* for as long as it serves: two instances may both find none and insert   *)
(* it, either may die in between, and regular accounts are registered,     *)
(* renamed and deleted around it all the while.  Excepted is the instance  *)
(* whose address a visitor takes between its SELECT and its INSERT: it     *)
(* takes the unique violation for its own account's.                       *)
ServingHasSystemAccount ==
  \A i \in Instances :
    phase[i] = "serving" /\ i \notin squatted => users[email[i]] = "system"
=============================================================================
