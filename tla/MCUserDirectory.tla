--------------------------- MODULE MCUserDirectory ---------------------------
(* Two accounts, one of them perhaps still to be created, and three        *)
(* requests: a reader of profiles or counts, any writer, and a balance     *)
(* change or a second reader.                                              *)
EXTENDS UserDirectory

CONSTANTS u1, u2, p1, p2, p3

R(k, a, u, x) == [kind |-> k, actor |-> a, user |-> u, role |-> "user", amount |-> x]
WithRole(k, u, r) == [R(k, "system", u, 0) EXCEPT !.role = r]

Reads == {R("get", a, u1, 0) : a \in {"user", "admin"}} \cup {R("list", a, u1, 0) : a \in {"admin", "system"}}
Changes ==
  {R("set", "admin", u1, 2), R("set", "system", u1, -1), R("set", "user", u1, 1)}
  \cup {R("adjust", a, u1, x) : a \in {"admin", "system"}, x \in {-1, 1}}
Writes ==
  {R("rename", a, u1, 0) : a \in {"admin", "system"}} \cup {R("delete", "admin", u1, 0)}
  \cup {WithRole("role", u1, r) : r \in Roles} \cup {R("verify", "user", u1, 0)}
  \cup {WithRole("create", u2, "admin"), R("create", "admin", u2, 0),
         [R("create", "admin", u2, 0) EXCEPT !.role = "admin"]}

MCAsked == [p \in Requests |-> CASE p = p1 -> Reads
                                 [] p = p2 -> Changes \cup Writes
                                 [] p = p3 -> Changes \cup {R("get", "admin", u, 0) : u \in {u1, u2}}]
==============================================================================
