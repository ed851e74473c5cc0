---------------------------- MODULE MCWechatLogin ----------------------------
(* Two WeChat users, two accounts, two codes, two messages and two logins. *)
EXTENDS WechatLogin, TLC

CONSTANTS o1, o2, a, b, c1, c2, m1, m2, l1, l2

MCWxOpenid == (a :> o1) @@ (b :> o2)

Symmetric == Permutations(Codes) \cup Permutations(Messages) \cup Permutations(Logins)
==============================================================================
