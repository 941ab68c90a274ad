------------------------------- MODULE MCSession -------------------------------
(***************************************************************************)
(* Small instances of Session: what the operator may ask for.              *)
(***************************************************************************)
EXTENDS Session

CONSTANTS k1, k2, bad, p1, p2, c1, c2, c3, s1, s2

Unlocks(p) == [op |-> "unlock", password |-> p, key |-> None, old |-> None]
Updates(p, k) == [op |-> "update", password |-> p, key |-> k, old |-> None]
Sets(p, k, old) == [op |-> "password", password |-> p, key |-> k, old |-> old]

OperatorRequests ==
  {Unlocks(p1), Unlocks(p2), Updates(p1, k2), Updates(p1, Kept), Updates(p1, ""),
   Sets(p1, k1, None), Sets(p1, bad, None), Sets(p2, None, p1), Sets(p2, None, None)}

(* The password is set, and the operator gives it again.                   *)
UnlocksAgain == {Sets(p1, k1, None), Unlocks(p1), Updates(p1, Kept)}
===============================================================================
