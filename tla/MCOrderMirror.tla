----------------------------- MODULE MCOrderMirror -----------------------------
(***************************************************************************)
(* Small instances of OrderMirror: what the operator may ask for.          *)
(***************************************************************************)
EXTENDS OrderMirror

CONSTANTS c1, c2, c3, s1, s2, w1, o1, o2, o3, low, high

New(k, n) == [kind |-> k, quantity |-> n]
Create(k, n) == [op |-> "create", orders |-> <<New(k, n)>>, ids |-> {}]
Batch(s) == [op |-> "batch", orders |-> s, ids |-> {}]
Delete(S) == [op |-> "delete", orders |-> <<>>, ids |-> S]

SomeOrders ==
  {Create(low, 1), Batch(<<New(low, 1), New(high, 1)>>), Delete({o1}), Delete({o2, o3})}

CounterOrders == {<<New(low, 1)>>}
===============================================================================
