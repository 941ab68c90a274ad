------------------------- MODULE MCPendingTransactions -------------------------
(***************************************************************************)
(* Small instances of PendingTransactions: two trades, the orders they may *)
(* ask for, and which of the failures the run allows.                      *)
(***************************************************************************)
EXTENDS PendingTransactions

CONSTANTS t1, t2, o1, o2, o3, o4, u1, u2

Order(type, price, quantity) ==
  [type |-> type, price |-> price, quantity |-> quantity, filled |-> 0, status |-> "open"]
Fills(o, n) == [orderId |-> o, amount |-> n]

(* The two sides of the book, at different prices.                         *)
BidAndAsk == [o \in {o1, o2} |-> IF o = o1 THEN Order("bid", 10, 3) ELSE Order("ask", 12, 3)]
TwoAsks == [o \in {o1, o2} |-> IF o = o1 THEN Order("ask", 10, 3) ELSE Order("ask", 10, 2)]

(* Both trades take of the first order, which they can fill.               *)
SharedOrders ==
  [t \in Trades |-> IF t = t1 THEN {<<Fills(o1, 2), Fills(o2, 1)>>} ELSE {<<Fills(o1, 1)>>}]

(* One trade sells, or buys; the other does the opposite.                  *)
OppositeTrades == [t \in Trades |-> IF t = t1 THEN {<<Fills(o1, 2)>>} ELSE {<<Fills(o2, 1)>>}]

OneStrategy == {[enabled |-> TRUE, spread |-> 10]}
AnyStrategy == OneStrategy \cup {NoStrategy}

NoSettings == {}
(* The spread goes up, as far as to bids at no price; the row of a strategy*)
(* that was removed is disabled.                                           *)
ChangeOfSpread == {[enabled |-> None, spread |-> 100]}
===============================================================================
