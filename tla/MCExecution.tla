----------------------------- MODULE MCExecution ------------------------------
(***************************************************************************)
(* Small instances of Execution.  Each scenario says what the messages of  *)
(* the exchange may contain; when they arrive, in what order and how their *)
(* handlers interleave is left open.                                       *)
(***************************************************************************)
EXTENDS Execution

CONSTANTS m1, m2, m3, m4, m5, m6, m7, t1, t2, o1, o2, o3, u1, u2, u3

Fill(o, n) == [orderId |-> o, amount |-> n]

Reserve(t, fills) ==
  [type |-> "reserve_request", tradeId |-> t, orders |-> fills, inputs |-> {}, pays |-> 0]
Cancel(t) ==
  [type |-> "reserve_cancel", tradeId |-> t, orders |-> <<>>, inputs |-> {}, pays |-> 0]
Sign(t, S, sats) ==
  [type |-> "sign_request", tradeId |-> t, orders |-> <<>>, inputs |-> S, pays |-> sats]

AllAsk == [o \in Orders |-> "ask"]
BidAsk == [o \in Orders |-> IF o = o1 THEN "bid" ELSE "ask"]
OneAsk == [o \in Orders |-> IF o = o2 THEN "ask" ELSE "bid"]
QuantityTwo == [o \in Orders |-> 2]
QuantityThree == [o \in Orders |-> 3]
PriceOne == [o \in Orders |-> 1]
ScaleOne == [o \in Orders |-> 1]
ScaleMixed == [o \in Orders |-> IF o = o1 THEN 2 ELSE 1]
PriceMixed == [o \in Orders |-> IF o = o1 THEN 2 ELSE 1]
ValueOne == [u \in Utxos |-> 1]
ValueMixed == [u \in Utxos |-> IF u = u1 THEN 2 ELSE 1]
EveryOutput == [k \in {"ask", "bid"} |-> Utxos]
NothingFilled == [o \in Orders |-> 0]

(* Outputs of the same value are alike.                                    *)
Alike == Permutations(Utxos)

Together(S, n) == [messages |-> S, atOnce |-> n]

AllTogether == {Together(Messages, Cardinality(Messages))}

(* Two trades compete for one order, or the first is cancelled or retried, *)
(* or the second asks for nothing; two messages come in any one run.       *)
Rivals ==
  m1 :> {Reserve(t1, <<Fill(o1, 2)>>)} @@
  m2 :> {Reserve(t2, <<Fill(o1, 1)>>)} @@
  m3 :> {Cancel(t1), Reserve(t1, <<Fill(o1, 1)>>), Reserve(t2, <<Fill(o1, 0)>>)}
InPairs == {Together({m1, m2}, 2), Together({m1, m3}, 2), Together({m2, m3}, 2)}

(* The exchange asks for a negative amount.                                *)
Negative ==
  m1 :> {Reserve(t1, <<Fill(o1, 2)>>)} @@
  m2 :> {Reserve(t2, <<Fill(o1, -1)>>)}

(* A trade reserves twice while another one reserves, or three times (m1   *)
(* to m3); or two trades share an order and are cancelled or have their    *)
(* PSBTs signed (m4 to m7).                                                *)
RetriesAndRivals ==
  m1 :> {Reserve(t1, <<Fill(o1, 1)>>)} @@
  m2 :> {Reserve(t1, <<Fill(o1, 1), Fill(o2, 1)>>)} @@
  m3 :> {Reserve(t2, <<Fill(o1, 1)>>), Reserve(t1, <<Fill(o2, 1)>>)} @@
  m4 :> {Reserve(t1, <<Fill(o1, 2)>>)} @@
  m5 :> {Reserve(t2, <<Fill(o1, 1), Fill(o3, 2)>>)} @@
  m6 :> {Cancel(t1)} \cup {Sign(t1, S, 2) : S \in SUBSET Utxos} @@
  m7 :> {Cancel(t2)} \cup {Sign(t2, S, k) : S \in SUBSET Utxos, k \in {0, 3}}
RetriesOrRivals == {Together({m1, m2, m3}, 3), Together({m4, m5, m6, m7}, 2)}
===============================================================================
