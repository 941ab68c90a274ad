---------------------- MODULE PendingTransactions_proofs -----------------------
(***************************************************************************)
(* What the job does, proved for any number of trades, outputs and orders, *)
(* with failing calls, restarts and the interleaving of the event handler: *)
(* the orders of a confirmed trade are rebalanced at most once and never   *)
(* at a loss, its row is final and its output spent, and what the orders   *)
(* count as filled is what the trades take.                                *)
(***************************************************************************)
EXTENDS PendingTransactions, Sums_proofs, SequenceTheorems

Working == pc \in {"outspend", "reset", "config", "book", "rebalance"}

(* What the job has collected comes from the rows it loaded and has passed;*)
(* it collects nothing between its runs.                                   *)
BatchInv ==
  /\ todo \subseteq DOMAIN rows
  /\ DOMAIN txUpdate \subseteq DOMAIN rows \ todo
  /\ txDelete \subseteq DOMAIN rows \ todo
  /\ DOMAIN txUpdate \cap txDelete = {}
  /\ Working => current \in DOMAIN rows \ (todo \cup DOMAIN txUpdate \cup txDelete)
  /\ pc \in {"config", "book", "rebalance"} => rows[current].status = "confirmed"
  /\ pc \in {"idle", "find"} => DOMAIN rows = {} /\ newOrders = {}

(* A prepared counter order belongs to a row that will be confirmed or     *)
(* deleted before the counter orders are saved.                            *)
PreparedInv ==
  \A n \in newOrders :
    /\ n.tradeId \in DOMAIN rows \ todo
    /\ \/ pc = "rebalance" /\ n.tradeId = current
       \/ n.tradeId \in txDelete
       \/ n.tradeId \in DOMAIN txUpdate /\ txUpdate[n.tradeId].status = "confirmed"
    /\ pc = "delete" => n.tradeId \in txDelete \/ ~Unsettled(n.tradeId)
    /\ pc = "new" => ~Unsettled(n.tradeId)

(* A trade whose counter orders exist is never loaded again.               *)
CreditedInv ==
  /\ DOMAIN tx \subseteq asked
  /\ DOMAIN rows \subseteq asked
  /\ \A c \in credited : c[1] \in asked /\ c[1] \notin DOMAIN rows /\ ~Unsettled(c[1])

(* A confirmed row is not among those the job works on or deletes.         *)
FinalInv ==
  \A t \in DOMAIN tx : tx[t].status = "confirmed" =>
    IF pc \in {"delete", "new"} THEN t \notin txDelete ELSE t \notin DOMAIN rows

(* Rows have a status and an output.                                       *)
ShapeInv ==
  /\ \A t \in DOMAIN tx : {"status", "utxo"} \subseteq DOMAIN tx[t]
  /\ \A t \in DOMAIN rows : {"status", "utxo"} \subseteq DOMAIN rows[t]
  /\ \A t \in DOMAIN txUpdate : {"status", "utxo"} \subseteq DOMAIN txUpdate[t]

JobInv == BatchInv /\ PreparedInv /\ CreditedInv /\ FinalInv /\ ShapeInv

-------------------------------------------------------------------------------
(* The saves come in the order of the code, and the last one ends the job. *)
LEMMA SaveOrder ==
  /\ SaveDone("orders") => pc' = "transactions" /\ UNCHANGED <<processing, work>>
  /\ SaveDone("transactions") => pc' = "delete" /\ UNCHANGED <<processing, work>>
  /\ SaveDone("delete") => pc' = "new" /\ UNCHANGED <<processing, work>>
  /\ SaveDone("new") => Returns
<1> DEFINE At(label) == CHOOSE k \in DOMAIN Saves : Saves[k] = label
<1>1. DOMAIN Saves = 1..4 /\ Len(Saves) = 4
  BY DEF Saves
<1>2. /\ Saves[1] = "orders" /\ Saves[2] = "transactions"
      /\ Saves[3] = "delete" /\ Saves[4] = "new"
  BY DEF Saves
<1>3. \A k \in 1..4 : k = 1 \/ k = 2 \/ k = 3 \/ k = 4
  OBVIOUS
<1>4. /\ At("orders") = 1 /\ At("transactions") = 2 /\ At("delete") = 3 /\ At("new") = 4
  BY <1>1, <1>2, <1>3
<1> QED
  BY <1>1, <1>2, <1>4 DEF SaveDone, Goto

LEMMA JobInvInit == Init => JobInv
  BY DEF Init, JobInv, BatchInv, PreparedInv, CreditedInv, FinalInv, ShapeInv,
         Working, NoRows, Unsettled

LEMMA JobInvNext == JobInv /\ [Next]_vars => JobInv'
<1> SUFFICES ASSUME JobInv, [Next]_vars PROVE JobInv'
  OBVIOUS
<1> USE DEF JobInv, BatchInv, PreparedInv, CreditedInv, FinalInv, ShapeInv,
            Working, Unsettled, database, handler, network, work, history,
            NoRows, Saved, Row, Without, Restrict, Goto
<1>1. ASSUME NEW t \in Trades, Reserve(t) PROVE JobInv'
  BY <1>1 DEF Reserve, Disturbs
<1>2. ASSUME NEW t \in Trades, Cancel(t) PROVE JobInv'
  BY <1>2 DEF Cancel, Disturbs
<1>3. ASSUME NEW u \in Utxos, Expire(u) PROVE JobInv'
  BY <1>3 DEF Expire
<1>4. ASSUME NEW t \in Trades, GrowOld(t) PROVE JobInv'
  BY <1>4 DEF GrowOld
<1>5. ASSUME NEW t \in Trades, Sign(t) PROVE JobInv'
  BY <1>5 DEF Sign
<1>6. ASSUME Broadcast \/ (\E u \in Utxos : SplitAsset(u)) PROVE JobInv'
  BY <1>6 DEF Broadcast, SplitAsset, Spend
<1>7. ASSUME NEW u \in Utxos, Mine(u) \/ Evict(u) PROVE JobInv'
  BY <1>7 DEF Mine, Evict
<1>8. ASSUME NEW o \in DOMAIN InitOrders, DeleteOrder(o) PROVE JobInv'
  BY <1>8 DEF DeleteOrder
<1>9. ASSUME NEW t \in Trades, DeleteTransaction(t) PROVE JobInv'
  BY <1>9 DEF DeleteTransaction
<1>10. ASSUME Start PROVE JobInv'
  BY <1>10 DEF Start
<1>11. ASSUME FindPendingAndConfirming PROVE JobInv'
  BY <1>11 DEF FindPendingAndConfirming
<1>12. ASSUME GetTipHeight PROVE JobInv'
  BY <1>12 DEF GetTipHeight
<1>13. ASSUME QueryFailure PROVE JobInv'
  BY <1>13 DEF QueryFailure, Returns, Fail
<1>14. ASSUME NEW t \in Trades, NextTransaction(t) PROVE JobInv'
  BY <1>14 DEF NextTransaction
<1>15. ASSUME GetOutspend PROVE JobInv'
  BY <1>15 DEF GetOutspend, Spent
<1>16. ASSUME TransactionFails PROVE JobInv'
  BY <1>16 DEF TransactionFails, Abandon, Fail
<1>17. ASSUME ResetOrder PROVE JobInv'
  BY <1>17 DEF ResetOrder
<1>18. ASSUME GetConfig \/ ReadBook PROVE JobInv'
  BY <1>18 DEF GetConfig, ReadBook
<1>19. ASSUME RebalanceOrder PROVE JobInv'
  BY <1>19 DEF RebalanceOrder, Mergeable
<1>20. ASSUME LoopEnds PROVE JobInv'
  BY <1>20 DEF LoopEnds, Saves
<1>21. ASSUME SaveOrders PROVE JobInv'
  BY <1>21, SaveOrder DEF SaveOrders
<1>22. ASSUME SaveTransactions PROVE JobInv'
  BY <1>22, SaveOrder DEF SaveTransactions
<1>23. ASSUME DeleteTransactions PROVE JobInv'
  BY <1>23, SaveOrder DEF DeleteTransactions
<1>24. ASSUME SaveNewOrders PROVE JobInv'
  BY <1>24, SaveOrder DEF SaveNewOrders, Returns
<1>25. ASSUME SaveFails PROVE JobInv'
  BY <1>25 DEF SaveFails, Returns, Fail
<1>26. ASSUME Restart PROVE JobInv'
  BY <1>26 DEF Restart, Returns
<1>27. ASSUME UNCHANGED vars PROVE JobInv'
  BY <1>27 DEF vars
<1>28. ASSUME SetStrategy \/ RemoveStrategy PROVE JobInv'
  BY <1>28 DEF SetStrategy, RemoveStrategy
<1> QED
  BY <1>1, <1>2, <1>3, <1>4, <1>5, <1>6, <1>7, <1>8, <1>9, <1>10, <1>11, <1>12, <1>13,
     <1>14, <1>15, <1>16, <1>17, <1>18, <1>19, <1>20, <1>21, <1>22, <1>23, <1>24, <1>25,
     <1>26, <1>27, <1>28 DEF Next, JobStep

LEMMA JobInvariant == Spec => []JobInv
<1>1. Init => JobInv
  BY JobInvInit
<1>2. JobInv /\ [Next]_vars => JobInv'
  BY JobInvNext
<1> QED
  BY <1>1, <1>2, PTL DEF Spec

-------------------------------------------------------------------------------
(* No order of a transaction is rebalanced twice, with any failures,       *)
(* restarts, deletions by the operator and interleaving of requests        *)
(* (pending-transactions.service.ts:226-245).                              *)
THEOREM NothingIsRebalancedTwice == Spec => RebalancedOnce
<1>1. JobInv /\ [Next]_vars =>
        [(DOMAIN orders' \ DOMAIN orders) \cap Spares # {} =>
           \A n \in newOrders : <<n.tradeId, n.entry>> \notin credited]_vars
  <2> SUFFICES ASSUME JobInv, NEW n \in newOrders
               PROVE  <<n.tradeId, n.entry>> \notin credited
    OBVIOUS
  <2>1. n.tradeId \in DOMAIN rows
    BY DEF JobInv, PreparedInv
  <2>2. \A c \in credited : c[1] \notin DOMAIN rows
    BY DEF JobInv, CreditedInv
  <2>3. <<n.tradeId, n.entry>>[1] = n.tradeId
    OBVIOUS
  <2> QED
    BY <2>1, <2>2, <2>3
<1> QED
  BY <1>1, JobInvariant, PTL DEF Spec, RebalancedOnce

(* The row of a confirmed trade is not changed and not deleted, unless the *)
(* operator deletes it (pending-transactions.service.ts:37, 226-240).      *)
THEOREM ConfirmedStays ==
  ASSUME Deletable \cap Trades = {}
  PROVE  Spec => ConfirmedIsFinal
<1>1. JobInv /\ [Next]_vars =>
        [\A t \in DOMAIN tx : tx[t].status = "confirmed" =>
           t \in DOMAIN tx' /\ tx'[t] = tx[t]]_vars
  <2> SUFFICES ASSUME JobInv, Next, NEW t \in DOMAIN tx, tx[t].status = "confirmed"
               PROVE  t \in DOMAIN tx' /\ tx'[t] = tx[t]
    OBVIOUS
  <2>1. ASSUME NEW s \in Trades, Reserve(s)
        PROVE  t \in DOMAIN tx' /\ tx'[t] = tx[t]
    BY <2>1 DEF Reserve, Saved, Row, JobInv, CreditedInv
  <2>2. ASSUME NEW s \in Trades, Cancel(s)
        PROVE  t \in DOMAIN tx' /\ tx'[t] = tx[t]
    BY <2>2 DEF Cancel
  <2>3. CASE SaveTransactions
    BY <2>3 DEF SaveTransactions, Saved, JobInv, FinalInv, BatchInv
  <2>4. CASE DeleteTransactions
    BY <2>4 DEF DeleteTransactions, Without, Restrict, JobInv, FinalInv
  <2>5. ASSUME NEW s \in Trades, DeleteTransaction(s)
        PROVE  FALSE
    BY <2>5 DEF DeleteTransaction
  <2>6. ASSUME NEW s \in Trades, GrowOld(s) \/ Sign(s) \/ NextTransaction(s)
        PROVE  tx' = tx
    BY <2>6 DEF GrowOld, Sign, NextTransaction, database
  <2>7. ASSUME NEW u \in Utxos, Expire(u) \/ SplitAsset(u) \/ Mine(u) \/ Evict(u)
        PROVE  tx' = tx
    BY <2>7 DEF Expire, SplitAsset, Spend, Mine, Evict, database
  <2>8. ASSUME NEW o \in DOMAIN InitOrders, DeleteOrder(o)
        PROVE  tx' = tx
    BY <2>8 DEF DeleteOrder
  <2>9. ASSUME \/ Broadcast \/ Start \/ QueryFailure \/ Restart \/ FindPendingAndConfirming
               \/ GetTipHeight \/ GetOutspend \/ TransactionFails \/ ResetOrder
               \/ GetConfig \/ ReadBook \/ RebalanceOrder \/ LoopEnds \/ SaveOrders
               \/ SaveNewOrders \/ SaveFails \/ SetStrategy \/ RemoveStrategy
        PROVE  tx' = tx
    BY <2>9 DEF Broadcast, Spend, Start, QueryFailure, Restart, FindPendingAndConfirming,
                GetTipHeight, GetOutspend, TransactionFails, ResetOrder, GetConfig,
                ReadBook, RebalanceOrder, LoopEnds, SaveOrders, SaveNewOrders, SaveFails,
                SetStrategy, RemoveStrategy, database
  <2> QED
    BY <2>1, <2>2, <2>3, <2>4, <2>5, <2>6, <2>7, <2>8, <2>9 DEF Next, JobStep
<1> QED
  BY <1>1, JobInvariant, PTL DEF Spec, ConfirmedIsFinal

-------------------------------------------------------------------------------
(* What is mined stays mined, and what the job takes for confirmed, in its *)
(* copies of the rows as in the table, is mined.                           *)
Mined(u) == u \in Utxos /\ chain[u] = "confirmed"
RowsMined(table) ==
  \A t \in DOMAIN table : table[t].status = "confirmed" => Mined(table[t].utxo)

MinedInv ==
  /\ DOMAIN chain = Utxos
  /\ \A u \in tip : Mined(u)
  /\ RowsMined(tx) /\ RowsMined(rows) /\ RowsMined(txUpdate)

LEMMA MinedInvNext == JobInv /\ MinedInv /\ [Next]_vars => MinedInv'
<1> SUFFICES ASSUME JobInv, MinedInv, [Next]_vars PROVE MinedInv'
  OBVIOUS
<1> USE DEF MinedInv, RowsMined, Mined, JobInv, ShapeInv, database, handler, network, work,
            history, NoRows, Saved, Row, Without, Restrict, Goto
<1>1. ASSUME NEW t \in Trades, Reserve(t) PROVE MinedInv'
  BY <1>1 DEF Reserve
<1>2. ASSUME NEW t \in Trades, Cancel(t) PROVE MinedInv'
  BY <1>2 DEF Cancel
<1>3. ASSUME NEW t \in Trades, GrowOld(t) \/ Sign(t) \/ NextTransaction(t) PROVE MinedInv'
  BY <1>3 DEF GrowOld, Sign, NextTransaction
<1>4. ASSUME NEW u, Spend(u) \/ Mine(u) \/ Evict(u) PROVE MinedInv'
  BY <1>4 DEF Spend, Mine, Evict
<1>5. ASSUME NEW t \in Trades, DeleteTransaction(t) PROVE MinedInv'
  BY <1>5 DEF DeleteTransaction
<1>6. ASSUME FindPendingAndConfirming PROVE MinedInv'
  BY <1>6 DEF FindPendingAndConfirming, Unsettled
<1>7. ASSUME GetTipHeight PROVE MinedInv'
  BY <1>7 DEF GetTipHeight
<1>8. ASSUME GetOutspend PROVE MinedInv'
  BY <1>8 DEF GetOutspend, Spent, HasConfirmation, BatchInv, Working
<1>9. ASSUME TransactionFails \/ ResetOrder \/ ReadBook \/ LoopEnds \/ Start
      PROVE  MinedInv'
  BY <1>9 DEF TransactionFails, Abandon, ResetOrder, ReadBook, LoopEnds, Start
<1>10. ASSUME GetConfig \/ RebalanceOrder PROVE MinedInv'
  <2>1. UNCHANGED <<tx, chain, tip, rows>>
    BY <1>10 DEF GetConfig, RebalanceOrder
  <2>2. \/ txUpdate' = txUpdate
        \/ txUpdate' = Saved(txUpdate, Row(current, rows[current]))
    BY <1>10 DEF GetConfig, RebalanceOrder
  <2>3. current \in DOMAIN rows
    BY <1>10 DEF GetConfig, RebalanceOrder, BatchInv, Working
  <2> QED
    BY <2>1, <2>2, <2>3
<1>11. ASSUME \/ SetStrategy \/ RemoveStrategy \/ (\E u \in Utxos : Expire(u))
              \/ (\E o \in DOMAIN InitOrders : DeleteOrder(o)) \/ UNCHANGED vars
       PROVE  MinedInv'
  BY <1>11 DEF SetStrategy, RemoveStrategy, Expire, DeleteOrder, vars
<1>12. ASSUME QueryFailure \/ SaveFails \/ Restart PROVE MinedInv'
  BY <1>12 DEF QueryFailure, SaveFails, Restart, Returns
<1>13. ASSUME SaveOrders \/ SaveTransactions \/ DeleteTransactions PROVE MinedInv'
  BY <1>13, SaveOrder DEF SaveOrders, SaveTransactions, DeleteTransactions
<1>14. ASSUME SaveNewOrders PROVE MinedInv'
  BY <1>14, SaveOrder DEF SaveNewOrders, Returns
<1>15. ASSUME JobStep PROVE MinedInv'
  BY <1>15, <1>3, <1>6, <1>8, <1>9, <1>12, <1>13, <1>14, <1>7, <1>10, Zenon DEF JobStep
<1>16. ASSUME \E u : Spend(u) \/ Mine(u) \/ Evict(u) PROVE MinedInv'
  BY <1>16, <1>4, Zenon
<1>17. Broadcast \/ (\E u \in Utxos : SplitAsset(u)) => \E u : Spend(u)
  BY DEF Broadcast, SplitAsset
<1> QED
  BY <1>1, <1>2, <1>3, <1>5, <1>9, <1>12, <1>11, <1>15, <1>16, <1>17, Zenon DEF Next

(* A trade is confirmed only when the spend of its output is mined, with   *)
(* any failures and restarts, and whatever is reserved, split or dropped   *)
(* while the job runs (pending-transactions.service.ts:43, 59, 100-107).   *)
THEOREM ConfirmedTradesAreMined == Spec => []ConfirmedIsMined
<1>1. Init => MinedInv
  BY DEF Init, MinedInv, RowsMined, NoRows
<1>2. MinedInv => ConfirmedIsMined
  BY DEF MinedInv, RowsMined, Mined, ConfirmedIsMined
<1> QED
  BY <1>1, <1>2, MinedInvNext, JobInvariant, PTL DEF Spec

-------------------------------------------------------------------------------
(* What the variables hold.  Beyond their types: no order has the status   *)
(* the book is asked for, so the book is empty; a spread is known while    *)
(* counter orders are prepared; and each of those is one of a loaded row's,*)
(* at a price that does not lose.                                          *)
Places == {"idle", "find", "tip", "next", "outspend", "reset", "config", "book", "rebalance",
           "orders", "transactions", "delete", "new"}

WorldTyped ==
  /\ DOMAIN held \subseteq Utxos /\ (\A u \in DOMAIN held : held[u] \in Trades)
  /\ asked \subseteq Trades /\ old \subseteq Trades
  /\ signed \subseteq Utxos /\ dropped \subseteq Utxos
  /\ chain \in [Utxos -> {"unspent", "mempool", "confirmed"}]
  /\ strategy \in Strategy \cup {NoStrategy}
  /\ failures \in 0..MaxFailures /\ disturbed \in BOOLEAN

OrdersTyped == IsOrderTable(orders) /\ IsOrderTable(toUpdate) /\ DOMAIN book = {}

RowsTyped == IsTable(tx) /\ IsTable(rows) /\ IsTable(txUpdate)

PlaceTyped ==
  /\ processing \in BOOLEAN /\ pc \in Places /\ tip \subseteq Utxos
  /\ Working => entry \in DOMAIN rows[current].fills
  /\ spread \in 0..100 \cup {None}
  /\ pc \in {"book", "rebalance"} => spread \in 0..100

Prepared(n) ==
  /\ n.tradeId \in DOMAIN rows /\ n.entry \in DOMAIN rows[n.tradeId].fills
  /\ n.type \in {"ask", "bid"} /\ n.price \in Nat /\ n.amount \in Nat
  /\ LET paid == rows[n.tradeId].fills[n.entry].price
     IN IF n.type = "ask" THEN n.price >= paid ELSE n.price =< paid

CountersInv == IsFiniteSet(newOrders) /\ (\A n \in newOrders : Prepared(n))

TypesInv == WorldTyped /\ OrdersTyped /\ RowsTyped /\ PlaceTyped /\ CountersInv

(* An amount is a natural number.                                          *)
LEMMA AmountNatural ==
  ASSUME NEW S, NEW fills \in Seq(S), \A f \in S : f.amount \in Nat, NEW o
  PROVE  AmountOf(fills, o) \in Nat
<1> DEFINE s == [i \in DOMAIN fills |-> IF fills[i].orderId = o THEN fills[i].amount ELSE 0]
           n == Len(fills)
<1>1. n \in Nat /\ DOMAIN fills = 1..n /\ (\A i \in 1..n : fills[i] \in S)
  OBVIOUS
<1>2. s = [i \in 1..n |-> s[i]] /\ (\A i \in 1..n : s[i] \in Nat)
  BY <1>1
<1>3. AmountOf(fills, o) = SumFunction(s)
  BY DEF AmountOf
<1> HIDE DEF s, n
<1> QED
  BY <1>1, <1>2, <1>3, SumSequence

(* Where the job is after a save.                                          *)
LEMMA SaveTypes ==
  ASSUME NEW label \in {"orders", "transactions", "delete", "new"}, SaveDone(label)
  PROVE  \/ UNCHANGED <<processing, work>> /\ pc' \in {"transactions", "delete", "new"}
         \/ Returns
<1> QED
  BY SaveOrder

(* The chain, the failures and the strategy keep their types.              *)
LEMMA WorldNext ==
  ASSUME WorldTyped, RowsTyped, JobInv, [Next]_vars
  PROVE  WorldTyped'
<1> USE DEF WorldTyped, RowsTyped, IsTable, database, handler, network, work, history,
            NoRows, Saved, Row, Without, Restrict, Goto
<1>1. ASSUME NEW t \in Trades, Reserve(t) PROVE WorldTyped'
  BY <1>1 DEF Reserve, Disturbs
<1>2. ASSUME NEW t \in Trades, Cancel(t) PROVE WorldTyped'
  BY <1>2 DEF Cancel, Disturbs
<1>3. ASSUME NEW t \in Trades, GrowOld(t) \/ NextTransaction(t) PROVE WorldTyped'
  BY <1>3 DEF GrowOld, NextTransaction
<1>4. ASSUME NEW t \in Trades, Sign(t) PROVE WorldTyped'
  BY <1>4 DEF Sign, IsTransaction
<1>5. ASSUME NEW t \in Trades, DeleteTransaction(t) PROVE WorldTyped'
  BY <1>5 DEF DeleteTransaction
<1>6. ASSUME NEW u \in Utxos, Expire(u) PROVE WorldTyped'
  BY <1>6 DEF Expire
<1>7. ASSUME NEW u \in Utxos, Spend(u) \/ Mine(u) \/ Evict(u) PROVE WorldTyped'
  BY <1>7 DEF Spend, Mine, Evict
<1>8. ASSUME NEW o \in DOMAIN InitOrders, DeleteOrder(o) PROVE WorldTyped'
  BY <1>8 DEF DeleteOrder
<1>9. ASSUME SetStrategy PROVE WorldTyped'
  <2>1. UNCHANGED <<orders, tx, handler, network, processing, pc, work, history>>
    BY <1>9 DEF SetStrategy
  <2>2. strategy' \in Strategy
    <3>1. PICK s \in Settings :
            LET row == IF strategy = NoStrategy THEN [enabled |-> FALSE, spread |-> 1]
                       ELSE strategy
            IN strategy' = [enabled |-> Given(s.enabled, row.enabled),
                            spread  |-> Given(s.spread, row.spread)]
      BY <1>9 DEF SetStrategy
    <3> DEFINE row == IF strategy = NoStrategy THEN [enabled |-> FALSE, spread |-> 1]
                      ELSE strategy
    <3>2. row \in Strategy
      BY DEF Strategy
    <3>3. s \in Setting
      BY PendingAssumption
    <3>4. Given(s.enabled, row.enabled) \in BOOLEAN /\ Given(s.spread, row.spread) \in 0..100
      BY <3>2, <3>3 DEF Strategy, Setting, Given
    <3> QED
      BY <3>1, <3>4 DEF Strategy
  <2> QED
    BY <2>1, <2>2
<1>10. ASSUME RemoveStrategy \/ UNCHANGED vars PROVE WorldTyped'
  BY <1>10 DEF RemoveStrategy, vars
<1>11. ASSUME Fail PROVE failures' \in 0..MaxFailures
  <2>1. MaxFailures \in Nat
    BY PendingAssumption, Zenon
  <2> QED
    BY <1>11, <2>1 DEF Fail
<1>12. ASSUME QueryFailure \/ SaveFails \/ TransactionFails PROVE WorldTyped'
  BY <1>12, <1>11 DEF QueryFailure, SaveFails, TransactionFails
<1>13. ASSUME \/ Start \/ Restart \/ FindPendingAndConfirming \/ GetTipHeight \/ GetOutspend
              \/ ResetOrder \/ GetConfig \/ ReadBook \/ RebalanceOrder \/ LoopEnds
              \/ SaveOrders \/ SaveTransactions \/ DeleteTransactions \/ SaveNewOrders
       PROVE  WorldTyped'
  <2>1. UNCHANGED <<strategy, asked, network, failures, disturbed>> /\ held' \in {held, NoRows}
    BY <1>13 DEF Start, Restart, FindPendingAndConfirming, GetTipHeight, GetOutspend,
        ResetOrder, GetConfig, ReadBook, RebalanceOrder, LoopEnds, SaveOrders,
        SaveTransactions, DeleteTransactions, SaveNewOrders
  <2> QED
    BY <2>1
<1>14. Broadcast \/ (\E u \in Utxos : SplitAsset(u)) => \E u \in Utxos : Spend(u)
  BY DEF Broadcast, SplitAsset
<1>15. ASSUME JobStep PROVE WorldTyped'
  BY <1>15, <1>3, <1>12, <1>13, Zenon DEF JobStep
<1> QED
  BY <1>1, <1>2, <1>3, <1>4, <1>5, <1>6, <1>7, <1>8, <1>9, <1>10, <1>12, <1>13, <1>14, <1>15,
     Zenon DEF Next

(* What the order table and the copies to be saved hold.                   *)
LEMMA OrdersNext ==
  ASSUME WorldTyped, OrdersTyped, RowsTyped, PlaceTyped, CountersInv, JobInv, [Next]_vars
  PROVE  OrdersTyped'
<1> USE DEF OrdersTyped, IsOrderTable, database, handler, network, work, history,
            NoRows, Saved, Row, Without, Restrict, Goto
<1>1. ASSUME NEW t \in Trades, Reserve(t) PROVE OrdersTyped'
  <2>1. PICK s \in Offers[t] :
          orders' = [o \in DOMAIN orders |->
                       [orders[o] EXCEPT !.filled = @ + AmountOf(s, o)]]
    BY <1>1 DEF Reserve
  <2>2. s \in Seq([orderId : DOMAIN InitOrders, amount : Nat \ {0}])
    BY PendingAssumption, Zenon
  <2>3. \A o : AmountOf(s, o) \in Nat
    <3> DEFINE S == [orderId : DOMAIN InitOrders, amount : Nat \ {0}]
    <3>1. s \in Seq(S) /\ (\A f \in S : f.amount \in Nat)
      BY <2>2
    <3> HIDE DEF S
    <3> QED
      BY <3>1, AmountNatural
  <2>4. UNCHANGED <<toUpdate, book>>
    BY <1>1 DEF Reserve
  <2> QED
    <3>1. ASSUME NEW row \in OrderRow, NEW n \in Nat
          PROVE  [row EXCEPT !.filled = @ + n] \in OrderRow
      BY <3>1 DEF OrderRow
    <3> QED
      BY <2>1, <2>3, <2>4, <3>1
<1>0. ASSUME NEW row \in OrderRow, NEW amount \in Nat
      PROVE  GivenBack(row, amount) \in OrderRow
  BY <1>0 DEF GivenBack, OrderRow
<1>2. ASSUME NEW t \in Trades, Cancel(t) PROVE OrdersTyped'
  <2>1. UNCHANGED <<toUpdate, book>>
    BY <1>2 DEF Cancel
  <2>2. CASE UNCHANGED orders
    BY <2>1, <2>2
  <2>3. CASE /\ t \in DOMAIN tx
             /\ orders' = [o \in DOMAIN orders |->
                             GivenBack(orders[o], AmountOf(tx[t].fills, o))]
    <3>1. tx[t].fills \in Seq(Fill)
      BY <2>3 DEF RowsTyped, IsTable, IsTransaction
    <3>2. \A o : AmountOf(tx[t].fills, o) \in Nat
      <4>1. \A f \in Fill : f.amount \in Nat
        BY DEF Fill
      <4> QED
        BY <3>1, <4>1, AmountNatural
    <3> QED
      BY <2>1, <2>3, <3>2, <1>0
  <2> QED
    BY <1>2, <2>2, <2>3 DEF Cancel
<1>3. ASSUME NEW t \in Trades, \/ GrowOld(t) \/ NextTransaction(t) \/ Sign(t)
                               \/ DeleteTransaction(t)
      PROVE OrdersTyped'
  BY <1>3 DEF GrowOld, NextTransaction, Sign, DeleteTransaction
<1>4. ASSUME NEW u \in Utxos, Expire(u) \/ Spend(u) \/ Mine(u) \/ Evict(u) PROVE OrdersTyped'
  BY <1>4 DEF Expire, Spend, Mine, Evict
<1>5. ASSUME NEW o \in DOMAIN InitOrders, DeleteOrder(o) PROVE OrdersTyped'
  BY <1>5 DEF DeleteOrder
<1>6. ASSUME SetStrategy \/ RemoveStrategy \/ UNCHANGED vars PROVE OrdersTyped'
  BY <1>6 DEF SetStrategy, RemoveStrategy, vars
<1>7. ASSUME QueryFailure \/ SaveFails \/ Restart PROVE OrdersTyped'
  BY <1>7 DEF QueryFailure, SaveFails, Restart, Returns
<1>8. ASSUME \/ Start \/ FindPendingAndConfirming \/ GetTipHeight \/ GetOutspend
             \/ TransactionFails \/ GetConfig \/ LoopEnds
      PROVE  OrdersTyped'
  BY <1>8 DEF Start, FindPendingAndConfirming, GetTipHeight, GetOutspend, TransactionFails,
     GetConfig, LoopEnds
<1>9. ASSUME ReadBook PROVE OrdersTyped'
  <2>1. UNCHANGED <<orders, toUpdate>>
    BY <1>9 DEF ReadBook
  <2>2. \A o \in DOMAIN orders : orders[o].status # "OPEN"
    BY DEF OrderRow
  <2> QED
    BY <1>9, <2>1, <2>2 DEF ReadBook
<1>10. ASSUME ResetOrder PROVE OrdersTyped'
  <2> DEFINE fill == rows[current].fills[entry]
             o == fill.orderId
  <2>1. /\ o \in DOMAIN orders \cup DOMAIN toUpdate
        /\ toUpdate' = Saved(toUpdate, Row(o, GivenBack(Loaded(o), fill.amount)))
        /\ UNCHANGED <<orders, book>>
    BY <1>10 DEF ResetOrder
  <2>2. rows[current].fills \in Seq(Fill) /\ entry \in DOMAIN rows[current].fills
    BY <1>10 DEF ResetOrder, RowsTyped, IsTable, IsTransaction, PlaceTyped, Working, JobInv,
       BatchInv
  <2>3. fill \in Fill
    BY <2>2
  <2>4. Loaded(o) \in OrderRow
    BY <2>1 DEF Loaded
  <2>5. GivenBack(Loaded(o), fill.amount) \in OrderRow
    BY <2>3, <2>4, <1>0 DEF Fill
  <2>6. o \in DOMAIN InitOrders
    BY <2>3 DEF Fill
  <2> QED
    BY <2>1, <2>5, <2>6
<1>11. ASSUME RebalanceOrder PROVE OrdersTyped'
  <2> DEFINE fill == rows[current].fills[entry]
             o == fill.orderId
             closed == IF IsFull(o) THEN Row(o, [Loaded(o) EXCEPT !.status = "closed"])
                       ELSE NoRows
  <2>1. PICK new :
          LET merged == [k \in Mergeable(new) |-> [book[k] EXCEPT !.quantity = @ + new.amount]]
          IN toUpdate' = Saved(Saved(toUpdate, closed), merged)
    BY <1>11 DEF RebalanceOrder
  <2>2. Mergeable(new) = {}
    BY DEF Mergeable
  <2>3. o \in DOMAIN orders /\ UNCHANGED <<orders, book>>
    BY <1>11 DEF RebalanceOrder
  <2>4. toUpdate' = Saved(Saved(toUpdate, closed), NoRows)
    BY <2>1, <2>2
  <2>5. Loaded(o) \in OrderRow
    BY <2>3 DEF Loaded
  <2>6. [Loaded(o) EXCEPT !.status = "closed"] \in OrderRow
    BY <2>5 DEF OrderRow
  <2> QED
    BY <2>3, <2>4, <2>6
<1>12. ASSUME SaveOrders \/ SaveTransactions \/ DeleteTransactions PROVE OrdersTyped'
  BY <1>12, SaveOrder DEF SaveOrders, SaveTransactions, DeleteTransactions
<1>13. ASSUME SaveNewOrders PROVE OrdersTyped'
  <2>1. Returns
    BY <1>13, SaveOrder DEF SaveNewOrders
  <2>0. PICK ids \in kSubset(Cardinality(Kinds), Spares \ DOMAIN orders) :
          \E kindOf \in Bijection(ids, Kinds) :
            orders' = Saved(orders, [o \in ids |->
                     [type |-> kindOf[o].type, price |-> kindOf[o].price,
                      quantity |-> QuantityOf(kindOf[o]), filled |-> 0, status |-> "open"]])
    BY <1>13 DEF SaveNewOrders
  <2>2. PICK kindOf \in Bijection(ids, Kinds) :
         orders' = Saved(orders, [o \in ids |->
                     [type |-> kindOf[o].type, price |-> kindOf[o].price,
                      quantity |-> QuantityOf(kindOf[o]), filled |-> 0, status |-> "open"]])
    BY <2>0
  <2>3. ids \subseteq Spares
    BY DEF kSubset
  <2>4. \A o \in ids : kindOf[o] \in Kinds
    BY DEF Bijection, Injection
  <2>5. ASSUME NEW kind \in Kinds
        PROVE  kind.type \in {"ask", "bid"} /\ kind.price \in Nat /\ QuantityOf(kind) \in Nat
    <3> DEFINE S == {n \in newOrders : n.type = kind.type /\ n.price = kind.price}
               F == [n \in newOrders |-> n.amount]
    <3>1. kind.type \in {"ask", "bid"} /\ kind.price \in Nat
      BY DEF Kinds, CountersInv, Prepared
    <3>2. IsFiniteSet(S)
      BY FS_Subset DEF CountersInv
    <3>3. \A n \in S : F[n] \in Nat
      BY DEF CountersInv, Prepared
    <3>4. QuantityOf(kind) = SumFunctionOnSet(F, S)
      BY DEF QuantityOf
    <3> HIDE DEF S, F
    <3>5. QuantityOf(kind) \in Nat
      BY <3>2, <3>3, <3>4, SumNatural
    <3> QED
      BY <3>1, <3>5
  <2> QED
    BY <2>1, <2>2, <2>3, <2>4, <2>5 DEF Returns, OrderRow
<1>14. Broadcast \/ (\E u \in Utxos : SplitAsset(u)) => \E u \in Utxos : Spend(u)
  BY DEF Broadcast, SplitAsset, WorldTyped
<1>15. ASSUME JobStep PROVE OrdersTyped'
  BY <1>15, <1>3, <1>7, <1>8, <1>9, <1>10, <1>11, <1>12, <1>13, Zenon DEF JobStep
<1> QED
  BY <1>1, <1>2, <1>3, <1>4, <1>5, <1>6, <1>7, <1>8, <1>14, <1>15, Zenon DEF Next

(* A row that changes only in its status is still a row.                   *)
LEMMA StatusTyped ==
  ASSUME NEW row, IsTransaction(row), NEW status \in Statuses
  PROVE  IsTransaction([row EXCEPT !.status = status])
<1> QED
  BY DEF IsTransaction

(* The row that is written when a reservation is made.                     *)
LEMMA ReservedTyped ==
  ASSUME OrdersTyped, RowsTyped, NEW t \in Trades, Reserve(t)
  PROVE  RowsTyped'
<1>1. PICK s \in Offers[t] : \E u \in Utxos :
        /\ \A i \in DOMAIN s : s[i].orderId \in DOMAIN orders
        /\ tx' = Saved(tx, Row(t,
            [status |-> "pending",
             type   |-> IF orders[s[1].orderId].type = "bid" THEN "buy" ELSE "sell",
             fills  |-> [i \in DOMAIN s |-> [orderId |-> s[i].orderId, amount |-> s[i].amount,
                                             price |-> orders[s[i].orderId].price]],
             utxo   |-> u]))
  BY DEF Reserve
<1>2. PICK u \in Utxos :
        /\ \A i \in DOMAIN s : s[i].orderId \in DOMAIN orders
        /\ tx' = Saved(tx, Row(t,
            [status |-> "pending",
             type   |-> IF orders[s[1].orderId].type = "bid" THEN "buy" ELSE "sell",
             fills  |-> [i \in DOMAIN s |-> [orderId |-> s[i].orderId, amount |-> s[i].amount,
                                             price |-> orders[s[i].orderId].price]],
             utxo   |-> u]))
  BY <1>1
<1> DEFINE fills == [i \in DOMAIN s |-> [orderId |-> s[i].orderId, amount |-> s[i].amount,
                                         price |-> orders[s[i].orderId].price]]
           type == IF orders[s[1].orderId].type = "bid" THEN "buy" ELSE "sell"
           row == [status |-> "pending", type |-> type, fills |-> fills, utxo |-> u]
<1>3. s \in Seq([orderId : DOMAIN InitOrders, amount : Nat \ {0}]) /\ s # <<>>
  BY PendingAssumption, Zenon
<1>4. \A i \in DOMAIN s : s[i] \in [orderId : DOMAIN InitOrders, amount : Nat \ {0}]
  <2> DEFINE S == [orderId : DOMAIN InitOrders, amount : Nat \ {0}]
  <2>1. s \in Seq(S)
    BY <1>3
  <2> HIDE DEF S
  <2>2. \A i \in DOMAIN s : s[i] \in S
    BY <2>1
  <2> QED
    BY <2>2 DEF S
<1>5. \A i \in DOMAIN s : fills[i] \in Fill
  <2> SUFFICES ASSUME NEW i \in DOMAIN s PROVE fills[i] \in Fill
    OBVIOUS
  <2>1. orders[s[i].orderId] \in OrderRow
    BY <1>2 DEF OrdersTyped, IsOrderTable
  <2>2. orders[s[i].orderId].price \in Nat
    BY <2>1 DEF OrderRow
  <2> QED
    BY <2>2, <1>4 DEF Fill
<1>6. DOMAIN s = 1..Len(s) /\ Len(s) \in Nat
  BY <1>3
<1>7. fills \in Seq(Fill)
  <2>1. fills \in [1..Len(s) -> Fill]
    BY <1>5, <1>6
  <2> QED
    BY <2>1, <1>6, SeqDef, Zenon
<1>8. fills # <<>>
  <2>1. Len(s) # 0
    BY <1>3
  <2>2. DOMAIN fills = 1..Len(s)
    BY <1>6
  <2>3. 1 \in DOMAIN fills
    BY <2>1, <2>2, <1>6
  <2> QED
    BY <2>3
<1> HIDE DEF fills
<1>9. IsTransaction(row)
  <2>1. DOMAIN row = {"status", "type", "fills", "utxo"}
    OBVIOUS
  <2>2. /\ row.status = "pending" /\ row.type = type /\ row.utxo = u /\ row.fills = fills
    OBVIOUS
  <2>3. type \in {"buy", "sell"}
    OBVIOUS
  <2> HIDE DEF row, type
  <2> QED
    BY <2>1, <2>2, <2>3, <1>7, <1>8 DEF IsTransaction, Statuses
<1>10. tx' = Saved(tx, Row(t, row)) /\ UNCHANGED <<rows, txUpdate>>
  BY <1>2 DEF fills, Reserve, work
<1> HIDE DEF row
<1> QED
  BY <1>9, <1>10 DEF RowsTyped, IsTable, Saved, Row

(* What the transaction table and the copies of its rows hold.             *)
LEMMA RowsNext ==
  ASSUME OrdersTyped, RowsTyped, JobInv, [Next]_vars
  PROVE  RowsTyped'
<1> USE DEF RowsTyped, IsTable, database, handler, network, work, history,
            NoRows, Saved, Row, Without, Restrict, Goto
<1>1. ASSUME NEW t \in Trades, Reserve(t) PROVE RowsTyped'
  BY <1>1, ReservedTyped
<1>2. ASSUME NEW t \in Trades, Cancel(t) PROVE RowsTyped'
  BY <1>2, StatusTyped DEF Cancel, Statuses
<1>3. ASSUME NEW t \in Trades, GrowOld(t) \/ NextTransaction(t) \/ Sign(t) PROVE RowsTyped'
  BY <1>3 DEF GrowOld, NextTransaction, Sign
<1>4. ASSUME NEW t \in Trades, DeleteTransaction(t) PROVE RowsTyped'
  BY <1>4 DEF DeleteTransaction
<1>5. ASSUME NEW u \in Utxos, Expire(u) \/ Spend(u) \/ Mine(u) \/ Evict(u) PROVE RowsTyped'
  BY <1>5 DEF Expire, Spend, Mine, Evict
<1>6. ASSUME \/ SetStrategy \/ RemoveStrategy \/ UNCHANGED vars
             \/ \E o \in DOMAIN InitOrders : DeleteOrder(o)
      PROVE  RowsTyped'
  BY <1>6 DEF SetStrategy, RemoveStrategy, vars, DeleteOrder
<1>7. ASSUME QueryFailure \/ SaveFails \/ Restart PROVE RowsTyped'
  BY <1>7 DEF QueryFailure, SaveFails, Restart, Returns
<1>8. ASSUME \/ Start \/ GetTipHeight \/ ResetOrder \/ TransactionFails \/ ReadBook \/ LoopEnds
      PROVE  RowsTyped'
  BY <1>8 DEF Start, GetTipHeight, ResetOrder, TransactionFails, Abandon, ReadBook, LoopEnds
<1>9. ASSUME FindPendingAndConfirming PROVE RowsTyped'
  BY <1>9 DEF FindPendingAndConfirming, Unsettled
<1>10. ASSUME GetOutspend PROVE RowsTyped'
  <2>1. current \in DOMAIN rows /\ IsTransaction(rows[current])
    BY <1>10 DEF GetOutspend, JobInv, BatchInv, Working
  <2>2. PICK status \in {"confirmed", "confirming"} :
          /\ \/ UNCHANGED rows
             \/ rows' = [rows EXCEPT ![current] = Spent(status)]
          /\ \/ UNCHANGED txUpdate
             \/ txUpdate' = Saved(txUpdate, Row(current, rows'[current]))
    BY <1>10 DEF GetOutspend
  <2>3. IsTransaction(Spent(status))
    BY <2>1, StatusTyped DEF Spent, Statuses
  <2>4. IsTable(rows') /\ IsTransaction(rows'[current])
    BY <2>1, <2>2, <2>3
  <2>5. IsTable(txUpdate')
    BY <2>1, <2>2, <2>4
  <2>6. tx' = tx
    BY <1>10 DEF GetOutspend
  <2> QED
    BY <2>4, <2>5, <2>6
<1>11. ASSUME GetConfig \/ RebalanceOrder PROVE RowsTyped'
  <2>1. current \in DOMAIN rows /\ IsTransaction(rows[current])
    BY <1>11 DEF GetConfig, RebalanceOrder, JobInv, BatchInv, Working
  <2>2. /\ UNCHANGED <<tx, rows>>
        /\ \/ UNCHANGED txUpdate
           \/ txUpdate' = Saved(txUpdate, Row(current, rows[current]))
    BY <1>11 DEF GetConfig, RebalanceOrder
  <2> QED
    BY <2>1, <2>2
<1>12. ASSUME SaveOrders \/ SaveTransactions \/ DeleteTransactions PROVE RowsTyped'
  BY <1>12, SaveOrder DEF SaveOrders, SaveTransactions, DeleteTransactions
<1>13. ASSUME SaveNewOrders PROVE RowsTyped'
  BY <1>13, SaveOrder DEF SaveNewOrders, Returns
<1>14. ASSUME Broadcast \/ (\E u \in Utxos : SplitAsset(u)) PROVE RowsTyped'
  BY <1>14 DEF Broadcast, SplitAsset, Spend
<1>15. ASSUME JobStep PROVE RowsTyped'
  BY <1>15, <1>3, <1>7, <1>8, <1>9, <1>10, <1>11, <1>12, <1>13, Zenon DEF JobStep
<1> QED
  BY <1>1, <1>2, <1>3, <1>4, <1>5, <1>6, <1>7, <1>8, <1>14, <1>15, Zenon DEF Next

(* Where the job is, and at which order of the transaction.                *)
LEMMA PlaceNext ==
  ASSUME WorldTyped, RowsTyped, PlaceTyped, JobInv, [Next]_vars
  PROVE  PlaceTyped'
<1> USE DEF PlaceTyped, Places, Working, database, handler, network, work, history,
            NoRows, Goto
<1>1. ASSUME NEW t \in Trades, \/ Reserve(t) \/ Cancel(t) \/ GrowOld(t) \/ Sign(t)
                               \/ DeleteTransaction(t)
      PROVE PlaceTyped'
  BY <1>1 DEF Reserve, Cancel, GrowOld, Sign, DeleteTransaction
<1>2. ASSUME NEW u \in Utxos, \/ Expire(u) \/ Spend(u) \/ Mine(u) \/ Evict(u)
      PROVE PlaceTyped'
  BY <1>2 DEF Expire, Spend, Mine, Evict
<1>3. ASSUME \/ SetStrategy \/ RemoveStrategy \/ UNCHANGED vars
             \/ \E o \in DOMAIN InitOrders : DeleteOrder(o)
      PROVE  PlaceTyped'
  BY <1>3 DEF SetStrategy, RemoveStrategy, vars, DeleteOrder
<1>4. ASSUME NEW t \in Trades, NextTransaction(t) PROVE PlaceTyped'
  <2>1. t \in DOMAIN rows
    BY <1>4 DEF NextTransaction, JobInv, BatchInv
  <2>2. rows[t].fills \in Seq(Fill) /\ rows[t].fills # <<>>
    BY <2>1 DEF RowsTyped, IsTable, IsTransaction
  <2>3. 1 \in DOMAIN rows[t].fills
    BY <2>2
  <2> QED
    BY <1>4, <2>3 DEF NextTransaction
<1>5. ASSUME Start \/ FindPendingAndConfirming \/ TransactionFails \/ ReadBook
      PROVE  PlaceTyped'
  BY <1>5 DEF Start, FindPendingAndConfirming, TransactionFails, Abandon, ReadBook
<1>6. ASSUME GetTipHeight PROVE PlaceTyped'
  BY <1>6 DEF GetTipHeight
<1>7. ASSUME GetOutspend PROVE PlaceTyped'
  <2>1. rows'[current].fills = rows[current].fills
    <3>1. current \in DOMAIN rows /\ DOMAIN rows[current] = {"status", "type", "fills", "utxo"}
      BY <1>7 DEF GetOutspend, JobInv, BatchInv, RowsTyped, IsTable, IsTransaction
    <3>2. \A status : Spent(status).fills = rows[current].fills
      BY <3>1 DEF Spent
    <3> QED
      BY <1>7, <3>1, <3>2 DEF GetOutspend
  <2>2. pc' \in {"reset", "config", "next"} /\ pc = "outspend"
    BY <1>7 DEF GetOutspend
  <2>3. UNCHANGED <<processing, tip, current, entry, spread>>
    BY <1>7 DEF GetOutspend
  <2> QED
    BY <2>1, <2>2, <2>3
<1>8. ASSUME entry < Len(rows[current].fills), Working PROVE entry + 1 \in DOMAIN rows[current].fills
  <2>1. rows[current].fills \in Seq(Fill)
    BY <1>8 DEF JobInv, BatchInv, RowsTyped, IsTable, IsTransaction
  <2> QED
    BY <1>8, <2>1
<1>9. ASSUME ResetOrder \/ RebalanceOrder PROVE PlaceTyped'
  <2>1. /\ pc \in {"reset", "rebalance"}
        /\ \/ pc' = pc /\ entry < Len(rows[current].fills) /\ entry' = entry + 1 /\ spread' = spread
           \/ pc' = "next" /\ spread' \in {spread, None}
        /\ UNCHANGED <<processing, tip, current, rows>>
    BY <1>9 DEF ResetOrder, RebalanceOrder
  <2> QED
    BY <1>8, <2>1
<1>10. ASSUME GetConfig PROVE PlaceTyped'
  <2>1. strategy.enabled => strategy.spread \in 0..100
    BY DEF WorldTyped, Strategy, NoStrategy
  <2>2. /\ pc = "config" /\ UNCHANGED <<processing, tip, current, rows, entry>>
        /\ \/ strategy.enabled /\ spread' = strategy.spread /\ pc' = "book"
           \/ pc' = "next" /\ spread' = spread
    BY <1>10 DEF GetConfig
  <2> QED
    BY <2>1, <2>2
<1>11. ASSUME LoopEnds PROVE PlaceTyped'
  BY <1>11 DEF LoopEnds, Saves
<1>12. ASSUME QueryFailure \/ SaveFails \/ Restart PROVE PlaceTyped'
  BY <1>12 DEF QueryFailure, SaveFails, Restart, Returns
<1>13. ASSUME SaveOrders \/ SaveTransactions \/ DeleteTransactions PROVE PlaceTyped'
  BY <1>13, SaveOrder DEF SaveOrders, SaveTransactions, DeleteTransactions
<1>14. ASSUME SaveNewOrders PROVE PlaceTyped'
  <2>1. processing' = FALSE
    BY <1>14 DEF SaveNewOrders, SaveDone, Saves
  <2> QED
    BY <1>14, <2>1, SaveOrder DEF SaveNewOrders, Returns
<1>15. ASSUME JobStep PROVE PlaceTyped'
  BY <1>15, <1>4, <1>5, <1>6, <1>7, <1>9, <1>10, <1>11, <1>12, <1>13, <1>14, Zenon DEF JobStep
<1>16. Broadcast \/ (\E u \in Utxos : SplitAsset(u)) => \E u \in Utxos : Spend(u)
  BY DEF Broadcast, SplitAsset, WorldTyped
<1> QED
  BY <1>1, <1>2, <1>3, <1>5, <1>12, <1>15, <1>16, Zenon DEF Next

-------------------------------------------------------------------------------
(* Rounding up to a whole price.                                           *)
LEMMA CeilBounds ==
  ASSUME NEW h \in Nat, NEW p \in Nat
  PROVE  /\ Ceil(h) \in Nat
         /\ h >= 100 * p => Ceil(h) >= p
         /\ h =< 100 * p => Ceil(h) =< p
<1> QED
  BY DEF Ceil

(* With a book that is empty, the price of a counter order does not lose.  *)
LEMMA CounterPriceDoesNotLose ==
  ASSUME DOMAIN book = {}, spread \in 0..100, NEW type \in {"ask", "bid"}, NEW price \in Nat
  PROVE  /\ CounterPrice(type, price) \in Nat
         /\ IF type = "ask" THEN CounterPrice(type, price) >= price
                            ELSE CounterPrice(type, price) =< price
<1>1. \A k : PricesOf(k) = {}
  BY DEF PricesOf
<1>2. CounterPrice(type, price) =
        IF type = "ask" THEN Ceil(price * (100 + spread)) ELSE Ceil(price * (100 - spread))
  BY <1>1 DEF CounterPrice
<1>3. price * (100 + spread) \in Nat /\ price * (100 + spread) >= 100 * price
  <2>1. price * spread \in Nat /\ price * (100 + spread) = 100 * price + price * spread
    OBVIOUS
  <2> QED
    BY <2>1
<1>4. price * (100 - spread) \in Nat /\ price * (100 - spread) =< 100 * price
  <2>1. 100 - spread \in Nat
    OBVIOUS
  <2>2. price * (100 - spread) \in Nat
    BY <2>1
  <2>3. price * spread \in Nat /\ price * (100 - spread) = 100 * price - price * spread
    OBVIOUS
  <2> QED
    BY <2>2, <2>3
<1> QED
  BY <1>2, <1>3, <1>4, CeilBounds

(* Every counter order that is prepared has the price of its fill.         *)
LEMMA CountersNext ==
  ASSUME OrdersTyped, RowsTyped, PlaceTyped, CountersInv, JobInv, [Next]_vars
  PROVE  CountersInv'
<1> USE DEF CountersInv, Prepared, database, handler, network, work, history, NoRows, Goto
<1>1. ASSUME UNCHANGED <<rows, newOrders>> PROVE CountersInv'
  BY <1>1
<1>2. ASSUME newOrders' = {} PROVE CountersInv'
  BY <1>2, FS_EmptySet
<1>3. ASSUME FindPendingAndConfirming PROVE newOrders' = {}
  BY <1>3 DEF FindPendingAndConfirming, JobInv, BatchInv
<1>4. ASSUME QueryFailure \/ SaveFails \/ Restart \/ SaveNewOrders PROVE newOrders' = {}
  BY <1>4, SaveOrder DEF QueryFailure, SaveFails, Restart, SaveNewOrders, Returns
<1>5. ASSUME GetOutspend PROVE CountersInv'
  <2>1. current \in DOMAIN rows /\ IsTransaction(rows[current])
    BY <1>5 DEF GetOutspend, JobInv, BatchInv, Working, RowsTyped, IsTable
  <2>2. \/ UNCHANGED rows
        \/ \E status : rows' = [rows EXCEPT ![current] = Spent(status)]
    BY <1>5 DEF GetOutspend
  <2>3. \A status : Spent(status).fills = rows[current].fills
    BY <2>1 DEF Spent, IsTransaction
  <2>4. DOMAIN rows' = DOMAIN rows /\ (\A t \in DOMAIN rows : rows'[t].fills = rows[t].fills)
    BY <2>1, <2>2, <2>3
  <2>5. newOrders' = newOrders
    BY <1>5 DEF GetOutspend
  <2> QED
    BY <2>4, <2>5
<1>6. ASSUME RebalanceOrder PROVE CountersInv'
  <2> DEFINE fill == rows[current].fills[entry]
             type == CounterType(rows[current].type)
             new == [tradeId |-> current, entry |-> entry, type |-> type,
                     price |-> CounterPrice(type, fill.price), amount |-> fill.amount]
  <2>1. current \in DOMAIN rows /\ IsTransaction(rows[current]) /\ entry \in DOMAIN rows[current].fills
    BY <1>6 DEF RebalanceOrder, JobInv, BatchInv, Working, RowsTyped, IsTable, PlaceTyped
  <2>2. fill \in Fill
    BY <2>1 DEF IsTransaction
  <2>3. fill.price \in Nat /\ fill.amount \in Nat
    BY <2>2 DEF Fill
  <2>4. type \in {"ask", "bid"}
    BY DEF CounterType
  <2>5. DOMAIN book = {} /\ spread \in 0..100
    BY <1>6 DEF OrdersTyped, PlaceTyped, RebalanceOrder
  <2>6. /\ CounterPrice(type, fill.price) \in Nat
        /\ IF type = "ask" THEN CounterPrice(type, fill.price) >= fill.price
                           ELSE CounterPrice(type, fill.price) =< fill.price
    BY <2>3, <2>4, <2>5, CounterPriceDoesNotLose
  <2>7. newOrders' \in {newOrders, newOrders \cup {new}} /\ rows' = rows
    BY <1>6 DEF RebalanceOrder
  <2>8. Prepared(new)
    BY <2>1, <2>3, <2>4, <2>6
  <2> HIDE DEF new
  <2>9. IsFiniteSet(newOrders')
    BY <2>7, FS_AddElement
  <2> QED
    BY <2>7, <2>8, <2>9
<1>7. ASSUME NEW t \in Trades, \/ Reserve(t) \/ Cancel(t) \/ GrowOld(t) \/ Sign(t)
                               \/ DeleteTransaction(t) \/ NextTransaction(t)
      PROVE UNCHANGED <<rows, newOrders>>
  BY <1>7 DEF Reserve, Cancel, GrowOld, Sign, DeleteTransaction, NextTransaction
<1>8. ASSUME NEW u \in Utxos, \/ Expire(u) \/ SplitAsset(u) \/ Mine(u) \/ Evict(u)
      PROVE UNCHANGED <<rows, newOrders>>
  BY <1>8 DEF Expire, SplitAsset, Spend, Mine, Evict
<1>9. ASSUME \/ SetStrategy \/ RemoveStrategy \/ UNCHANGED vars \/ Broadcast
             \/ \E o \in DOMAIN InitOrders : DeleteOrder(o)
      PROVE UNCHANGED <<rows, newOrders>>
  BY <1>9 DEF SetStrategy, RemoveStrategy, vars, DeleteOrder, Broadcast, Spend
<1>10. ASSUME \/ Start \/ GetTipHeight \/ TransactionFails \/ ResetOrder \/ GetConfig \/ ReadBook
              \/ LoopEnds \/ SaveOrders \/ SaveTransactions \/ DeleteTransactions
       PROVE UNCHANGED <<rows, newOrders>>
  BY <1>10, SaveOrder DEF Start, GetTipHeight, TransactionFails, Abandon, ResetOrder, GetConfig,
     ReadBook, LoopEnds, SaveOrders, SaveTransactions, DeleteTransactions
<1>11. ASSUME JobStep PROVE CountersInv'
  BY <1>11, <1>1, <1>2, <1>3, <1>4, <1>5, <1>6, <1>7, <1>10, Zenon DEF JobStep
<1> QED
  BY <1>1, <1>2, <1>4, <1>7, <1>8, <1>9, <1>10, <1>11, Zenon DEF Next

LEMMA TypesInvInit == Init => TypesInv
<1> SUFFICES ASSUME Init PROVE TypesInv
  OBVIOUS
<1>1. WorldTyped
  <2>1. MaxFailures \in Nat /\ Strategies \subseteq Strategy \cup {NoStrategy}
    BY PendingAssumption, Zenon
  <2>2. failures \in 0..MaxFailures /\ strategy \in Strategy \cup {NoStrategy}
    BY <2>1 DEF Init
  <2> QED
    BY <2>2 DEF Init, WorldTyped, NoRows
<1>2. OrdersTyped
  <2>1. \A o \in DOMAIN InitOrders : InitOrders[o] \in OrderRow
    BY PendingAssumption, Zenon
  <2> QED
    BY <2>1 DEF Init, OrdersTyped, IsOrderTable, NoRows
<1>3. RowsTyped /\ PlaceTyped /\ CountersInv
  BY FS_EmptySet DEF Init, RowsTyped, PlaceTyped, CountersInv, IsTable, NoRows, Places, Working
<1> QED
  BY <1>1, <1>2, <1>3 DEF TypesInv

LEMMA TypesInvariant == Spec => [](JobInv /\ TypesInv)
<1>1. TypesInv /\ JobInv /\ [Next]_vars => TypesInv'
  BY WorldNext, OrdersNext, RowsNext, PlaceNext, CountersNext DEF TypesInv
<1> QED
  BY <1>1, TypesInvInit, JobInvariant, PTL DEF Spec

(* Every variable of the job holds what the code can put there, and while  *)
(* the job is at a transaction, that transaction is one it loaded          *)
(* (pending-transactions.service.ts:14, 37-58).                            *)
THEOREM JobTypeCorrect == Spec => []TypeOK
<1>1. JobInv /\ TypesInv => TypeOK
  <2> SUFFICES ASSUME JobInv, TypesInv PROVE TypeOK
    OBVIOUS
  <2>1. Range(Saves) = {"orders", "transactions", "delete", "new"}
    <3>1. Saves = <<"orders", "transactions", "delete", "new">> /\ DOMAIN Saves = 1..4
      BY DEF Saves
    <3> QED
      BY <3>1 DEF Range
  <2>2. IsOrderTable(orders) /\ IsOrderTable(toUpdate) /\ IsOrderTable(book)
    BY DEF TypesInv, OrdersTyped, IsOrderTable
  <2>3. IsTable(tx) /\ IsTable(rows) /\ IsTable(txUpdate)
    BY DEF TypesInv, RowsTyped
  <2>4. txDelete \subseteq Trades
    BY <2>3 DEF JobInv, BatchInv, IsTable
  <2>5. pc \in {"idle", "find", "tip", "next", "outspend", "reset", "config", "book",
             "rebalance"} \cup Range(Saves)
    BY <2>1 DEF TypesInv, PlaceTyped, Places
  <2>6. todo \subseteq DOMAIN rows
    BY DEF JobInv, BatchInv
  <2>7. pc \in {"outspend", "reset", "config", "book", "rebalance"} =>
          current \in DOMAIN rows /\ entry \in DOMAIN rows[current].fills
    BY DEF JobInv, BatchInv, Working, TypesInv, PlaceTyped
  <2> QED
    BY <2>2, <2>3, <2>4, <2>5, <2>6, <2>7 DEF TypeOK, TypesInv, WorldTyped, PlaceTyped
<1> QED
  BY <1>1, TypesInvariant, PTL

(* A counter order never loses: what was bought is offered at no less, what*)
(* was sold is bid for at no more, whatever the spread, the prices and the *)
(* rounding (pending-transactions.service.ts:135-157, 173).                *)
THEOREM CounterOrdersDoNotLose == Spec => []NoLoss
<1>1. TypesInv => NoLoss
  BY DEF TypesInv, CountersInv, Prepared, NoLoss
<1> QED
  BY <1>1, TypesInvariant, PTL

-------------------------------------------------------------------------------
(* The accounts of the orders.  While nothing fails, stops or disturbs the *)
(* job, the filled quantity of an order is what its transactions take,     *)
(* less what has been saved as given back while the transactions that give *)
(* it back are still in the table; and what the job has collected for an   *)
(* order is what the transactions to be deleted, with the orders of the    *)
(* current one that are reset, give back.                                  *)
Clean == failures = 0 /\ ~disturbed

Live == {t \in DOMAIN tx : tx[t].status # "errored"}
Amounts(o) == [t \in DOMAIN tx |-> AmountOf(tx[t].fills, o)]
Deleted(o) == SumFunctionOnSet(Amounts(o), txDelete)

EntryAmounts(fills, o) ==
  [i \in DOMAIN fills |-> IF fills[i].orderId = o THEN fills[i].amount ELSE 0]
Partly(o) ==
  IF pc = "reset" THEN SumFunctionOnSet(EntryAmounts(rows[current].fills, o), 1..(entry - 1))
                  ELSE 0

CopiesInv ==
  /\ pc = "idle" => DOMAIN toUpdate = {} /\ txDelete = {}
  /\ pc = "outspend" => entry = 1
  /\ pc \notin {"idle", "find", "new"} =>
       \A t \in DOMAIN rows : /\ t \in Live /\ rows[t].fills = tx[t].fills
                              /\ rows[t].status # "errored"
  /\ \A t \in DOMAIN txUpdate : /\ t \in DOMAIN rows /\ txUpdate[t].fills = rows[t].fills
                                /\ txUpdate[t].status # "errored"

OrderAccounted(o) ==
  IF pc \in {"transactions", "delete"}
  THEN orders[o].filled + Deleted(o) = InitOrders[o].filled + Taken(o)
  ELSE orders[o].filled = InitOrders[o].filled + Taken(o)

CopyAccounted(o) ==
  IF o \in DOMAIN toUpdate
  THEN /\ toUpdate[o].filled + Deleted(o) + Partly(o) = orders[o].filled
       /\ toUpdate[o].status = "closed" =>
            orders[o].status = "closed" \/ orders[o].filled = orders[o].quantity
  ELSE Deleted(o) + Partly(o) = 0

Accounted ==
  \A o \in DOMAIN InitOrders :
    /\ OrderAccounted(o)
    /\ pc \notin {"transactions", "delete", "new"} => CopyAccounted(o)

AccountsInv ==
  Clean => /\ DOMAIN InitOrders \subseteq DOMAIN orders
           /\ IsFiniteSet(DOMAIN tx)
           /\ CopiesInv
           /\ Accounted

(* An amount is the sum of those of the entries.                           *)
LEMMA AmountOfEntries ==
  ASSUME NEW S, NEW fills \in Seq(S), \A f \in S : f.amount \in Nat, NEW o
  PROVE  /\ Len(fills) \in Nat /\ DOMAIN fills = 1..Len(fills)
         /\ \A i \in DOMAIN fills : EntryAmounts(fills, o)[i] \in Nat
         /\ AmountOf(fills, o) = SumFunctionOnSet(EntryAmounts(fills, o), 1..Len(fills))
<1> DEFINE s == EntryAmounts(fills, o)
           n == Len(fills)
<1>1. n \in Nat /\ DOMAIN fills = 1..n /\ (\A i \in 1..n : fills[i] \in S)
  OBVIOUS
<1>2. s = [i \in 1..n |-> s[i]] /\ (\A i \in 1..n : s[i] \in Nat)
  BY <1>1 DEF EntryAmounts
<1>3. AmountOf(fills, o) = SumFunction(s)
  BY DEF AmountOf, EntryAmounts
<1> HIDE DEF s, n
<1>4. SumFunction(s) = SumFunctionOnSet(s, 1..n)
  BY <1>1, <1>2, SumSequence
<1> QED
  BY <1>1, <1>2, <1>3, <1>4 DEF s, n

(* The entries of a loaded transaction, counted one after another.         *)
LEMMA EntriesAddUp ==
  ASSUME TypesInv, NEW t \in DOMAIN rows, NEW o, NEW k \in DOMAIN rows[t].fills
  PROVE  LET E == EntryAmounts(rows[t].fills, o)
             n == Len(rows[t].fills)
         IN /\ n \in Nat /\ k \in 1..n /\ E[k] \in Nat
            /\ SumFunctionOnSet(E, 1..(k - 1)) \in Nat
            /\ SumFunctionOnSet(E, 1..k) = SumFunctionOnSet(E, 1..(k - 1)) + E[k]
            /\ SumFunctionOnSet(E, 1..k) =< AmountOf(rows[t].fills, o)
            /\ k = n => SumFunctionOnSet(E, 1..k) = AmountOf(rows[t].fills, o)
<1> DEFINE E == EntryAmounts(rows[t].fills, o)
           n == Len(rows[t].fills)
<1>1. rows[t].fills \in Seq(Fill) /\ (\A f \in Fill : f.amount \in Nat)
  BY DEF TypesInv, RowsTyped, IsTable, IsTransaction, Fill
<1>2. /\ n \in Nat /\ DOMAIN rows[t].fills = 1..n
      /\ \A i \in 1..n : E[i] \in Nat
      /\ AmountOf(rows[t].fills, o) = SumFunctionOnSet(E, 1..n)
  BY <1>1, AmountOfEntries
<1>3. k \in 1..n /\ k \in Int /\ k - 1 \in Int
  BY <1>2
<1> HIDE DEF E, n
<1>4. 1 \in Int /\ n \in Int
  BY <1>2
<1>5. IsFiniteSet(1..(k - 1)) /\ IsFiniteSet(1..n)
  BY <1>3, <1>4, FS_Interval, Zenon
<1>6. 1..k = (1..(k - 1)) \cup {k} /\ k \notin 1..(k - 1)
  BY <1>3
<1>7. 1..(k - 1) \subseteq 1..n /\ 1..k \in SUBSET (1..n)
  BY <1>2, <1>3
<1>8. SumFunctionOnSet(E, 1..(k - 1)) \in Nat
  BY <1>2, <1>5, <1>7, SumNatural
<1>9. SumFunctionOnSet(E, 1..k) = SumFunctionOnSet(E, 1..(k - 1)) + E[k]
  <2>1. \A i \in (1..(k - 1)) \cup {k} : E[i] \in Int
    BY <1>2, <1>3, <1>7
  <2> QED
    BY <1>5, <1>6, <2>1, SumAdd
<1>10. SumFunctionOnSet(E, 1..k) =< SumFunctionOnSet(E, 1..n)
  BY <1>2, <1>5, <1>7, SumPart
<1> QED
  BY <1>2, <1>3, <1>8, <1>9, <1>10 DEF E, n

(* What transactions take are natural numbers.                             *)
LEMMA TakenNatural ==
  ASSUME TypesInv, IsFiniteSet(DOMAIN tx), NEW o
  PROVE  /\ IsFiniteSet(Live) /\ Live \subseteq DOMAIN tx
         /\ \A t \in DOMAIN tx : Amounts(o)[t] \in Nat /\ AmountOf(tx[t].fills, o) \in Nat
         /\ Taken(o) = SumFunctionOnSet(Amounts(o), Live)
         /\ Taken(o) \in Nat
<1>1. IsFiniteSet(Live) /\ Live \subseteq DOMAIN tx
  BY FS_Subset DEF Live
<1>2. ASSUME NEW t \in DOMAIN tx
      PROVE  Amounts(o)[t] \in Nat /\ AmountOf(tx[t].fills, o) \in Nat
  <2>1. tx[t].fills \in Seq(Fill) /\ (\A f \in Fill : f.amount \in Nat)
    BY DEF TypesInv, RowsTyped, IsTable, IsTransaction, Fill
  <2>2. AmountOf(tx[t].fills, o) \in Nat
    BY <2>1, AmountNatural
  <2> QED
    BY <2>2 DEF Amounts
<1>3. Taken(o) = SumFunctionOnSet(Amounts(o), Live)
  BY DEF Taken, Amounts, Live
<1>4. \A t \in Live : Amounts(o)[t] \in Nat
  BY <1>1, <1>2
<1>5. SumFunctionOnSet(Amounts(o), Live) \in Nat
  BY <1>1, <1>4, SumNatural
<1> QED
  BY <1>1, <1>2, <1>3, <1>5

(* Of transactions that have not failed, some take no more than all.       *)
LEMMA DeletedNatural ==
  ASSUME TypesInv, IsFiniteSet(DOMAIN tx), NEW o, txDelete \subseteq Live
  PROVE  /\ Deleted(o) \in Nat /\ Deleted(o) =< Taken(o)
         /\ SumFunctionOnSet(Amounts(o), Live \ txDelete) = Taken(o) - Deleted(o)
         /\ \A t \in Live \ txDelete :
              /\ SumFunctionOnSet(Amounts(o), txDelete \cup {t}) = Deleted(o) + AmountOf(tx[t].fills, o)
              /\ Deleted(o) + AmountOf(tx[t].fills, o) =< Taken(o)
<1> DEFINE F == Amounts(o)
<1>1. /\ IsFiniteSet(Live) /\ Live \subseteq DOMAIN tx
      /\ \A t \in Live : F[t] \in Nat /\ F[t] = AmountOf(tx[t].fills, o)
      /\ Taken(o) = SumFunctionOnSet(F, Live) /\ Taken(o) \in Nat
  BY TakenNatural DEF Amounts
<1>2. IsFiniteSet(txDelete) /\ IsFiniteSet(Live \ txDelete)
  BY <1>1, FS_Subset
<1>3. Deleted(o) = SumFunctionOnSet(F, txDelete)
  BY DEF Deleted
<1> HIDE DEF F
<1>4. Deleted(o) \in Nat
  BY <1>1, <1>2, <1>3, SumNatural
<1>5. Deleted(o) =< Taken(o)
  BY <1>1, <1>3, SumPart
<1>6. SumFunctionOnSet(F, Live) = SumFunctionOnSet(F, txDelete) + SumFunctionOnSet(F, Live \ txDelete)
  <2>1. txDelete \cup (Live \ txDelete) = Live /\ txDelete \cap (Live \ txDelete) = {}
    OBVIOUS
  <2>2. \A t \in (Live \ txDelete) \cup txDelete : F[t] \in Int
    BY <1>1
  <2> QED
    BY <1>2, <2>1, <2>2, SumUnion
<1>7. SumFunctionOnSet(F, Live \ txDelete) \in Nat
  BY <1>1, <1>2, SumNatural
<1>8. ASSUME NEW t \in Live \ txDelete
      PROVE  /\ SumFunctionOnSet(F, txDelete \cup {t}) = Deleted(o) + F[t]
             /\ Deleted(o) + F[t] =< Taken(o)
  <2>1. \A k \in txDelete \cup {t} : F[k] \in Int
    BY <1>1
  <2>2. SumFunctionOnSet(F, txDelete \cup {t}) = Deleted(o) + F[t]
    <3>1. t \notin txDelete
      OBVIOUS
    <3>2. SumFunctionOnSet(F, txDelete \cup {t}) = SumFunctionOnSet(F, txDelete) + F[t]
      BY <1>2, <2>1, <3>1, SumAdd
    <3> QED
      BY <1>3, <3>2
  <2>3. txDelete \cup {t} \in SUBSET Live
    OBVIOUS
  <2>4. SumFunctionOnSet(F, txDelete \cup {t}) =< SumFunctionOnSet(F, Live)
    BY <1>1, <2>3, SumPart
  <2> QED
    BY <1>1, <2>2, <2>4
<1>9. SumFunctionOnSet(F, Live \ txDelete) = Taken(o) - Deleted(o)
  BY <1>1, <1>3, <1>4, <1>6, <1>7
<1>10. \A t \in Live \ txDelete :
         /\ SumFunctionOnSet(F, txDelete \cup {t}) = Deleted(o) + AmountOf(tx[t].fills, o)
         /\ Deleted(o) + AmountOf(tx[t].fills, o) =< Taken(o)
  BY <1>1, <1>8
<1> QED
  BY <1>4, <1>5, <1>9, <1>10 DEF F

(* Steps that change neither table and leave the job where it is.          *)
LEMMA AccountsQuiet ==
  ASSUME AccountsInv, UNCHANGED <<orders, tx, pc, work, failures, disturbed>>
  PROVE  AccountsInv'
<1>1. UNCHANGED <<rows, current, entry, toUpdate, txUpdate, txDelete>>
  BY DEF work
<1> QED
  BY <1>1 DEF AccountsInv, Clean, CopiesInv, Live, Accounted, OrderAccounted, CopyAccounted,
              Deleted, Amounts, Partly, Taken

(* Steps after which the run no longer counts.                             *)
LEMMA AccountsDisturbed ==
  ASSUME WorldTyped, disturbed' = TRUE \/ Fail
  PROVE  AccountsInv'
<1>1. failures \in Nat
  <2>1. MaxFailures \in Nat
    BY PendingAssumption, Zenon
  <2> QED
    BY <2>1 DEF WorldTyped
<1> QED
  BY <1>1 DEF AccountsInv, Clean, Fail

(* A reservation between two runs adds what it takes to both sides.        *)
LEMMA ReserveAccounts ==
  ASSUME JobInv, TypesInv, AccountsInv, NEW t \in Trades, Reserve(t)
  PROVE  AccountsInv'
<1> SUFFICES ASSUME Clean' PROVE AccountsInv'
  BY DEF AccountsInv
<1>1. pc = "idle" /\ Clean /\ UNCHANGED <<pc, work>>
  BY DEF Reserve, Disturbs, Clean, TypesInv, WorldTyped
<1>2. /\ DOMAIN InitOrders \subseteq DOMAIN orders /\ IsFiniteSet(DOMAIN tx)
      /\ CopiesInv /\ Accounted
  BY <1>1 DEF AccountsInv
<1>3. t \notin DOMAIN tx
  BY DEF Reserve, JobInv, CreditedInv
<1>4. PICK s \in Offers[t] : \E u \in Utxos :
        /\ orders' = [o \in DOMAIN orders |->
                       [orders[o] EXCEPT !.filled = @ + AmountOf(s, o)]]
        /\ tx' = Saved(tx, Row(t,
            [status |-> "pending",
             type   |-> IF orders[s[1].orderId].type = "bid" THEN "buy" ELSE "sell",
             fills  |-> [i \in DOMAIN s |-> [orderId |-> s[i].orderId, amount |-> s[i].amount,
                                             price |-> orders[s[i].orderId].price]],
             utxo   |-> u]))
  BY DEF Reserve
<1>5. /\ DOMAIN tx' = DOMAIN tx \cup {t}
      /\ \A k \in DOMAIN tx : tx'[k] = tx[k]
      /\ tx'[t].status = "pending"
      /\ tx'[t].fills = [i \in DOMAIN s |-> [orderId |-> s[i].orderId, amount |-> s[i].amount,
                                             price |-> orders[s[i].orderId].price]]
  BY <1>3, <1>4 DEF Saved, Row
<1>6. ASSUME NEW o PROVE AmountOf(tx'[t].fills, o) = AmountOf(s, o)
  <2> DEFINE fills == tx'[t].fills
  <2>1. DOMAIN fills = DOMAIN s
    BY <1>5
  <2>2. \A i \in DOMAIN s : fills[i].orderId = s[i].orderId /\ fills[i].amount = s[i].amount
    BY <1>5
  <2> HIDE DEF fills
  <2>3. [i \in DOMAIN fills |-> IF fills[i].orderId = o THEN fills[i].amount ELSE 0]
          = [i \in DOMAIN s |-> IF s[i].orderId = o THEN s[i].amount ELSE 0]
    BY <2>1, <2>2
  <2>4. AmountOf(fills, o) = AmountOf(s, o)
    BY <2>3, Zenon DEF AmountOf
  <2> QED
    BY <2>4 DEF fills
<1>7. \A o : AmountOf(s, o) \in Nat
  <2> DEFINE S == [orderId : DOMAIN InitOrders, amount : Nat \ {0}]
  <2>1. s \in Seq(S)
    BY PendingAssumption, Zenon
  <2>2. \A f \in S : f.amount \in Nat
    OBVIOUS
  <2> HIDE DEF S
  <2> QED
    BY <2>1, <2>2, AmountNatural
<1>8. Live' = Live \cup {t} /\ t \notin Live
  BY <1>3, <1>5 DEF Live
<1>9. ASSUME NEW o PROVE Taken(o)' = Taken(o) + AmountOf(s, o)
  <2> DEFINE F == Amounts(o)
             G == Amounts(o)'
  <2>1. /\ IsFiniteSet(Live) /\ (\A k \in Live : F[k] \in Nat)
        /\ Taken(o) = SumFunctionOnSet(F, Live)
    BY <1>2, TakenNatural
  <2>2. \A k \in Live : G[k] = F[k]
    BY <1>5 DEF Amounts, Live
  <2>3. G[t] = AmountOf(s, o)
    BY <1>5, <1>6 DEF Amounts
  <2>4. Taken(o)' = SumFunctionOnSet(G, Live')
    BY DEF Taken, Amounts, Live
  <2> HIDE DEF F, G
  <2>5. SumFunctionOnSet(G, Live \cup {t}) = SumFunctionOnSet(G, Live) + G[t]
    BY <1>7, <1>8, <2>1, <2>2, <2>3, SumAdd
  <2>6. SumFunctionOnSet(G, Live) = SumFunctionOnSet(F, Live)
    BY <2>1, <2>2, SumAgree
  <2> QED
    BY <1>8, <2>1, <2>3, <2>4, <2>5, <2>6
<1>10. DOMAIN orders' = DOMAIN orders
       /\ (\A o \in DOMAIN orders : orders'[o].filled = orders[o].filled + AmountOf(s, o))
  <2>1. \A o \in DOMAIN orders : orders[o] \in OrderRow
    BY DEF TypesInv, OrdersTyped, IsOrderTable
  <2> QED
    BY <1>4, <2>1 DEF OrderRow
<1>11. UNCHANGED <<rows, current, entry, toUpdate, txUpdate, txDelete, pc>>
  BY <1>1 DEF work
<1>12. IsFiniteSet(DOMAIN tx')
  BY <1>2, <1>5, FS_AddElement
<1>13. CopiesInv'
  BY <1>1, <1>2, <1>11 DEF CopiesInv
<1>14. ASSUME NEW o \in DOMAIN InitOrders PROVE OrderAccounted(o)' /\ CopyAccounted(o)'
  <2>1. orders[o].filled = InitOrders[o].filled + Taken(o)
    BY <1>1, <1>2 DEF Accounted, OrderAccounted
  <2>2. Taken(o) \in Nat
    BY <1>2, TakenNatural
  <2>3. o \in DOMAIN orders /\ InitOrders[o].filled \in Nat
    BY <1>2, PendingAssumption DEF OrderRow
  <2>4. OrderAccounted(o)'
    <3>1. orders'[o].filled = InitOrders[o].filled + Taken(o)'
      BY <1>7, <1>9, <1>10, <2>1, <2>2, <2>3
    <3> QED
      BY <1>1, <3>1 DEF OrderAccounted
  <2>5. DOMAIN toUpdate = {} /\ txDelete = {}
    BY <1>1, <1>2 DEF CopiesInv
  <2>6. Deleted(o)' = 0 /\ Partly(o)' = 0
    BY <1>1, <1>11, <2>5, SumEmpty DEF Deleted, Partly
  <2>7. CopyAccounted(o)'
    BY <1>11, <2>5, <2>6 DEF CopyAccounted
  <2> QED
    BY <2>4, <2>7
<1> QED
  BY <1>2, <1>10, <1>12, <1>13, <1>14 DEF AccountsInv, Accounted

(* A cancel between two runs takes what the trade took from both sides.    *)
LEMMA CancelAccounts ==
  ASSUME TypesInv, AccountsInv, NEW t \in Trades, Cancel(t)
  PROVE  AccountsInv'
<1> SUFFICES ASSUME Clean' PROVE AccountsInv'
  BY DEF AccountsInv
<1>1. pc = "idle" /\ Clean /\ UNCHANGED <<pc, work, failures, disturbed>>
  BY DEF Cancel, Disturbs, Clean, TypesInv, WorldTyped
<1>2. /\ DOMAIN InitOrders \subseteq DOMAIN orders /\ IsFiniteSet(DOMAIN tx)
      /\ CopiesInv /\ Accounted
  BY <1>1 DEF AccountsInv
<1>3. UNCHANGED <<rows, current, entry, toUpdate, txUpdate, txDelete, pc>>
  BY <1>1 DEF work
<1>4. CASE UNCHANGED <<orders, tx>>
  BY <1>1, <1>4, AccountsQuiet
<1>5. CASE /\ t \in DOMAIN tx /\ tx[t].status = "pending"
           /\ tx' = [tx EXCEPT ![t].status = "errored"]
           /\ orders' = [o \in DOMAIN orders |->
                           GivenBack(orders[o], AmountOf(tx[t].fills, o))]
  <2>1. DOMAIN tx[t] = {"status", "type", "fills", "utxo"}
    BY <1>5 DEF TypesInv, RowsTyped, IsTable, IsTransaction
  <2>2. /\ DOMAIN tx' = DOMAIN tx /\ tx'[t].status = "errored"
        /\ \A k \in DOMAIN tx : tx'[k].fills = tx[k].fills
        /\ \A k \in DOMAIN tx \ {t} : tx'[k] = tx[k]
    BY <1>5, <2>1
  <2>3. t \in Live /\ Live' = Live \ {t}
    BY <1>5, <2>2 DEF Live
  <2>4. \A o : Amounts(o)' = Amounts(o)
    BY <2>2 DEF Amounts
  <2>5. ASSUME NEW o
        PROVE  /\ AmountOf(tx[t].fills, o) \in Nat /\ Taken(o) \in Nat
               /\ Taken(o)' = Taken(o) - AmountOf(tx[t].fills, o)
               /\ Taken(o)' \in Nat
    <3> DEFINE F == Amounts(o)
               a == AmountOf(tx[t].fills, o)
    <3>1. /\ IsFiniteSet(Live) /\ (\A k \in Live : F[k] \in Nat)
          /\ Taken(o) = SumFunctionOnSet(F, Live) /\ Taken(o) \in Nat
      BY <1>2, TakenNatural
    <3>2. F[t] = a /\ a \in Nat
      BY <1>5, <1>2, TakenNatural DEF Amounts
    <3>3. Taken(o)' = SumFunctionOnSet(F, Live')
      <4>1. Taken(o)' = SumFunctionOnSet(Amounts(o)', Live')
        BY DEF Taken, Amounts, Live
      <4> QED
        BY <4>1, <2>4
    <3> HIDE DEF F, a
    <3>4. SumFunctionOnSet(F, Live) = F[t] + SumFunctionOnSet(F, Live \ {t})
      BY <2>3, <3>1, SumRemove
    <3>5. IsFiniteSet(Live \ {t}) /\ (\A k \in Live \ {t} : F[k] \in Nat)
      BY <3>1, FS_Subset
    <3>6. SumFunctionOnSet(F, Live \ {t}) \in Nat
      BY <3>5, SumNatural
    <3>7. a \in Nat /\ Taken(o) \in Nat /\ Taken(o)' = Taken(o) - a /\ Taken(o)' \in Nat
      BY <2>3, <3>1, <3>2, <3>3, <3>4, <3>6
    <3> QED
      BY <3>7 DEF a
  <2>6. DOMAIN orders' = DOMAIN orders
    BY <1>5
  <2>7. CopiesInv'
    BY <1>1, <1>2, <1>3 DEF CopiesInv
  <2>8. ASSUME NEW o \in DOMAIN InitOrders PROVE OrderAccounted(o)' /\ CopyAccounted(o)'
    <3> DEFINE a == AmountOf(tx[t].fills, o)
    <3>1. orders[o].filled = InitOrders[o].filled + Taken(o)
      BY <1>1, <1>2 DEF Accounted, OrderAccounted
    <3>2. /\ o \in DOMAIN orders /\ InitOrders[o].filled \in Nat /\ orders[o] \in OrderRow
      BY <1>2, PendingAssumption DEF OrderRow, TypesInv, OrdersTyped, IsOrderTable
    <3>3. orders'[o].filled = IF orders[o].filled < a THEN 0 ELSE orders[o].filled - a
      BY <1>5, <3>2 DEF GivenBack, OrderRow
    <3>4. a \in Nat /\ Taken(o) \in Nat /\ Taken(o)' = Taken(o) - a /\ Taken(o)' \in Nat
      BY <2>5
    <3> HIDE DEF a
    <3>5. orders'[o].filled = InitOrders[o].filled + Taken(o)'
      BY <3>1, <3>2, <3>3, <3>4
    <3>6. OrderAccounted(o)'
      BY <1>1, <3>5 DEF OrderAccounted
    <3>7. DOMAIN toUpdate = {} /\ txDelete = {}
      BY <1>1, <1>2 DEF CopiesInv
    <3>8. Deleted(o)' = 0 /\ Partly(o)' = 0
      BY <1>1, <1>3, <3>7, SumEmpty DEF Deleted, Partly
    <3>9. CopyAccounted(o)'
      BY <1>3, <3>7, <3>8 DEF CopyAccounted
    <3> QED
      BY <3>6, <3>9
  <2> QED
    BY <1>2, <2>2, <2>6, <2>7, <2>8 DEF AccountsInv, Accounted
<1> QED
  BY <1>4, <1>5 DEF Cancel

(* What is known of an order whose row the job has loaded.                 *)
LEMMA RowFacts ==
  ASSUME JobInv, TypesInv, AccountsInv, Clean, Working
  PROVE  /\ current \in DOMAIN rows /\ IsTransaction(rows[current])
         /\ rows[current].fills \in Seq(Fill) /\ entry \in DOMAIN rows[current].fills
         /\ rows[current].fills[entry] \in Fill
         /\ current \in Live \ txDelete /\ rows[current].fills = tx[current].fills
         /\ rows[current].status # "errored"
         /\ txDelete \subseteq Live
         /\ rows[current].fills[entry].orderId \in DOMAIN InitOrders \cap DOMAIN orders
<1>1. /\ current \in DOMAIN rows \ txDelete /\ txDelete \subseteq DOMAIN rows
  BY DEF JobInv, BatchInv
<1>2. IsTransaction(rows[current]) /\ entry \in DOMAIN rows[current].fills
  BY <1>1 DEF TypesInv, RowsTyped, IsTable, PlaceTyped
<1>3. rows[current].fills \in Seq(Fill)
  BY <1>2 DEF IsTransaction
<1>4. rows[current].fills[entry] \in Fill
  BY <1>2, <1>3
<1>5. rows[current].fills[entry].orderId \in DOMAIN InitOrders
  BY <1>4 DEF Fill
<1>6. CopiesInv /\ DOMAIN InitOrders \subseteq DOMAIN orders
  BY DEF AccountsInv
<1>7. \A t \in DOMAIN rows : t \in Live /\ rows[t].fills = tx[t].fills /\ rows[t].status # "errored"
  BY <1>6 DEF CopiesInv, Working
<1> QED
  BY <1>1, <1>2, <1>3, <1>4, <1>5, <1>6, <1>7

(* Steps that change neither table and no copy of an order.                *)
LEMMA AccountsKept ==
  ASSUME AccountsInv, UNCHANGED <<orders, tx, toUpdate, txDelete, failures, disturbed>>,
         pc \notin {"transactions", "delete", "new", "reset"},
         pc' \notin {"idle", "transactions", "delete", "new"},
         pc' = "reset" => entry' = 1,
         Clean' => CopiesInv'
  PROVE  AccountsInv'
<1> SUFFICES ASSUME Clean' PROVE AccountsInv'
  BY DEF AccountsInv
<1>1. Clean
  BY DEF Clean
<1>2. ASSUME NEW o
      PROVE  Taken(o)' = Taken(o) /\ Deleted(o)' = Deleted(o) /\ Partly(o) = 0 /\ Partly(o)' = 0
  <2>1. pc' = "reset" => 1..(entry' - 1) = {}
    OBVIOUS
  <2> QED
    BY <2>1, SumEmpty DEF Taken, Deleted, Amounts, Partly
<1>3. Accounted'
  BY <1>1, <1>2 DEF AccountsInv, Accounted, OrderAccounted, CopyAccounted
<1> QED
  BY <1>1, <1>3 DEF AccountsInv

(* Steps of the job that collect nothing for an order.                     *)
LEMMA JobKeepsAccounts ==
  ASSUME JobInv, TypesInv, AccountsInv,
         \/ Start \/ FindPendingAndConfirming \/ GetTipHeight \/ GetOutspend
         \/ GetConfig \/ ReadBook \/ LoopEnds
         \/ \E t \in Trades : NextTransaction(t)
  PROVE  AccountsInv'
<1> SUFFICES ASSUME Clean' PROVE AccountsInv'
  BY DEF AccountsInv
<1> USE DEF Goto, database, network, handler, work, history
<1>1. UNCHANGED <<orders, tx, toUpdate, txDelete, failures, disturbed>>
  BY DEF Start, FindPendingAndConfirming, GetTipHeight, GetOutspend, GetConfig, ReadBook,
         LoopEnds, NextTransaction
<1>2. Clean /\ CopiesInv /\ Live' = Live
  BY <1>1 DEF Clean, AccountsInv, Live
<1>3. /\ pc \notin {"transactions", "delete", "new", "reset"}
      /\ pc' \notin {"idle", "transactions", "delete", "new"}
  BY DEF Start, FindPendingAndConfirming, GetTipHeight, GetOutspend, GetConfig, ReadBook,
         LoopEnds, NextTransaction, Saves
<1>4. pc' = "reset" => entry' = 1
  BY <1>2 DEF CopiesInv, Start, FindPendingAndConfirming, GetTipHeight, GetOutspend, GetConfig,
              ReadBook, LoopEnds, NextTransaction, Saves
<1>5. CASE Start \/ GetTipHeight \/ ReadBook \/ LoopEnds
  <2>1. UNCHANGED <<rows, txUpdate>> /\ pc' # "outspend" /\ (pc \in {"idle", "find"} => Start)
    BY <1>5 DEF Start, GetTipHeight, ReadBook, LoopEnds, Saves
  <2>2. Start => pc' = "find"
    BY DEF Start
  <2>3. CopiesInv'
    BY <1>1, <1>2, <1>3, <2>1, <2>2 DEF CopiesInv
  <2> QED
    BY <1>1, <1>3, <1>4, <2>3, AccountsKept
<1>6. CASE FindPendingAndConfirming
  <2>1. /\ \A t \in DOMAIN rows' : t \in DOMAIN tx /\ rows'[t] = tx[t] /\ tx[t].status # "errored"
        /\ txUpdate' = txUpdate /\ DOMAIN txUpdate \subseteq DOMAIN rows /\ DOMAIN rows = {}
        /\ pc' = "tip"
    BY <1>6 DEF FindPendingAndConfirming, Unsettled, Restrict, JobInv, BatchInv
  <2>2. CopiesInv'
    BY <1>1, <2>1 DEF CopiesInv, Live
  <2> QED
    BY <1>1, <1>3, <1>4, <2>2, AccountsKept
<1>7. CASE \E t \in Trades : NextTransaction(t)
  <2>1. UNCHANGED <<rows, txUpdate>> /\ pc = "next" /\ pc' \in {"next", "outspend"}
        /\ (pc' = "outspend" => entry' = 1)
    BY <1>7 DEF NextTransaction
  <2>2. CopiesInv'
    BY <1>1, <1>2, <2>1 DEF CopiesInv
  <2> QED
    BY <1>1, <1>3, <1>4, <2>2, AccountsKept
<1>8. CASE GetConfig
  <2>1. pc = "config"
    BY <1>8 DEF GetConfig
  <2>2. current \in DOMAIN rows /\ rows[current].status # "errored"
    BY <1>2, <2>1, RowFacts DEF Working
  <2>3. /\ UNCHANGED rows /\ pc' \in {"book", "next"}
        /\ txUpdate' \in {txUpdate, Saved(txUpdate, Row(current, rows[current]))}
    BY <1>8 DEF GetConfig
  <2>4. CopiesInv'
    BY <1>1, <1>2, <2>1, <2>2, <2>3 DEF CopiesInv, Saved, Row
  <2> QED
    BY <1>1, <1>3, <1>4, <2>4, AccountsKept
<1>9. CASE GetOutspend
  <2>1. pc = "outspend"
    BY <1>9 DEF GetOutspend
  <2>2. current \in DOMAIN rows /\ IsTransaction(rows[current])
    BY <1>2, <2>1, RowFacts DEF Working
  <2>3. PICK status \in {"confirmed", "confirming"} :
          /\ \/ UNCHANGED rows
             \/ rows' = [rows EXCEPT ![current] = Spent(status)]
          /\ \/ UNCHANGED txUpdate
             \/ /\ txUpdate' = Saved(txUpdate, Row(current, rows'[current]))
                /\ rows' = [rows EXCEPT ![current] = Spent(status)]
    BY <1>9 DEF GetOutspend
  <2>4. Spent(status).fills = rows[current].fills /\ Spent(status).status # "errored"
    BY <2>2 DEF Spent, IsTransaction
  <2>5. /\ DOMAIN rows' = DOMAIN rows
        /\ \A t \in DOMAIN rows : /\ rows'[t].fills = rows[t].fills
                                  /\ rows[t].status # "errored" => rows'[t].status # "errored"
    BY <2>2, <2>3, <2>4
  <2>6. \A t \in DOMAIN rows : /\ t \in Live /\ rows[t].fills = tx[t].fills
                              /\ rows[t].status # "errored"
    BY <1>2, <2>1 DEF CopiesInv
  <2>7. \A t \in DOMAIN txUpdate' :
          /\ t \in DOMAIN rows' /\ txUpdate'[t].fills = rows'[t].fills
          /\ txUpdate'[t].status # "errored"
    BY <1>2, <2>2, <2>3, <2>4, <2>5 DEF CopiesInv, Saved, Row
  <2>8. pc' \in {"reset", "config", "next"}
    BY <1>9 DEF GetOutspend
  <2>9. CopiesInv'
    BY <1>1, <1>2, <2>5, <2>6, <2>7, <2>8 DEF CopiesInv
  <2> QED
    BY <1>1, <1>3, <1>4, <2>9, AccountsKept
<1> QED
  BY <1>5, <1>6, <1>7, <1>8, <1>9

(* No order of a row is missing, so that nothing fails without a failure.  *)
LEMMA FailureCounts ==
  ASSUME JobInv, TypesInv, AccountsInv, Clean, TransactionFails
  PROVE  Fail
<1>1. CASE pc \in {"outspend", "config", "book"} /\ Fail
  BY <1>1
<1>2. CASE pc \in {"reset", "rebalance"}
  <2>1. rows[current].fills[entry].orderId \in DOMAIN orders
    BY <1>2, RowFacts DEF Working
  <2> QED
    BY <1>2, <2>1 DEF TransactionFails
<1> QED
  BY <1>1, <1>2 DEF TransactionFails

(* The copy of an order that is given back less than it counts.            *)
LEMMA ResetAccounts ==
  ASSUME JobInv, TypesInv, AccountsInv, ResetOrder
  PROVE  AccountsInv'
<1> SUFFICES ASSUME Clean' PROVE AccountsInv'
  BY DEF AccountsInv
<1> DEFINE fills == rows[current].fills
           fill == fills[entry]
           e == fill.orderId
<1>1. /\ UNCHANGED <<orders, tx, rows, current, txUpdate, failures, disturbed>> /\ pc = "reset"
      /\ toUpdate' = Saved(toUpdate, Row(e, GivenBack(Loaded(e), fill.amount)))
  BY DEF ResetOrder, database, history
<1>2. \/ /\ entry < Len(fills) /\ entry' = entry + 1 /\ pc' = "reset" /\ txDelete' = txDelete
      \/ /\ ~(entry < Len(fills)) /\ txDelete' = txDelete \cup {current} /\ pc' = "next"
  BY <1>1 DEF ResetOrder, Goto
<1>3. Clean /\ CopiesInv /\ Accounted /\ DOMAIN InitOrders \subseteq DOMAIN orders
      /\ IsFiniteSet(DOMAIN tx)
  BY <1>1 DEF Clean, AccountsInv
<1>4. /\ current \in DOMAIN rows /\ fills \in Seq(Fill) /\ entry \in DOMAIN fills
      /\ fill \in Fill /\ current \in Live \ txDelete /\ fills = tx[current].fills
      /\ txDelete \subseteq Live /\ e \in DOMAIN InitOrders /\ e \in DOMAIN orders
  BY <1>1, <1>3, RowFacts DEF Working
<1>5. Live' = Live /\ (\A o : Taken(o)' = Taken(o) /\ Amounts(o)' = Amounts(o))
  BY <1>1 DEF Live, Taken, Amounts
<1>6. CopiesInv'
  BY <1>1, <1>2, <1>3, <1>5 DEF CopiesInv
<1>7. ASSUME NEW o \in DOMAIN InitOrders
      PROVE  OrderAccounted(o)' /\ CopyAccounted(o)'
  <2> DEFINE E == EntryAmounts(fills, o)
             n == Len(fills)
             before == SumFunctionOnSet(E, 1..(entry - 1))
             after == SumFunctionOnSet(E, 1..entry)
             a == AmountOf(fills, o)
  <2>1. /\ n \in Nat /\ entry \in 1..n /\ E[entry] \in Nat /\ before \in Nat
        /\ after = before + E[entry] /\ after =< a /\ (entry = n => after = a)
    BY <1>4, EntriesAddUp
  <2>2. E[entry] = IF o = e THEN fill.amount ELSE 0
    BY <1>4 DEF EntryAmounts
  <2>3. Partly(o) = before
    BY <1>1 DEF Partly
  <2>4. /\ Deleted(o) \in Nat /\ Taken(o) \in Nat
        /\ SumFunctionOnSet(Amounts(o), txDelete \cup {current}) = Deleted(o) + a
        /\ Deleted(o) + a =< Taken(o)
    BY <1>3, <1>4, DeletedNatural, TakenNatural
  <2>5. Deleted(o)' + Partly(o)' = Deleted(o) + after
    <3>1. CASE entry < n
      <4>1. pc' = "reset" /\ entry' = entry + 1 /\ txDelete' = txDelete
        BY <1>2, <3>1
      <4>2. Partly(o)' = SumFunctionOnSet(E, 1..((entry + 1) - 1))
        BY <1>1, <4>1 DEF Partly
      <4>3. (entry + 1) - 1 = entry
        BY <2>1
      <4>4. Deleted(o)' = Deleted(o)
        BY <1>5, <4>1 DEF Deleted
      <4> QED
        BY <4>2, <4>3, <4>4
    <3>2. CASE ~(entry < n)
      <4>1. pc' = "next" /\ txDelete' = txDelete \cup {current} /\ entry = n
        BY <1>2, <2>1, <3>2
      <4>2. Partly(o)' = 0
        BY <4>1 DEF Partly
      <4>3. Deleted(o)' = SumFunctionOnSet(Amounts(o), txDelete \cup {current})
        BY <1>5, <4>1 DEF Deleted
      <4>4. after = a /\ a \in Nat
        BY <2>1, <4>1
      <4> QED
        BY <2>4, <4>2, <4>3, <4>4
    <3> QED
      BY <3>1, <3>2
  <2>12. a \in Nat
    <3>1. \A f \in Fill : f.amount \in Nat
      BY DEF Fill
    <3> QED
      BY <1>4, <3>1, AmountNatural
  <2>11. Deleted(o)' \in Int /\ Partly(o)' \in Int
    <3>1. Deleted(o)' \in {Deleted(o), Deleted(o) + a}
      BY <1>2, <1>5, <2>4 DEF Deleted
    <3>2. Partly(o)' \in {0, after}
      <4>1. pc' = "reset" => entry' - 1 = entry
        BY <1>2, <2>1
      <4>2. pc' = "reset" => 1..(entry' - 1) = 1..entry
        BY <4>1
      <4> QED
        BY <1>1, <4>2 DEF Partly
    <3> QED
      BY <2>1, <2>4, <2>12, <3>1, <3>2
  <2> HIDE DEF E, n, before, after, a
  <2>6. /\ orders[o].filled = InitOrders[o].filled + Taken(o)
        /\ CopyAccounted(o)
    BY <1>1, <1>3 DEF Accounted, OrderAccounted
  <2>7. OrderAccounted(o)'
    BY <1>1, <1>2, <1>5, <2>6 DEF OrderAccounted
  <2>8. /\ orders[o] \in OrderRow /\ InitOrders[o].filled \in Nat
        /\ o \in DOMAIN toUpdate => toUpdate[o] \in OrderRow
    BY <1>3, PendingAssumption DEF OrderRow, TypesInv, OrdersTyped, IsOrderTable
  <2>9. CASE o # e
    <3>1. after = before
      BY <2>1, <2>2, <2>9
    <3>2. /\ (o \in DOMAIN toUpdate') = (o \in DOMAIN toUpdate)
          /\ o \in DOMAIN toUpdate => toUpdate'[o] = toUpdate[o]
      BY <1>1, <2>9 DEF Saved, Row
    <3>3. Deleted(o)' + Partly(o)' = Deleted(o) + Partly(o)
      BY <2>3, <2>5, <3>1
    <3>4. CASE o \in DOMAIN toUpdate
      <4>1. toUpdate[o].filled \in Nat /\ toUpdate'[o] = toUpdate[o] /\ o \in DOMAIN toUpdate'
        BY <2>8, <3>2, <3>4 DEF OrderRow
      <4>2. toUpdate[o].filled + Deleted(o) + Partly(o) = orders[o].filled
        BY <2>6, <3>4 DEF CopyAccounted
      <4>3. toUpdate'[o].filled + Deleted(o)' + Partly(o)' = orders'[o].filled
        BY <1>1, <2>1, <2>3, <2>4, <2>11, <3>3, <4>1, <4>2
      <4> QED
        BY <1>1, <2>6, <2>7, <3>4, <4>1, <4>3 DEF CopyAccounted
    <3>5. CASE o \notin DOMAIN toUpdate
      BY <2>6, <2>7, <3>2, <3>3, <3>5 DEF CopyAccounted
    <3> QED
      BY <3>4, <3>5
  <2>10. CASE o = e
    <3>1. toUpdate'[o] = GivenBack(Loaded(o), fill.amount) /\ o \in DOMAIN toUpdate'
      BY <1>1, <2>10 DEF Saved, Row
    <3>2. after = before + fill.amount /\ fill.amount \in Nat
      BY <1>4, <2>1, <2>2, <2>10 DEF Fill
    <3>3. /\ Loaded(o) \in OrderRow
          /\ Loaded(o).filled + Deleted(o) + before = orders[o].filled
          /\ Loaded(o).status = "closed" =>
               orders[o].status = "closed" \/ orders[o].filled = orders[o].quantity
      BY <1>4, <2>1, <2>3, <2>4, <2>6, <2>8, <2>10 DEF Loaded, CopyAccounted, OrderRow
    <3>4. /\ toUpdate'[o].status = Loaded(o).status
          /\ toUpdate'[o].filled = IF Loaded(o).filled < fill.amount THEN 0
                                    ELSE Loaded(o).filled - fill.amount
      BY <3>1, <3>3 DEF GivenBack, OrderRow
    <3>5. Loaded(o).filled \in Nat /\ Loaded(o).filled >= fill.amount
      <4>1. Loaded(o).filled \in Nat
        BY <3>3 DEF OrderRow
      <4>2. Deleted(o) + after =< Taken(o)
        BY <2>1, <2>4, <2>12
      <4> QED
        BY <2>1, <2>4, <2>6, <2>8, <3>2, <3>3, <4>1, <4>2
    <3>6. toUpdate'[o].filled + (Deleted(o) + after) = orders[o].filled
      BY <2>1, <2>4, <3>2, <3>3, <3>4, <3>5
    <3>7. Deleted(o)' \in Int /\ Partly(o)' \in Int /\ toUpdate'[o].filled \in Int
      BY <2>11, <3>2, <3>4, <3>5
    <3>8. toUpdate'[o].filled + Deleted(o)' + Partly(o)' = orders'[o].filled
      BY <1>1, <2>5, <3>6, <3>7
    <3> QED
      BY <1>1, <2>7, <3>1, <3>3, <3>4, <3>8 DEF CopyAccounted
  <2> QED
    BY <2>9, <2>10
<1> QED
  BY <1>1, <1>3, <1>6, <1>7 DEF AccountsInv, Accounted

(* What an order counts is not changed when it is closed.                  *)
LEMMA RebalanceAccounts ==
  ASSUME JobInv, TypesInv, AccountsInv, RebalanceOrder
  PROVE  AccountsInv'
<1> SUFFICES ASSUME Clean' PROVE AccountsInv'
  BY DEF AccountsInv
<1> DEFINE e == rows[current].fills[entry].orderId
           closed == IF IsFull(e) THEN Row(e, [Loaded(e) EXCEPT !.status = "closed"]) ELSE NoRows
<1>1. /\ UNCHANGED <<orders, tx, rows, txDelete, failures, disturbed>> /\ pc = "rebalance"
      /\ e \in DOMAIN orders
  BY DEF RebalanceOrder, database, history
<1>2. PICK new :
          LET merged == [k \in Mergeable(new) |-> [book[k] EXCEPT !.quantity = @ + new.amount]]
          IN toUpdate' = Saved(Saved(toUpdate, closed), merged)
  BY DEF RebalanceOrder
<1>3. toUpdate' = Saved(Saved(toUpdate, closed), NoRows)
  <2>1. Mergeable(new) = {}
    BY DEF Mergeable, TypesInv, OrdersTyped
  <2> QED
    BY <1>2, <2>1 DEF NoRows
<1>4. Clean /\ CopiesInv /\ Accounted /\ DOMAIN InitOrders \subseteq DOMAIN orders
      /\ IsFiniteSet(DOMAIN tx)
  BY <1>1 DEF Clean, AccountsInv
<1>5. current \in DOMAIN rows /\ rows[current].status # "errored"
  BY <1>1, <1>4, RowFacts DEF Working
<1>6. pc' \in {"rebalance", "next"} /\ txUpdate' \in {txUpdate, Saved(txUpdate, Row(current, rows[current]))}
  BY <1>1 DEF RebalanceOrder, Goto
<1>7. CopiesInv'
  BY <1>1, <1>4, <1>5, <1>6 DEF CopiesInv, Live, Saved, Row
<1>8. ASSUME NEW o \in DOMAIN InitOrders
      PROVE  OrderAccounted(o)' /\ CopyAccounted(o)'
  <2>1. OrderAccounted(o) /\ CopyAccounted(o)
    BY <1>1, <1>4 DEF Accounted
  <2>2. OrderAccounted(o)'
    BY <1>1, <1>6, <2>1 DEF OrderAccounted, Taken
  <2>3. Partly(o) = 0 /\ Partly(o)' = 0 /\ Deleted(o)' = Deleted(o)
    BY <1>1, <1>6 DEF Partly, Deleted, Amounts
  <2>4. CASE o # e \/ ~IsFull(e)
    <3>1. /\ (o \in DOMAIN toUpdate') = (o \in DOMAIN toUpdate)
          /\ o \in DOMAIN toUpdate => toUpdate'[o] = toUpdate[o]
      <4>1. o \notin DOMAIN closed
        BY <2>4 DEF Row, NoRows
      <4> HIDE DEF closed
      <4> QED
        BY <1>3, <4>1 DEF Saved, NoRows
    <3> QED
      BY <1>1, <2>1, <2>2, <2>3, <3>1 DEF CopyAccounted
  <2>5. CASE o = e /\ IsFull(e)
    <3>1. toUpdate'[o] = [Loaded(o) EXCEPT !.status = "closed"] /\ o \in DOMAIN toUpdate'
      BY <1>3, <2>5 DEF Saved, Row, NoRows
    <3>2. orders[o].filled = orders[o].quantity
      BY <2>5 DEF IsFull
    <3>3. Loaded(o) \in OrderRow /\ orders[o] \in OrderRow
      BY <1>1, <2>5 DEF Loaded, TypesInv, OrdersTyped, IsOrderTable
    <3>4. toUpdate'[o].filled = Loaded(o).filled /\ Loaded(o).filled \in Nat /\ orders[o].filled \in Nat
      BY <3>1, <3>3 DEF OrderRow
    <3>5. txDelete \subseteq Live /\ Deleted(o) \in Nat
      BY <1>1, <1>4, RowFacts, DeletedNatural DEF Working
    <3>6. Loaded(o).filled + Deleted(o) + Partly(o) = orders[o].filled
      BY <2>1, <2>3, <3>4, <3>5 DEF CopyAccounted, Loaded
    <3> QED
      BY <1>1, <2>2, <2>3, <3>1, <3>2, <3>4, <3>6 DEF CopyAccounted
  <2> QED
    BY <2>4, <2>5
<1> QED
  BY <1>1, <1>4, <1>7, <1>8 DEF AccountsInv, Accounted

(* The four saves: the copies, the rows, what is deleted, the new orders.  *)
LEMMA SaveOrdersAccounts ==
  ASSUME JobInv, TypesInv, AccountsInv, SaveOrders
  PROVE  AccountsInv'
<1> SUFFICES ASSUME Clean' PROVE AccountsInv'
  BY DEF AccountsInv
<1>1. /\ pc = "orders" /\ pc' = "transactions" /\ orders' = Saved(orders, toUpdate)
      /\ UNCHANGED <<tx, rows, txUpdate, txDelete, failures, disturbed>>
  BY SaveOrder DEF SaveOrders, work, history
<1>2. Clean /\ CopiesInv /\ Accounted /\ DOMAIN InitOrders \subseteq DOMAIN orders
      /\ IsFiniteSet(DOMAIN tx)
  BY <1>1 DEF Clean, AccountsInv
<1>3. CopiesInv' /\ DOMAIN InitOrders \subseteq DOMAIN orders'
  BY <1>1, <1>2 DEF CopiesInv, Live, Saved
<1>4. ASSUME NEW o \in DOMAIN InitOrders PROVE OrderAccounted(o)'
  <2>1. OrderAccounted(o) /\ CopyAccounted(o) /\ Partly(o) = 0
    BY <1>1, <1>2 DEF Accounted, Partly
  <2>2. Taken(o)' = Taken(o) /\ Deleted(o)' = Deleted(o)
    BY <1>1 DEF Taken, Deleted, Amounts
  <2>3. txDelete \subseteq Live
    BY <1>1, <1>2 DEF CopiesInv, JobInv, BatchInv
  <2>4. Deleted(o) \in Nat
    BY <1>2, <2>3, DeletedNatural
  <2>5. orders[o].filled \in Nat /\ (o \in DOMAIN toUpdate => toUpdate[o].filled \in Nat)
    BY <1>2 DEF TypesInv, OrdersTyped, IsOrderTable, OrderRow
  <2>6. orders'[o].filled + Deleted(o) = orders[o].filled
    <3>1. CASE o \in DOMAIN toUpdate
      <4>1. orders'[o] = toUpdate[o]
        BY <1>1, <3>1 DEF Saved
      <4> QED
        BY <2>1, <2>4, <2>5, <3>1, <4>1 DEF CopyAccounted
    <3>2. CASE o \notin DOMAIN toUpdate
      <4>1. orders'[o] = orders[o]
        BY <1>1, <1>2, <3>2 DEF Saved
      <4> QED
        BY <2>1, <2>4, <2>5, <3>2, <4>1 DEF CopyAccounted
    <3> QED
      BY <3>1, <3>2
  <2> QED
    BY <1>1, <2>1, <2>2, <2>6 DEF OrderAccounted
<1> QED
  BY <1>1, <1>2, <1>3, <1>4 DEF AccountsInv, Accounted

(* Saving confirmed trades changes no amount.                              *)
LEMMA SaveTransactionsAccounts ==
  ASSUME JobInv, TypesInv, AccountsInv, SaveTransactions
  PROVE  AccountsInv'
<1> SUFFICES ASSUME Clean' PROVE AccountsInv'
  BY DEF AccountsInv
<1>1. /\ pc = "transactions" /\ pc' = "delete" /\ tx' = Saved(tx, txUpdate)
      /\ UNCHANGED <<orders, rows, txUpdate, txDelete, failures, disturbed>>
  BY SaveOrder DEF SaveTransactions, work, history
<1>2. Clean /\ CopiesInv /\ Accounted /\ DOMAIN InitOrders \subseteq DOMAIN orders
      /\ IsFiniteSet(DOMAIN tx)
  BY <1>1 DEF Clean, AccountsInv
<1>3. \A t \in DOMAIN rows : t \in Live /\ rows[t].fills = tx[t].fills
  BY <1>1, <1>2 DEF CopiesInv
<1>4. \A t \in DOMAIN txUpdate : /\ t \in DOMAIN rows /\ txUpdate[t].fills = rows[t].fills
                                /\ txUpdate[t].status # "errored"
  BY <1>2 DEF CopiesInv
<1>5. /\ DOMAIN tx' = DOMAIN tx /\ (\A t \in DOMAIN tx : tx'[t].fills = tx[t].fills)
      /\ \A t \in DOMAIN tx : (tx'[t].status # "errored") = (tx[t].status # "errored")
  BY <1>1, <1>3, <1>4 DEF Saved, Live
<1>6. Live' = Live
  BY <1>5 DEF Live
<1>7. \A o : Amounts(o)' = Amounts(o)
  BY <1>5 DEF Amounts
<1>8. \A o : Taken(o)' = Taken(o) /\ Deleted(o)' = Deleted(o)
  <2>1. \A o : Taken(o) = SumFunctionOnSet(Amounts(o), Live)
    BY DEF Taken, Amounts, Live
  <2>2. \A o : Taken(o)' = SumFunctionOnSet(Amounts(o)', Live')
    BY DEF Taken, Amounts, Live
  <2> QED
    BY <1>1, <1>6, <1>7, <2>1, <2>2 DEF Deleted
<1>9. CopiesInv'
  <2>1. \A t \in Live : t \in DOMAIN tx
    BY DEF Live
  <2>2. \A t \in DOMAIN rows : /\ t \in Live' /\ rows[t].fills = tx'[t].fills
                              /\ rows[t].status # "errored"
    BY <1>1, <1>2, <1>3, <1>5, <1>6, <2>1 DEF CopiesInv
  <2> QED
    BY <1>1, <1>4, <2>2 DEF CopiesInv
<1>10. Accounted'
  BY <1>1, <1>2, <1>8 DEF Accounted, OrderAccounted
<1> QED
  BY <1>1, <1>2, <1>5, <1>9, <1>10 DEF AccountsInv

(* Deleting the trades makes good what the orders have been given back.    *)
LEMMA DeleteAccounts ==
  ASSUME JobInv, TypesInv, AccountsInv, DeleteTransactions
  PROVE  AccountsInv'
<1> SUFFICES ASSUME Clean' PROVE AccountsInv'
  BY DEF AccountsInv
<1>1. /\ pc = "delete" /\ pc' = "new" /\ tx' = Without(tx, txDelete)
      /\ UNCHANGED <<orders, rows, txUpdate, txDelete, failures, disturbed>>
  BY SaveOrder DEF DeleteTransactions, work, history
<1>2. Clean /\ CopiesInv /\ Accounted /\ DOMAIN InitOrders \subseteq DOMAIN orders
      /\ IsFiniteSet(DOMAIN tx)
  BY <1>1 DEF Clean, AccountsInv
<1>3. txDelete \subseteq Live
  BY <1>1, <1>2 DEF CopiesInv, JobInv, BatchInv
<1>4. DOMAIN tx' = DOMAIN tx \ txDelete /\ (\A t \in DOMAIN tx' : tx'[t] = tx[t])
  BY <1>1 DEF Without, Restrict
<1>5. Live' = Live \ txDelete /\ IsFiniteSet(DOMAIN tx')
  BY <1>2, <1>4, FS_Subset DEF Live
<1>6. ASSUME NEW o PROVE Taken(o)' = Taken(o) - Deleted(o)
  <2> DEFINE F == Amounts(o)
             G == Amounts(o)'
             S == Live \ txDelete
  <2>1. IsFiniteSet(S) /\ (\A t \in S : F[t] \in Int)
    BY <1>2, TakenNatural, FS_Subset
  <2>2. \A t \in S : F[t] = G[t]
    BY <1>4 DEF Amounts, Live
  <2>3. SumFunctionOnSet(F, S) = Taken(o) - Deleted(o)
    BY <1>2, <1>3, DeletedNatural
  <2>4. Taken(o)' = SumFunctionOnSet(G, Live')
    BY DEF Taken, Amounts, Live
  <2> HIDE DEF F, G
  <2>5. SumFunctionOnSet(F, S) = SumFunctionOnSet(G, S)
    BY <2>1, <2>2, SumAgree
  <2> QED
    BY <1>5, <2>3, <2>4, <2>5
<1>7. ASSUME NEW o \in DOMAIN InitOrders PROVE OrderAccounted(o)'
  <2>1. orders[o].filled + Deleted(o) = InitOrders[o].filled + Taken(o)
    BY <1>1, <1>2 DEF Accounted, OrderAccounted
  <2>2. Deleted(o) \in Nat /\ Taken(o) \in Nat
    BY <1>2, <1>3, DeletedNatural, TakenNatural
  <2>3. orders[o].filled \in Nat /\ InitOrders[o].filled \in Nat
    BY <1>2, PendingAssumption DEF TypesInv, OrdersTyped, IsOrderTable, OrderRow
  <2>4. orders'[o].filled = InitOrders[o].filled + Taken(o)'
    BY <1>1, <1>6, <2>1, <2>2, <2>3
  <2> QED
    BY <1>1, <2>4 DEF OrderAccounted
<1>8. CopiesInv'
  BY <1>1, <1>2 DEF CopiesInv
<1> QED
  BY <1>1, <1>2, <1>5, <1>7, <1>8 DEF AccountsInv, Accounted

(* Counter orders are new orders: they take nothing of the others.         *)
LEMMA NewOrdersAccounts ==
  ASSUME TypesInv, AccountsInv, SaveNewOrders
  PROVE  AccountsInv'
<1> SUFFICES ASSUME Clean' PROVE AccountsInv'
  BY DEF AccountsInv
<1>1. /\ pc = "new" /\ Returns /\ UNCHANGED <<tx, failures, disturbed>>
      /\ DOMAIN orders \subseteq DOMAIN orders'
      /\ \A o \in DOMAIN orders : orders'[o] = orders[o]
  <2>1. PICK ids \in kSubset(Cardinality(Kinds), Spares \ DOMAIN orders) :
          \E kindOf \in Bijection(ids, Kinds) :
            orders' = Saved(orders, [o \in ids |->
                     [type |-> kindOf[o].type, price |-> kindOf[o].price,
                      quantity |-> QuantityOf(kindOf[o]), filled |-> 0, status |-> "open"]])
    BY DEF SaveNewOrders
  <2>2. ids \cap DOMAIN orders = {}
    BY DEF kSubset
  <2>3. pc = "new" /\ Returns /\ UNCHANGED <<tx, failures, disturbed>>
    BY SaveOrder DEF SaveNewOrders
  <2> QED
    BY <2>1, <2>2, <2>3 DEF Saved
<1>2. Clean /\ Accounted /\ DOMAIN InitOrders \subseteq DOMAIN orders
      /\ IsFiniteSet(DOMAIN tx)
  BY <1>1 DEF Clean, AccountsInv
<1>3. /\ pc' = "idle" /\ DOMAIN toUpdate' = {} /\ DOMAIN txUpdate' = {} /\ txDelete' = {}
  BY <1>1 DEF Returns, Goto, NoRows
<1>4. CopiesInv'
  BY <1>3 DEF CopiesInv
<1>5. ASSUME NEW o \in DOMAIN InitOrders PROVE OrderAccounted(o)' /\ CopyAccounted(o)'
  <2>1. OrderAccounted(o)'
    BY <1>1, <1>2, <1>3 DEF Accounted, OrderAccounted, Taken
  <2>2. Deleted(o)' = 0 /\ Partly(o)' = 0
    BY <1>3, SumEmpty DEF Deleted, Partly
  <2> QED
    BY <1>3, <2>1, <2>2 DEF CopyAccounted
<1> QED
  BY <1>1, <1>2, <1>4, <1>5 DEF AccountsInv, Accounted

(* A run that is not stopped keeps the accounts, at every save.            *)
LEMMA AccountsNext ==
  ASSUME ~CanRestart, JobInv, TypesInv, AccountsInv, [Next]_vars
  PROVE  AccountsInv'
<1>1. WorldTyped
  BY DEF TypesInv
<1>2. ASSUME NEW t \in Trades, Reserve(t) \/ Cancel(t) PROVE AccountsInv'
  BY <1>2, ReserveAccounts, CancelAccounts
<1>3. ASSUME \/ UNCHANGED vars \/ SetStrategy \/ RemoveStrategy \/ Broadcast
             \/ \E t \in Trades : GrowOld(t) \/ Sign(t)
             \/ \E u \in Utxos : Expire(u) \/ SplitAsset(u) \/ Mine(u) \/ Evict(u)
      PROVE  AccountsInv'
  <2>1. UNCHANGED <<orders, tx, pc, work, failures, disturbed>>
    BY <1>3 DEF vars, database, history, SetStrategy, RemoveStrategy, Broadcast, Spend, GrowOld,
                Sign, Expire, SplitAsset, Mine, Evict
  <2> QED
    BY <2>1, AccountsQuiet
<1>4. ASSUME \/ \E t \in Trades : DeleteTransaction(t)
             \/ \E o \in DOMAIN InitOrders : DeleteOrder(o)
      PROVE  AccountsInv'
  BY <1>1, <1>4, AccountsDisturbed DEF DeleteTransaction, DeleteOrder
<1>5. ASSUME QueryFailure \/ SaveFails PROVE AccountsInv'
  BY <1>1, <1>5, AccountsDisturbed DEF QueryFailure, SaveFails
<1>6. ASSUME TransactionFails PROVE AccountsInv'
  <2>1. CASE Clean
    BY <1>1, <1>6, <2>1, FailureCounts, AccountsDisturbed
  <2>2. CASE ~Clean
    <3>1. failures' >= failures /\ disturbed' = disturbed /\ failures \in Nat
      <4>1. MaxFailures \in Nat
        BY PendingAssumption, Zenon
      <4>2. failures \in Nat
        BY <1>1, <4>1 DEF WorldTyped
      <4> QED
        BY <1>6, <4>2 DEF TransactionFails, Fail
    <3>2. ~Clean'
      BY <2>2, <3>1 DEF Clean
    <3> QED
      BY <3>2 DEF AccountsInv
  <2> QED
    BY <2>1, <2>2
<1>7. ASSUME Restart PROVE FALSE
  BY <1>7 DEF Restart
<1>8. ASSUME Start \/ JobStep PROVE AccountsInv'
  BY <1>8, <1>5, <1>6, JobKeepsAccounts, ResetAccounts, RebalanceAccounts, SaveOrdersAccounts,
     SaveTransactionsAccounts, DeleteAccounts, NewOrdersAccounts, Zenon DEF JobStep
<1> QED
  BY <1>2, <1>3, <1>4, <1>5, <1>7, <1>8, Zenon DEF Next

LEMMA AccountsInit == Init => AccountsInv
<1> SUFFICES ASSUME Init PROVE AccountsInv
  OBVIOUS
<1>1. /\ orders = InitOrders /\ tx = NoRows /\ pc = "idle" /\ toUpdate = NoRows /\ txUpdate = NoRows
      /\ txDelete = {}
  BY DEF Init
<1>2. DOMAIN tx = {} /\ Live = {} /\ IsFiniteSet(DOMAIN tx)
  BY <1>1, FS_EmptySet DEF NoRows, Live
<1>3. CopiesInv
  BY <1>1 DEF CopiesInv, NoRows
<1>4. ASSUME NEW o \in DOMAIN InitOrders PROVE OrderAccounted(o) /\ CopyAccounted(o)
  <2>1. Taken(o) = SumFunctionOnSet(Amounts(o), Live)
    BY DEF Taken, Amounts, Live
  <2>2. Taken(o) = 0 /\ Deleted(o) = 0 /\ Partly(o) = 0
    BY <1>1, <1>2, <2>1, SumEmpty DEF Deleted, Partly
  <2>3. InitOrders[o].filled \in Nat
    BY PendingAssumption DEF OrderRow
  <2> QED
    BY <1>1, <2>2, <2>3 DEF OrderAccounted, CopyAccounted, NoRows
<1> QED
  BY <1>1, <1>2, <1>3, <1>4 DEF AccountsInv, Accounted

LEMMA AccountsInvariant == ASSUME ~CanRestart PROVE Spec => [](JobInv /\ TypesInv /\ AccountsInv)
<1>1. JobInv /\ TypesInv /\ AccountsInv /\ [Next]_vars => AccountsInv'
  BY AccountsNext
<1> QED
  BY <1>1, AccountsInit, TypesInvariant, PTL DEF Spec

(* Between two runs of the job the filled quantity of an order is what its *)
(* transactions take: of any number of transactions that fell through,     *)
(* were reset, closed or confirmed in one run each counts once.  The       *)
(* process must not stop within a run, whose saves are four transactions   *)
(* (pending-transactions.service.ts:64-98, 226-240).                       *)
THEOREM SettledFillsAreAccounted == ASSUME ~CanRestart PROVE Spec => []FillsAccounted
<1>1. AccountsInv => FillsAccounted
  BY DEF AccountsInv, Clean, Accounted, OrderAccounted, FillsAccounted
<1> QED
  BY <1>1, AccountsInvariant, PTL

(* The job closes an order only when the transactions that have not failed *)
(* take all of it (pending-transactions.service.ts:160-170).               *)
THEOREM ClosedOrdersAreTaken == ASSUME ~CanRestart PROVE Spec => ClosedOnlyWhenFull
<1>1. JobInv /\ TypesInv /\ AccountsInv /\ [Next]_vars =>
        [\A o \in DOMAIN orders \cap DOMAIN InitOrders :
           Closes(o) /\ failures = 0 /\ ~disturbed =>
             InitOrders[o].filled + Taken(o) = orders[o].quantity]_vars
  <2> SUFFICES ASSUME JobInv, TypesInv, AccountsInv, Next,
                      NEW o \in DOMAIN orders \cap DOMAIN InitOrders, Closes(o), Clean
               PROVE  InitOrders[o].filled + Taken(o) = orders[o].quantity
    BY DEF Clean
  <2>1. orders[o] \in OrderRow
    BY DEF TypesInv, OrdersTyped, IsOrderTable
  <2>2. CASE SaveOrders
    <3>1. pc = "orders" /\ orders' = Saved(orders, toUpdate)
      BY <2>2 DEF SaveOrders
    <3>2. o \in DOMAIN toUpdate /\ toUpdate[o].status = "closed" /\ orders[o].status = "open"
      BY <3>1 DEF Closes, Saved
    <3>3. CopyAccounted(o) /\ OrderAccounted(o)
      BY <3>1 DEF AccountsInv, Accounted
    <3> QED
      BY <3>1, <3>2, <3>3 DEF CopyAccounted, OrderAccounted
  <2>3. ASSUME NEW t \in Trades, Reserve(t) PROVE FALSE
    <3>1. PICK s \in Offers[t] : orders' = [k \in DOMAIN orders |->
                       [orders[k] EXCEPT !.filled = @ + AmountOf(s, k)]]
      BY <2>3 DEF Reserve
    <3> QED
      BY <2>1, <3>1 DEF Closes, OrderRow
  <2>4. ASSUME NEW t \in Trades, Cancel(t) PROVE FALSE
    <3>1. orders' = orders \/ orders'[o] = GivenBack(orders[o], AmountOf(tx[t].fills, o))
      BY <2>4 DEF Cancel
    <3> QED
      BY <2>1, <3>1 DEF Closes, GivenBack, OrderRow
  <2>5. ASSUME NEW k \in DOMAIN InitOrders, DeleteOrder(k) PROVE FALSE
    BY <2>5 DEF DeleteOrder, Without, Restrict, Closes
  <2>6. CASE SaveNewOrders
    <3>1. PICK ids \in kSubset(Cardinality(Kinds), Spares \ DOMAIN orders) :
          \E kindOf \in Bijection(ids, Kinds) :
            orders' = Saved(orders, [i \in ids |->
                     [type |-> kindOf[i].type, price |-> kindOf[i].price,
                      quantity |-> QuantityOf(kindOf[i]), filled |-> 0, status |-> "open"]])
      BY <2>6 DEF SaveNewOrders
    <3>2. o \notin ids
      BY DEF kSubset
    <3>3. orders'[o] = orders[o]
      BY <3>1, <3>2 DEF Saved
    <3> QED
      BY <3>3 DEF Closes
  <2>7. ASSUME orders' = orders PROVE FALSE
    BY <2>7 DEF Closes
  <2>8. ASSUME NEW t \in Trades,
               GrowOld(t) \/ Sign(t) \/ DeleteTransaction(t) \/ NextTransaction(t)
        PROVE  orders' = orders
    BY <2>8 DEF GrowOld, Sign, DeleteTransaction, NextTransaction, database
  <2>9. ASSUME NEW u \in Utxos, Expire(u) \/ SplitAsset(u) \/ Mine(u) \/ Evict(u)
        PROVE  orders' = orders
    BY <2>9 DEF Expire, SplitAsset, Spend, Mine, Evict, database
  <2>10. ASSUME \/ SetStrategy \/ RemoveStrategy \/ Broadcast \/ Start \/ QueryFailure \/ Restart
                \/ FindPendingAndConfirming \/ GetTipHeight \/ GetOutspend \/ TransactionFails
                \/ ResetOrder \/ GetConfig \/ ReadBook \/ RebalanceOrder \/ LoopEnds
                \/ SaveTransactions \/ DeleteTransactions \/ SaveFails
         PROVE  orders' = orders
    BY <2>10 DEF SetStrategy, RemoveStrategy, Broadcast, Spend, Start, QueryFailure, Restart,
         FindPendingAndConfirming, GetTipHeight, GetOutspend, TransactionFails, ResetOrder,
         GetConfig, ReadBook, RebalanceOrder, LoopEnds, SaveTransactions, DeleteTransactions,
         SaveFails, database
  <2>11. ASSUME JobStep PROVE InitOrders[o].filled + Taken(o) = orders[o].quantity
    BY <2>11, <2>2, <2>6, <2>7, <2>8, <2>10, Zenon DEF JobStep
  <2> QED
    BY <2>3, <2>4, <2>5, <2>7, <2>8, <2>9, <2>10, <2>11, Zenon DEF Next
<1> QED
  BY <1>1, AccountsInvariant, PTL DEF Spec, ClosedOnlyWhenFull
===============================================================================
