--------------------------- MODULE Execution_proofs ---------------------------
(***************************************************************************)
(* What holds of the event handler for every number of messages, trades,   *)
(* orders and outputs: the types, the bounds of the fills, the abstract    *)
(* reservation table, the lock, what success means, what is signed, the    *)
(* timeout, and that no reservation is forgotten.                          *)
(***************************************************************************)
EXTENDS Execution, TLAPS, FiniteSetTheorems, WellFoundedInduction

-------------------------------------------------------------------------------
(* Lemmas about the operators of the model.                                *)

(* Every nonempty set of naturals has a least member.                      *)
LEMMA LeastNat ==
  ASSUME NEW S \in SUBSET Nat, S # {}
  PROVE  \E x \in S : \A y \in S : x =< y
<1> DEFINE R == OpToRel(<, Nat)
<1>1. R = {ss \in Nat \X Nat : ss[1] < ss[2]}
  BY Zenon DEF OpToRel
<1>2. IsWellFoundedOn(R, Nat)
  BY NatLessThanWellFounded
<1> HIDE DEF R
<1>3. PICK x \in S : \A y \in S : ~(<<y, x>> \in R)
  BY <1>2, WFMin
<1>4. ASSUME NEW y \in S PROVE x =< y
  <2>1. ~(y < x)
    BY <1>1, <1>3
  <2>2. QED
    BY <2>1
<1>5. QED
  BY <1>4

(* Every nonempty set of numbers up to n has its greatest member as Max.   *)
LEMMA GreatestBelow ==
  ASSUME NEW n \in Nat, NEW S \in SUBSET (0..n), S # {}
  PROVE  Max(S) \in S
<1> DEFINE T == {n - x : x \in S}
<1>1. T \in SUBSET Nat /\ T # {}
  OBVIOUS
<1>2. PICK y \in T : \A z \in T : y =< z
  BY <1>1, LeastNat
<1>3. PICK x \in S : y = n - x
  OBVIOUS
<1>4. \A z \in S : x >= z
  <2> SUFFICES ASSUME NEW z \in S
               PROVE  x >= z
    OBVIOUS
  <2>1. n - x =< n - z
    BY <1>2, <1>3
  <2>2. QED
    BY <2>1
<1>5. QED
  BY <1>4 DEF Max

(* The amount of an order in a list is that of one of the list's entries.  *)
LEMMA LastAmountType ==
  ASSUME NEW fills \in Seq(OrderFill), NEW o \in OrdersOf(fills)
  PROVE  /\ LastAmount(fills, o) \in Int
         /\ \E i \in DOMAIN fills : fills[i].orderId = o /\ LastAmount(fills, o) = fills[i].amount
<1> DEFINE I == {i \in 1..Len(fills) : fills[i].orderId = o}
<1>1. Len(fills) \in Nat /\ I \subseteq 0..Len(fills) /\ I # {}
  BY DEF OrdersOf
<1>2. SelectLastInSeq(fills, LAMBDA f : f.orderId = o) = Max(I)
  BY <1>1 DEF SelectLastInSeq
<1>3. Max(I) \in I
  <2> HIDE DEF I
  <2> QED
    BY <1>1, GreatestBelow
<1>4. fills[Max(I)] \in OrderFill /\ Max(I) \in DOMAIN fills /\ fills[Max(I)].orderId = o
  BY <1>3
<1>5. QED
  BY <1>2, <1>4 DEF LastAmount, OrderFill

(* Giving an amount back keeps a fill between zero and what it was, unless *)
(* the amount is negative.                                                 *)
LEMMA DecreasedBounds ==
  ASSUME NEW f \in Int, NEW amount \in Int
  PROVE  /\ Decreased(f, amount) \in Int
         /\ f >= 0 /\ amount >= 0 => Decreased(f, amount) \in 0..f
BY DEF Decreased

(* The fields of a message.                                                *)
LEMMA MessageFields ==
  ASSUME NEW c \in Message
  PROVE  /\ c.tradeId \in Trades
         /\ c.orders \in Seq(OrderFill)
         /\ c.inputs \in SUBSET Utxos
BY DEF Message

(* A listing of outputs is a sequence of outputs.                          *)
LEMMA ListingsType ==
  ASSUME NEW S \in SUBSET Utxos, NEW rank, NEW s \in Listings(S, rank)
  PROVE  s \in Seq(Utxos)
<1>1. Cardinality(S) \in Nat
  BY ExecutionAssumption, FS_Subset, FS_CardinalityType
<1>2. s \in [1..Cardinality(S) -> S]
  BY DEF Listings
<1>3. QED
  BY <1>1, <1>2

(* A picked sequence is made of available outputs.                         *)
LEMMA PicksType ==
  ASSUME NEW S \in SUBSET Utxos, NEW amount, NEW type, NEW s \in Picks(S, amount, type)
  PROVE  /\ s \in Seq(Utxos)
         /\ Range(s) \subseteq S
<1>1. Cardinality(S) \in Nat
  BY ExecutionAssumption, FS_Subset, FS_CardinalityType
<1>2. PICK n \in 0..Cardinality(S) : s \in [1..n -> S]
  BY DEF Picks
<1>3. QED
  BY <1>1, <1>2 DEF Range

(* A row that is saved with its age is a row.                              *)
LEMMA DatedType ==
  ASSUME NEW t, NEW row, IsTransaction(row), \A k \in DOMAIN tx : IsTransaction(tx[k])
  PROVE  DOMAIN Dated(t, row) = {t} /\ IsTransaction(Dated(t, row)[t])
<1> DEFINE age == IF t \in DOMAIN tx THEN tx[t].age ELSE PROPAGATION
<1>1. age \in 0..PROPAGATION
  BY ExecutionAssumption DEF IsTransaction
<1>2. IsTransaction([row EXCEPT !.age = age])
  BY <1>1 DEF IsTransaction
<1>3. QED
  BY <1>2 DEF Dated, Entry

(* Saving a row leaves a table of rows.                                    *)
LEMMA RowSavedType ==
  ASSUME NEW t \in Trades, NEW row, IsTransaction(row),
         DOMAIN tx \subseteq Trades, \A k \in DOMAIN tx : IsTransaction(tx[k])
  PROVE  /\ DOMAIN Saved(tx, Dated(t, row)) \subseteq Trades
         /\ \A k \in DOMAIN Saved(tx, Dated(t, row)) :
              IsTransaction(Saved(tx, Dated(t, row))[k])
<1>1. DOMAIN Dated(t, row) = {t} /\ IsTransaction(Dated(t, row)[t])
  BY DatedType
<1>2. QED
  BY <1>1 DEF Saved

(* Saving fills leaves a table of fills.                                   *)
LEMMA SavedFilledType ==
  ASSUME NEW table, NEW rows,
         DOMAIN table \subseteq Orders, \A o \in DOMAIN table : table[o] \in Int,
         DOMAIN rows \subseteq Orders, \A o \in DOMAIN rows : rows[o] \in Int
  PROVE  /\ DOMAIN Saved(table, rows) \subseteq Orders
         /\ \A o \in DOMAIN Saved(table, rows) : Saved(table, rows)[o] \in Int
BY DEF Saved

-------------------------------------------------------------------------------
(* Types.                                                                  *)

(* Every step preserves the types, one step of the proof per action.       *)
LEMMA TypeStep == TypeOK /\ [Next]_vars => TypeOK'
<1> SUFFICES ASSUME TypeOK, [Next]_vars
             PROVE  TypeOK'
  OBVIOUS
<1> USE DEF TypeOK, MemoryTypeOK, DatabaseTypeOK, ControlTypeOK, LocalsTypeOK, WorldTypeOK,
            memory, database, locals, history, world, Goto, CancelGoto, Pcs, ReservePcs
<1>0. \A S \in SUBSET DOMAIN reserved : Lapses(S) => lapsed' \subseteq Trades \X Utxos
  <2> SUFFICES ASSUME NEW S \in SUBSET DOMAIN reserved, Lapses(S), NEW u \in S
               PROVE  reserved[u].tradeId \in Trades /\ u \in Utxos
    BY DEF Lapses
  <2> QED
    BY DEF IsReservation
<1>1. ASSUME NEW m \in Messages, ReceiveReserve(m) PROVE TypeOK'
  <2>1. PICK c \in Content[m] : c.type = "reserve_request" /\ msg' = [msg EXCEPT ![m] = c]
    BY <1>1 DEF ReceiveReserve, Receive
  <2>2. c \in Message /\ c.orders # <<>>
    BY <2>1, ExecutionAssumption
  <2>3. c.tradeId \in Trades /\ 1 \in DOMAIN c.orders
    BY <2>2, MessageFields
  <2>4. ControlTypeOK'
    BY <1>1, <2>1, <2>2 DEF ReceiveReserve, Receive
  <2>5. LocalsTypeOK'
    BY <1>1, <2>1, <2>2, <2>3 DEF ReceiveReserve, Receive
  <2>6. QED
    BY <1>1, <2>1, <2>3, <2>4, <2>5 DEF ReceiveReserve, Receive
<1>2. ASSUME NEW m \in Messages, ReceiveCancel(m) PROVE TypeOK'
  <2>1. HeldBy(msg'[m].tradeId) \subseteq DOMAIN reserved
    BY DEF HeldBy
  <2>2. Lapses(HeldBy(msg'[m].tradeId))
    BY <1>2 DEF ReceiveCancel, CancelNow
  <2>3. MemoryTypeOK' /\ WorldTypeOK'
    BY <1>0, <1>2, <2>1, <2>2 DEF ReceiveCancel, CancelNow, WithoutTrade, Restrict
  <2>4. ControlTypeOK' /\ LocalsTypeOK' /\ DatabaseTypeOK'
    BY <1>2, ExecutionAssumption DEF ReceiveCancel, Receive, CancelNow
  <2> QED
    BY <2>3, <2>4
<1>3. ASSUME NEW m \in Messages, ReceiveSign(m) PROVE TypeOK'
  BY <1>3, ExecutionAssumption DEF ReceiveSign, Receive
<1>4. ASSUME NEW m \in Messages, ReadOrder(m) PROVE TypeOK'
  <2> DEFINE fill == msg[m].orders[next[m]]
  <2>1. /\ msg[m].orders \in Seq(OrderFill)
        /\ next[m] \in 1..Len(msg[m].orders)
    BY <1>4, MessageFields DEF ReadOrder, MoreOrders
  <2>2. fill.amount \in Int
    <3>1. fill \in OrderFill
      BY <2>1
    <3>2. QED
      BY <3>1 DEF OrderFill
  <2>3. /\ DOMAIN snap'[m] \subseteq Orders
        /\ \A o \in DOMAIN snap'[m] : snap'[m][o] \in Int
    BY <1>4, <2>2 DEF ReadOrder, Saved, Entry
  <2>4. pc'[m] = "read" => next'[m] \in DOMAIN msg[m].orders
    <3>1. CASE next[m] < Len(msg[m].orders)
      <4>1. next[m] + 1 \in 1..Len(msg[m].orders)
        BY <2>1, <3>1
      <4>2. next'[m] = next[m] + 1
        BY <1>4, <3>1 DEF ReadOrder, MoreOrders
      <4>3. QED
        BY <2>1, <4>1, <4>2
    <3>2. CASE ~(next[m] < Len(msg[m].orders))
      BY <1>4, <3>2 DEF ReadOrder, MoreOrders
    <3>3. QED
      BY <3>1, <3>2
  <2>5. \A n \in Messages \ {m} : snap'[n] = snap[n] /\ next'[n] = next[n] /\ pc'[n] = pc[n]
    BY <1>4 DEF ReadOrder, MoreOrders
  <2>6. LocalsTypeOK'
    BY <1>4, <2>3, <2>4, <2>5 DEF ReadOrder, MoreOrders
  <2>7. QED
    BY <1>4, <2>6 DEF ReadOrder, MoreOrders
<1>5. ASSUME NEW m \in Messages, UseSurplus(m) PROVE TypeOK'
  BY <1>5, ListingsType DEF UseSurplus, HeldInOrder, HeldBy
<1>6. ASSUME NEW m \in Messages, ListUtxos(m) PROVE TypeOK'
  <2>1. msg[m].orders \in Seq(OrderFill) /\ msg[m].orders # <<>>
    BY <1>6, MessageFields DEF ListUtxos
  <2>2. TypeOf(msg[m].orders) \in {"ask", "bid"}
    <3>1. msg[m].orders[1] \in OrderFill
      BY <2>1
    <3>2. msg[m].orders[1].orderId \in Orders
      BY <3>1 DEF OrderFill
    <3>3. QED
      BY <3>2, ExecutionAssumption DEF TypeOf
  <2>3. Source[TypeOf(msg[m].orders)] \subseteq Utxos
    BY <2>2, ExecutionAssumption
  <2>4. QED
    BY <1>6, <2>3 DEF ListUtxos
<1>7. ASSUME NEW m \in Messages, TakeUtxos(m) PROVE TypeOK'
  <2> DEFINE amount == Required(msg[m].orders)
  <2>1. PICK s \in Picks(Available(m), amount, TypeOf(msg[m].orders)) :
          /\ reserved' = WithPick(TradeOf(m), s, amount)
          /\ taken' = [taken EXCEPT ![m] = s]
    BY <1>7 DEF TakeUtxos
  <2>2. Available(m) \in SUBSET Utxos
    BY DEF Available
  <2>3. s \in Seq(Utxos) /\ Range(s) \subseteq Utxos
    <3> HIDE DEF amount
    <3>1. s \in Seq(Utxos) /\ Range(s) \subseteq Available(m)
      BY <2>1, <2>2, PicksType
    <3> QED
      BY <2>2, <3>1
  <2>4. TradeOf(m) \in Trades
    BY <1>7, MessageFields DEF TakeUtxos, TradeOf
  <2>5. MemoryTypeOK'
    BY <1>7, <2>1, <2>3, <2>4, ExecutionAssumption DEF TakeUtxos, WithPick, IsReservation
  <2>6. QED
    BY <1>7, <2>1, <2>3, <2>5 DEF TakeUtxos
<1>8. ASSUME NEW m \in Messages, FindTransaction(m) PROVE TypeOK'
  BY <1>8 DEF FindTransaction
<1>9. ASSUME NEW m \in Messages, InsertTransaction(m) PROVE TypeOK'
  <2>1. WorldTypeOK'
    BY <1>9 DEF InsertTransaction, Overwrites
  <2>2. DatabaseTypeOK'
    BY <1>9, MessageFields, ExecutionAssumption DEF InsertTransaction, Saved, Entry,
       NewTransaction, TradeOf, IsTransaction, Statuses
  <2> QED
    BY <1>9, <2>1, <2>2 DEF InsertTransaction
<1>10. ASSUME NEW m \in Messages, UpdateTransaction(m) PROVE TypeOK'
  <2>1. PICK new \in NewOutputs(seen[m].reservedUtxos, taken[m]) :
          tx' = Saved(tx, Dated(TradeOf(m), ExtendedTransaction(m, new)))
    BY <1>10 DEF UpdateTransaction
  <2>2. new \in Seq(Utxos)
    <3> DEFINE S == Range(taken[m]) \ Range(seen[m].reservedUtxos)
    <3>1. S \in SUBSET Utxos
      BY DEF Range
    <3>2. QED
      BY <2>1, <3>1, ListingsType DEF NewOutputs
  <2>3. IsTransaction(seen[m]) /\ TradeOf(m) \in Trades /\ msg[m].orders \in Seq(OrderFill)
    BY <1>10, MessageFields DEF UpdateTransaction, TradeOf
  <2>4. IsTransaction(ExtendedTransaction(m, new))
    BY <2>2, <2>3 DEF ExtendedTransaction, IsTransaction
  <2>5. DatabaseTypeOK'
    BY <1>10, <2>1, <2>3, <2>4, RowSavedType, SavedFilledType DEF UpdateTransaction
  <2>6. WorldTypeOK'
    BY <1>10 DEF UpdateTransaction, Overwrites
  <2>7. QED
    BY <1>10, <2>5, <2>6 DEF UpdateTransaction
<1>11. ASSUME NEW m \in Messages, PublishSuccess(m) PROVE TypeOK'
  BY <1>11 DEF PublishSuccess, Unlock
<1>12. ASSUME NEW m \in Messages, PublishFails(m) PROVE TypeOK'
  BY <1>12 DEF PublishFails, Unlock
<1>13. ASSUME NEW m \in Messages, ReserveFails(m) PROVE TypeOK'
  <2>1. HeldBy(TradeOf(m)) \subseteq DOMAIN reserved
    BY DEF HeldBy
  <2>2. Lapses(HeldBy(TradeOf(m)))
    BY <1>13 DEF ReserveFails, CancelNow
  <2>3. MemoryTypeOK' /\ WorldTypeOK'
    BY <1>0, <1>13, <2>1, <2>2 DEF ReserveFails, Unlock, CancelNow, WithoutTrade, Restrict
  <2>4. ControlTypeOK' /\ LocalsTypeOK' /\ DatabaseTypeOK'
    BY <1>13 DEF ReserveFails, CancelNow
  <2> QED
    BY <2>3, <2>4
<1>14. ASSUME NEW m \in Messages, PublishError(m) PROVE TypeOK'
  BY <1>14 DEF PublishError
<1>15. ASSUME NEW m \in Messages, CancelFindTransaction(m) PROVE TypeOK'
  BY <1>15 DEF CancelFindTransaction
<1>16. ASSUME NEW m \in Messages, CancelFindOrders(m) PROVE TypeOK'
  <2>1. seen[m].orders \in Seq(OrderFill)
    BY <1>16 DEF CancelFindOrders, IsTransaction
  <2>2. \A o \in OrdersOf(seen[m].orders) \cap DOMAIN filled :
          Decreased(filled[o], LastAmount(seen[m].orders, o)) \in Int
    <3> SUFFICES ASSUME NEW o \in OrdersOf(seen[m].orders) \cap DOMAIN filled
                 PROVE  Decreased(filled[o], LastAmount(seen[m].orders, o)) \in Int
      OBVIOUS
    <3>1. LastAmount(seen[m].orders, o) \in Int
      BY <2>1, LastAmountType
    <3>2. QED
      BY <3>1, DecreasedBounds
  <2>3. QED
    BY <1>16, <2>2 DEF CancelFindOrders, GivenBack
<1>17. ASSUME NEW m \in Messages, CancelSave(m) PROVE TypeOK'
  <2>1. IsTransaction([seen[m] EXCEPT !.status = "errored"]) /\ TradeOf(m) \in Trades
    BY <1>17, MessageFields DEF CancelSave, IsTransaction, Statuses, TradeOf
  <2>2. DatabaseTypeOK'
    BY <1>17, <2>1, RowSavedType, SavedFilledType DEF CancelSave
  <2>3. WorldTypeOK'
    BY <1>17 DEF CancelSave, Overwrites
  <2>4. QED
    BY <1>17, <2>2, <2>3 DEF CancelSave
<1>18. ASSUME NEW m \in Messages, CancelFails(m) PROVE TypeOK'
  BY <1>18 DEF CancelFails
<1>19. ASSUME NEW m \in Messages, ValidatePsbt(m) \/ SignFails(m) PROVE TypeOK'
  BY <1>19 DEF ValidatePsbt, SignFails
<1>20. ASSUME NEW m \in Messages, SendSignature(m) PROVE TypeOK'
  <2>1. [tradeId |-> TradeOf(m), inputs |-> msg[m].inputs]
          \in [tradeId : Trades, inputs : SUBSET Utxos]
    BY <1>20, MessageFields DEF SendSignature, TradeOf
  <2>2. QED
    BY <1>20, <2>1 DEF SendSignature
<1>21. CASE Tick
  <2>1. \A u \in DOMAIN reserved' : IsReservation(reserved'[u])
    <3> SUFFICES ASSUME NEW u \in DOMAIN reserved
                 PROVE  IsReservation([reserved[u] EXCEPT !.age = Older(@, TIMEOUT + CLEANUP_INTERVAL)])
      BY <1>21 DEF Tick
    <3> QED
      BY ExecutionAssumption DEF IsReservation, Older
  <2>2. \A t \in DOMAIN tx' : IsTransaction(tx'[t])
    <3> SUFFICES ASSUME NEW t \in DOMAIN tx
                 PROVE  IsTransaction([tx[t] EXCEPT !.age = Older(@, PROPAGATION)])
      BY <1>21 DEF Tick
    <3> QED
      BY ExecutionAssumption DEF IsTransaction, Older
  <2>3. sinceCleanup' \in 0..CLEANUP_INTERVAL
    BY <1>21, ExecutionAssumption DEF Tick
  <2>4. QED
    BY <1>21, <2>1, <2>2, <2>3 DEF Tick
<1>22. CASE CleanupExpiredReservations
  <2> DEFINE S == {u \in DOMAIN reserved : Expired(reserved[u].age)}
  <2>1. Lapses(S) /\ S \in SUBSET DOMAIN reserved
    BY <1>22 DEF CleanupExpiredReservations
  <2>2. lapsed' \subseteq Trades \X Utxos
    <3> HIDE DEF S
    <3> QED
      BY <1>0, <2>1
  <2>3. MemoryTypeOK'
    BY <1>22 DEF CleanupExpiredReservations, RestrictDomain, Restrict
  <2>4. sinceCleanup' \in 0..CLEANUP_INTERVAL
    BY <1>22, ExecutionAssumption DEF CleanupExpiredReservations
  <2> HIDE DEF S
  <2>5. WorldTypeOK'
    BY <1>22, <2>2, <2>4 DEF CleanupExpiredReservations
  <2>6. DatabaseTypeOK' /\ ControlTypeOK' /\ LocalsTypeOK'
    BY <1>22 DEF CleanupExpiredReservations
  <2> QED
    BY <2>3, <2>5, <2>6
<1>23. CASE Restart
  BY <1>0, <1>23, ExecutionAssumption DEF Restart
<1>24. ASSUME NEW o \in Orders, DeleteOrder(o) PROVE TypeOK'
  BY <1>24 DEF DeleteOrder, Restrict
<1>25. CASE Broadcast
  BY <1>25 DEF Broadcast
<1>26. CASE UNCHANGED vars
  BY <1>26 DEF vars
<1>27. QED
  BY <1>1, <1>2, <1>3, <1>4, <1>5, <1>6, <1>7, <1>8, <1>9, <1>10,
     <1>11, <1>12, <1>13, <1>14, <1>15, <1>16, <1>17, <1>18, <1>19, <1>20,
     <1>21, <1>22, <1>23, <1>24, <1>25, <1>26
     DEF Next, ReserveStep, CancelStep, SignStep

(* The types hold initially.                                               *)
LEMMA TypeInit == Init => TypeOK
<1> SUFFICES ASSUME Init
         PROVE  TypeOK
  OBVIOUS
<1> USE ExecutionAssumption DEF Init
<1>1. MemoryTypeOK
  BY DEF MemoryTypeOK
<1>2. DatabaseTypeOK
  BY DEF DatabaseTypeOK
<1>3. ControlTypeOK
  BY DEF ControlTypeOK, Pcs
<1>4. LocalsTypeOK
  BY DEF LocalsTypeOK, ReservePcs
<1>5. WorldTypeOK
  BY DEF WorldTypeOK
<1>6. QED
  BY <1>1, <1>2, <1>3, <1>4, <1>5 DEF TypeOK

(* The variables have their types in every reachable state, whatever the   *)
(* constants.                                                              *)
THEOREM TypeCorrect == Spec => []TypeOK
<1>1. QED
  BY TypeInit, TypeStep, PTL DEF Spec

-------------------------------------------------------------------------------
(* Messages stay.                                                          *)

(* A message that has come is not forgotten and does not change, and what  *)
(* has been cancelled or reserved repeatedly stays so.                     *)
LEMMA MessagesStay ==
  ASSUME TypeOK, [Next]_vars
  PROVE  /\ \A m \in Messages : pc[m] # "idle" => pc'[m] # "idle" /\ msg'[m] = msg[m]
         /\ \A t : Cancelled(t) => Cancelled(t)'
         /\ \A t : Repeated(t) => Repeated(t)'
         /\ NoNegativeAmount' => NoNegativeAmount
<1> USE DEF Goto
<1>0. pc \in [Messages -> Pcs] /\ DOMAIN msg = Messages
  BY DEF TypeOK, ControlTypeOK
<1> DEFINE Stay == \A m \in Messages : pc[m] # "idle" => pc'[m] # "idle" /\ msg'[m] = msg[m]
<1>1. ASSUME NEW m \in Messages, ReceiveReserve(m) \/ ReceiveCancel(m) \/ ReceiveSign(m)
      PROVE  Stay
  BY <1>0, <1>1 DEF ReceiveReserve, ReceiveCancel, ReceiveSign, Receive
<1>2. ASSUME NEW m \in Messages, ReserveStep(m) PROVE Stay
  BY <1>0, <1>2 DEF ReserveStep, ReadOrder, UseSurplus, ListUtxos, TakeUtxos, FindTransaction,
     InsertTransaction, UpdateTransaction, PublishSuccess, PublishFails, ReserveFails, PublishError
<1>3. ASSUME NEW m \in Messages, CancelStep(m) PROVE Stay
  BY <1>3 DEF CancelStep, CancelFindTransaction, CancelFindOrders, CancelSave, CancelFails
<1>4. ASSUME NEW m \in Messages, SignStep(m) PROVE Stay
  BY <1>0, <1>4 DEF SignStep, ValidatePsbt, SendSignature, SignFails
<1>5. ASSUME \/ Tick \/ CleanupExpiredReservations \/ Restart \/ Broadcast
             \/ (\E o \in Orders : DeleteOrder(o)) \/ UNCHANGED vars
      PROVE  Stay
  <2>1. UNCHANGED msg /\ (UNCHANGED pc \/ Restart)
    BY <1>5 DEF Tick, CleanupExpiredReservations, Restart, Broadcast, DeleteOrder, vars
  <2>2. \A m \in Messages : pc[m] # "idle" => pc'[m] # "idle"
    BY <1>0, <2>1 DEF Restart
  <2> QED
    BY <2>1, <2>2
<1>6. Stay
  BY <1>1, <1>2, <1>3, <1>4, <1>5 DEF Next
<1>7. \A t : Cancelled(t) => Cancelled(t)'
  BY <1>6 DEF Cancelled, TradeOf
<1>8. \A t : Repeated(t) => Repeated(t)'
  BY <1>6 DEF Repeated, Reserves, TradeOf
<1>9. NoNegativeAmount' => NoNegativeAmount
  BY <1>6 DEF NoNegativeAmount
<1> QED
  BY <1>6, <1>7, <1>8, <1>9

-------------------------------------------------------------------------------
(* FillBounds.  What makes it inductive is that every row a handler means  *)
(* to save is within bounds, however stale the row has become, and that no *)
(* amount written down is negative as long as none was asked for.          *)

NonNegative(fills) == \A i \in DOMAIN fills : fills[i].amount >= 0

StoredBounds == \A o \in DOMAIN filled : filled[o] \in 0..Quantity[o]

(* The rows a handler is about to save.                                    *)
SnapBounds == \A m \in Messages : \A o \in DOMAIN snap[m] : snap[m][o] \in 0..Quantity[o]

(* The amounts of the rows in the table and of those that were loaded.     *)
RowAmounts == \A t \in DOMAIN tx : NonNegative(tx[t].orders)
SeenAmounts ==
  \A m \in Messages :
    pc[m] = "update" \/ cpc[m] \in {"orders", "save"} => NonNegative(seen[m].orders)

FillParts == StoredBounds /\ SnapBounds /\ RowAmounts /\ SeenAmounts
FillInv == TypeOK /\ (NoNegativeAmount => FillParts)

(* Saving rows that are within bounds leaves a table within bounds.        *)
LEMMA SavedBounds ==
  ASSUME NEW table, NEW rows,
         \A o \in DOMAIN table : table[o] \in 0..Quantity[o],
         \A o \in DOMAIN rows : rows[o] \in 0..Quantity[o]
  PROVE  \A o \in DOMAIN Saved(table, rows) : Saved(table, rows)[o] \in 0..Quantity[o]
BY DEF Saved

(* A row that is saved with its age keeps its orders.                      *)
LEMMA SavedAmounts ==
  ASSUME NEW t, NEW row, IsTransaction(row), NonNegative(row.orders), RowAmounts,
         tx' = Saved(tx, Dated(t, row))
  PROVE  RowAmounts'
<1>1. /\ DOMAIN Dated(t, row) = {t}
      /\ Dated(t, row)[t].orders = row.orders
  BY DEF Dated, Entry, IsTransaction
<1> QED
  BY <1>1 DEF Saved, RowAmounts

(* What two lists ask for is asked for by their concatenation.             *)
LEMMA AppendedAmounts ==
  ASSUME NEW s \in Seq(OrderFill), NEW t \in Seq(OrderFill), NonNegative(s), NonNegative(t)
  PROVE  NonNegative(s \o t)
<1>1. /\ Len(s) \in Nat /\ Len(t) \in Nat /\ DOMAIN s = 1..Len(s) /\ DOMAIN t = 1..Len(t)
      /\ DOMAIN (s \o t) = 1..(Len(s) + Len(t))
      /\ \A i \in 1..(Len(s) + Len(t)) :
           (s \o t)[i] = IF i =< Len(s) THEN s[i] ELSE t[i - Len(s)]
  OBVIOUS
<1> SUFFICES ASSUME NEW i \in 1..(Len(s) + Len(t)) PROVE (s \o t)[i].amount >= 0
  BY <1>1 DEF NonNegative
<1>2. CASE i =< Len(s)
  BY <1>1, <1>2 DEF NonNegative
<1>3. CASE ~ (i =< Len(s))
  <2>1. i - Len(s) \in DOMAIN t
    BY <1>1, <1>3
  <2> QED
    BY <1>1, <1>3, <2>1 DEF NonNegative
<1> QED
  BY <1>2, <1>3

(* Every step keeps the stored and the snapshotted fills within bounds.    *)
LEMMA FillStep == FillInv /\ [Next]_vars => FillInv'
<1> SUFFICES ASSUME FillInv, [Next]_vars, NoNegativeAmount, NoNegativeAmount'
             PROVE  FillParts'
  <2>1. ASSUME FillInv, [Next]_vars PROVE TypeOK' /\ (NoNegativeAmount' => NoNegativeAmount)
    BY <2>1, TypeStep, MessagesStay DEF FillInv
  <2> QED
    BY <2>1 DEF FillInv
<1>0. /\ TypeOK /\ TypeOK' /\ StoredBounds /\ SnapBounds /\ RowAmounts /\ SeenAmounts
      /\ pc \in [Messages -> Pcs] /\ DOMAIN msg = Messages /\ DOMAIN seen = Messages
      /\ cpc \in [Messages -> {"none", "tx", "orders", "save", "done"}]
  BY TypeStep DEF FillInv, FillParts, TypeOK, ControlTypeOK, LocalsTypeOK
<1> USE DEF database, locals, Goto, CancelGoto
<1>1. ASSUME NEW m \in Messages, ReadOrder(m)
      PROVE  FillParts'
  <2> DEFINE fill == msg[m].orders[next[m]]
             o == fill.orderId
  <2>1. fill \in OrderFill /\ fill.amount >= 0
    <3>1. /\ msg[m].orders \in Seq(OrderFill) /\ next[m] \in DOMAIN msg[m].orders
          /\ pc[m] # "idle"
      BY <1>0, <1>1, MessageFields DEF ReadOrder, TypeOK, ControlTypeOK, LocalsTypeOK
    <3>2. QED
      BY <3>1 DEF NoNegativeAmount
  <2>2. o \in DOMAIN filled /\ fill.amount \in Int /\ o \in Orders /\ Quantity[o] \in Nat
    BY <1>1, <2>1, ExecutionAssumption DEF ReadOrder, OrderFill
  <2>3. filled[o] + fill.amount \in 0..Quantity[o]
    <3>1. filled[o] \in 0..Quantity[o]
      BY <1>0, <2>2 DEF StoredBounds
    <3>2. filled[o] + fill.amount =< Quantity[o]
      BY <1>1 DEF ReadOrder, WithinQuantity
    <3> QED
      BY <2>1, <2>2, <3>1, <3>2
  <2>4. \A k \in DOMAIN Entry(o, filled[o] + fill.amount) :
          Entry(o, filled[o] + fill.amount)[k] \in 0..Quantity[k]
    BY <2>3 DEF Entry
  <2>5. \A k \in DOMAIN Saved(snap[m], Entry(o, filled[o] + fill.amount)) :
          Saved(snap[m], Entry(o, filled[o] + fill.amount))[k] \in 0..Quantity[k]
    BY <1>0, <2>4, SavedBounds DEF SnapBounds
  <2>6. SnapBounds'
    BY <1>0, <1>1, <2>5 DEF ReadOrder, TypeOK, LocalsTypeOK, SnapBounds
  <2>7. UNCHANGED <<filled, tx, seen, cpc>> /\ \A n \in Messages : pc'[n] = "update" => pc[n] = "update"
    BY <1>0, <1>1 DEF ReadOrder
  <2> QED
    BY <1>0, <2>6, <2>7 DEF FillParts, StoredBounds, RowAmounts, SeenAmounts
<1>2. ASSUME NEW m \in Messages, InsertTransaction(m)
      PROVE  FillParts'
  <2>1. StoredBounds'
    BY <1>0, <1>2, SavedBounds DEF InsertTransaction, StoredBounds, SnapBounds
  <2>2. NonNegative(msg[m].orders)
    BY <1>2 DEF InsertTransaction, NoNegativeAmount, NonNegative
  <2>3. RowAmounts'
    BY <1>0, <1>2, <2>2 DEF InsertTransaction, RowAmounts, Saved, Entry, NewTransaction
  <2>4. /\ UNCHANGED <<snap, seen, cpc>>
        /\ \A n \in Messages : pc'[n] = "update" => pc[n] = "update"
    BY <1>0, <1>2 DEF InsertTransaction
  <2> QED
    BY <1>0, <2>1, <2>3, <2>4 DEF FillParts, SnapBounds, SeenAmounts
<1>3. ASSUME NEW m \in Messages, UpdateTransaction(m)
      PROVE  FillParts'
  <2>1. StoredBounds'
    BY <1>0, <1>3, SavedBounds DEF UpdateTransaction, StoredBounds, SnapBounds
  <2>2. PICK new \in NewOutputs(seen[m].reservedUtxos, taken[m]) :
          tx' = Saved(tx, Dated(TradeOf(m), ExtendedTransaction(m, new)))
    BY <1>3 DEF UpdateTransaction
  <2>3. /\ pc[m] = "update" /\ IsTransaction(seen[m]) /\ msg[m].orders \in Seq(OrderFill)
        /\ taken[m] \in Seq(Utxos)
    BY <1>0, <1>3, MessageFields DEF UpdateTransaction, TypeOK, ControlTypeOK, LocalsTypeOK
  <2>4. new \in Seq(Utxos)
    <3> DEFINE S == Range(taken[m]) \ Range(seen[m].reservedUtxos)
    <3>1. S \in SUBSET Utxos
      BY <2>3 DEF Range
    <3>2. QED
      BY <2>2, <3>1, ListingsType DEF NewOutputs
  <2>5. IsTransaction(ExtendedTransaction(m, new))
        /\ ExtendedTransaction(m, new).orders = seen[m].orders \o msg[m].orders
    <3>1. IsTransaction(ExtendedTransaction(m, new))
      BY <2>3, <2>4 DEF ExtendedTransaction, IsTransaction
    <3>2. DOMAIN seen[m] = {"status", "type", "orders", "amount", "satsAmount", "reservedUtxos", "age"}
      BY <2>3 DEF IsTransaction
    <3>3. ExtendedTransaction(m, new).orders = seen[m].orders \o msg[m].orders
      BY <3>2 DEF ExtendedTransaction
    <3> QED
      BY <3>1, <3>3
  <2>6. NonNegative(ExtendedTransaction(m, new).orders)
    <3>1. NonNegative(seen[m].orders) /\ NonNegative(msg[m].orders)
      BY <1>0, <2>3 DEF SeenAmounts, NoNegativeAmount, NonNegative
    <3>2. seen[m].orders \in Seq(OrderFill)
      BY <2>3 DEF IsTransaction
    <3> QED
      BY <2>3, <2>5, <3>1, <3>2, AppendedAmounts
  <2>7. RowAmounts'
    BY <1>0, <2>2, <2>5, <2>6, SavedAmounts
  <2>8. /\ UNCHANGED <<snap, seen, cpc>>
        /\ \A n \in Messages : pc'[n] = "update" => pc[n] = "update"
    BY <1>0, <1>3 DEF UpdateTransaction
  <2> QED
    BY <1>0, <2>1, <2>7, <2>8 DEF FillParts, SnapBounds, SeenAmounts
<1>4. ASSUME NEW m \in Messages, CancelFindOrders(m)
      PROVE  FillParts'
  <2> DEFINE fills == seen[m].orders
  <2>1. fills \in Seq(OrderFill) /\ NonNegative(fills)
    BY <1>0, <1>4 DEF CancelFindOrders, IsTransaction, TypeOK, LocalsTypeOK, SeenAmounts
  <2>2. ASSUME NEW o \in OrdersOf(fills) \cap DOMAIN filled
        PROVE  Decreased(filled[o], LastAmount(fills, o)) \in 0..Quantity[o]
    <3>1. LastAmount(fills, o) \in Int /\ LastAmount(fills, o) >= 0
      <4> HIDE DEF fills
      <4> QED
        BY <2>1, LastAmountType DEF NonNegative
    <3>2. filled[o] \in 0..Quantity[o] /\ Quantity[o] \in Nat
      BY <1>0, ExecutionAssumption DEF TypeOK, DatabaseTypeOK, StoredBounds
    <3>3. QED
      BY <3>1, <3>2, DecreasedBounds
  <2>3. snap' = [snap EXCEPT ![m] = GivenBack(fills)]
    BY <1>4 DEF CancelFindOrders
  <2>4. SnapBounds'
    <3>1. \A o \in DOMAIN GivenBack(fills) : GivenBack(fills)[o] \in 0..Quantity[o]
      BY <2>2 DEF GivenBack
    <3> QED
      BY <1>0, <2>3, <3>1 DEF SnapBounds, TypeOK, LocalsTypeOK
  <2>5. UNCHANGED <<filled, tx, seen, pc>> /\ cpc[m] = "orders"
        /\ \A n \in Messages \ {m} : cpc'[n] = cpc[n]
    BY <1>0, <1>4 DEF CancelFindOrders
  <2> QED
    BY <1>0, <2>1, <2>4, <2>5 DEF FillParts, StoredBounds, RowAmounts, SeenAmounts
<1>5. ASSUME NEW m \in Messages, CancelSave(m)
      PROVE  FillParts'
  <2>1. StoredBounds'
    BY <1>0, <1>5, SavedBounds DEF CancelSave, StoredBounds, SnapBounds
  <2>2. IsTransaction(seen[m]) /\ NonNegative(seen[m].orders)
    BY <1>0, <1>5 DEF CancelSave, TypeOK, LocalsTypeOK, SeenAmounts
  <2>3. /\ IsTransaction([seen[m] EXCEPT !.status = "errored"])
        /\ [seen[m] EXCEPT !.status = "errored"].orders = seen[m].orders
    BY <2>2 DEF IsTransaction, Statuses
  <2>4. RowAmounts'
    <3> DEFINE row == [seen[m] EXCEPT !.status = "errored"]
    <3>1. tx' = Saved(tx, Dated(TradeOf(m), row)) /\ IsTransaction(row) /\ NonNegative(row.orders)
      BY <1>5, <2>2, <2>3 DEF CancelSave
    <3> HIDE DEF row
    <3> QED
      BY <1>0, <3>1, SavedAmounts
  <2>5. UNCHANGED <<snap, seen, pc>> /\ \A n \in Messages \ {m} : cpc'[n] = cpc[n]
    BY <1>0, <1>5 DEF CancelSave
  <2>6. cpc[m] = "save" /\ cpc'[m] = "done"
    BY <1>0, <1>5 DEF CancelSave
  <2> QED
    BY <1>0, <2>1, <2>4, <2>5, <2>6 DEF FillParts, SnapBounds, SeenAmounts
<1>6. ASSUME NEW o \in Orders, DeleteOrder(o)
      PROVE  FillParts'
  BY <1>0, <1>6 DEF DeleteOrder, Restrict, FillParts, StoredBounds, SnapBounds, RowAmounts, SeenAmounts
<1>7. ASSUME NEW m \in Messages, FindTransaction(m) \/ CancelFindTransaction(m)
      PROVE  FillParts'
  <2>1. UNCHANGED <<filled, tx, snap>>
        /\ \A n \in Messages \ {m} : pc'[n] = pc[n] /\ cpc'[n] = cpc[n] /\ seen'[n] = seen[n]
    BY <1>0, <1>7 DEF FindTransaction, CancelFindTransaction
  <2>2. pc'[m] = "update" \/ cpc'[m] \in {"orders", "save"} => NonNegative(seen'[m].orders)
    <3>1. \/ seen'[m] = seen[m] /\ (pc'[m] = "update" => pc[m] = "update")
             /\ (cpc'[m] \in {"orders", "save"} => cpc[m] \in {"orders", "save"})
          \/ TradeOf(m) \in DOMAIN tx /\ seen'[m] = tx[TradeOf(m)]
      BY <1>0, <1>7 DEF FindTransaction, CancelFindTransaction
    <3> QED
      BY <1>0, <3>1 DEF RowAmounts, SeenAmounts
  <2> QED
    BY <1>0, <2>1, <2>2 DEF FillParts, StoredBounds, SnapBounds, RowAmounts, SeenAmounts
<1>8. ASSUME NEW m \in Messages,
             \/ ReceiveReserve(m) \/ ReceiveCancel(m) \/ ReceiveSign(m) \/ SignStep(m)
             \/ UseSurplus(m) \/ ListUtxos(m) \/ TakeUtxos(m)
             \/ PublishSuccess(m) \/ PublishFails(m) \/ ReserveFails(m) \/ PublishError(m)
             \/ CancelFails(m)
      PROVE  FillParts'
  <2>1. UNCHANGED <<filled, tx, snap, seen>>
    BY <1>8 DEF ReceiveReserve, ReceiveCancel, ReceiveSign, SignStep, ValidatePsbt,
       SendSignature, SignFails, UseSurplus, ListUtxos, TakeUtxos,
       PublishSuccess, PublishFails, ReserveFails, PublishError, CancelFails
  <2>2. \A n \in Messages : /\ pc'[n] = "update" => pc[n] = "update"
                            /\ cpc'[n] \in {"orders", "save"} => cpc[n] \in {"orders", "save"}
    <3>1. CASE ReceiveReserve(m) \/ ReceiveCancel(m) \/ ReceiveSign(m) \/ SignStep(m)
      BY <1>0, <3>1 DEF ReceiveReserve, ReceiveCancel, ReceiveSign, SignStep, ValidatePsbt,
         SendSignature, SignFails, CancelNow
    <3>2. CASE ~ (ReceiveReserve(m) \/ ReceiveCancel(m) \/ ReceiveSign(m) \/ SignStep(m))
      BY <1>0, <1>8, <3>2 DEF UseSurplus, ListUtxos, TakeUtxos, CancelNow,
         PublishSuccess, PublishFails, ReserveFails, PublishError, CancelFails
    <3> QED
      BY <3>1, <3>2
  <2> QED
    BY <1>0, <2>1, <2>2 DEF FillParts, StoredBounds, SnapBounds, RowAmounts, SeenAmounts
<1>9. CASE CleanupExpiredReservations \/ Restart \/ Broadcast \/ UNCHANGED vars
  <2>1. UNCHANGED <<filled, tx, snap, seen>>
        /\ \A n \in Messages : /\ pc'[n] = "update" => pc[n] = "update"
                               /\ cpc'[n] \in {"orders", "save"} => cpc[n] \in {"orders", "save"}
    BY <1>9 DEF CleanupExpiredReservations, Restart, Broadcast, vars
  <2> QED
    BY <1>0, <2>1 DEF FillParts, StoredBounds, SnapBounds, RowAmounts, SeenAmounts
<1>10. CASE Tick
  <2>1. UNCHANGED <<filled, snap, seen, pc, cpc>>
    BY <1>10 DEF Tick
  <2>2. \A t \in DOMAIN tx' : tx'[t].orders = tx[t].orders /\ t \in DOMAIN tx
    <3>1. DOMAIN tx' = DOMAIN tx
      BY <1>10 DEF Tick
    <3> SUFFICES ASSUME NEW t \in DOMAIN tx PROVE tx'[t].orders = tx[t].orders
      BY <3>1
    <3>2. tx'[t] = [tx[t] EXCEPT !.age = Older(@, PROPAGATION)]
      BY <1>10 DEF Tick
    <3>3. DOMAIN tx[t] = {"status", "type", "orders", "amount", "satsAmount", "reservedUtxos", "age"}
      BY <1>0 DEF TypeOK, DatabaseTypeOK, IsTransaction
    <3> QED
      BY <3>2, <3>3
  <2> QED
    BY <1>0, <2>1, <2>2 DEF FillParts, StoredBounds, SnapBounds, RowAmounts, SeenAmounts
<1> QED
  BY <1>1, <1>2, <1>3, <1>4, <1>5, <1>6, <1>7, <1>8, <1>9, <1>10
     DEF Next, ReserveStep, CancelStep

(* While the exchange asks for no negative amount, stale rows, retries,    *)
(* cancels and failures in any order leave every stored fill between zero  *)
(* and the size of its order                                               *)
(* (event-handler.service.ts:126-129, 220-224, 269-272, 288-291).          *)
THEOREM FillsInBounds == Spec => []FillBounds
<1>1. Init => FillInv
  <2>1. Init => TypeOK
    BY TypeInit
  <2>2. Init => FillParts
    BY ExecutionAssumption DEF Init, FillParts, StoredBounds, SnapBounds, RowAmounts, SeenAmounts
  <2>3. QED
    BY <2>1, <2>2 DEF FillInv
<1>2. FillInv => FillBounds
  BY DEF FillInv, FillParts, StoredBounds, FillBounds
<1>3. QED
  BY <1>1, <1>2, FillStep, PTL DEF Spec

-------------------------------------------------------------------------------
(* The reservation map implements the abstract table.                      *)

Holder == [u \in DOMAIN reserved |-> reserved[u].tradeId]

(* Every step of the handlers, the timer and the process is a step of the  *)
(* table or leaves it alone.                                               *)
LEMMA TableStep == TypeOK /\ [Next]_vars => [Table!Next]_Holder
<1> SUFFICES ASSUME TypeOK, [Next]_vars
             PROVE  Table!Next \/ UNCHANGED Holder
  OBVIOUS
<1> USE DEF Holder
<1>1. ASSUME NEW m \in Messages, TakeUtxos(m)
      PROVE  Table!Next \/ UNCHANGED Holder
  <2> DEFINE t == TradeOf(m)
             amount == Required(msg[m].orders)
  <2>1. t \in Trades
    BY <1>1, MessageFields DEF TakeUtxos, TradeOf, TypeOK, ControlTypeOK
  <2>2. PICK s \in Picks(Available(m), amount, TypeOf(msg[m].orders)) :
          reserved' = WithPick(t, s, amount)
    BY <1>1 DEF TakeUtxos
  <2>3. Available(m) \in SUBSET (Utxos \ DOMAIN reserved)
    BY DEF Available, TypeOK, LocalsTypeOK
  <2>4. Range(s) \subseteq Utxos \ DOMAIN reserved
    <3> HIDE DEF amount
    <3>1. Range(s) \subseteq Available(m)
      BY <2>2, <2>3, PicksType
    <3> QED
      BY <2>3, <3>1
  <2>5. Holder' = [u \in DOMAIN Holder \cup Range(s) |-> IF u \in Range(s) THEN t ELSE Holder[u]]
    BY <2>2 DEF WithPick
  <2>6. CASE Range(s) = {}
    BY <2>5, <2>6
  <2>7. CASE Range(s) # {}
    <3>1. Table!Acquire(t, Range(s))
      BY <2>4, <2>5, <2>7 DEF Table!Acquire
    <3> QED
      BY <2>1, <2>4, <3>1 DEF Table!Next
  <2> QED
    BY <2>6, <2>7
<1>2. ASSUME NEW t \in Trades, reserved' = WithoutTrade(t)
      PROVE  Table!Next \/ UNCHANGED Holder
  <2>1. Holder' = [u \in DOMAIN Holder \ HeldBy(t) |-> Holder[u]]
    BY <1>2 DEF WithoutTrade, Restrict, HeldBy
  <2>2. HeldBy(t) = Table!HeldUtxos(t)
    BY DEF HeldBy, Table!HeldUtxos
  <2>3. CASE HeldBy(t) = {}
    BY <2>1, <2>3
  <2>4. CASE HeldBy(t) # {}
    BY <2>1, <2>2, <2>4 DEF Table!Release, Table!Next
  <2>5. QED
    BY <2>3, <2>4
<1>3. ASSUME NEW m \in Messages, ReserveFails(m)
      PROVE  Table!Next \/ UNCHANGED Holder
  <2>1. TradeOf(m) \in Trades
    BY <1>3, MessageFields DEF ReserveFails, TradeOf, TypeOK, ControlTypeOK
  <2>2. QED
    BY <1>2, <1>3, <2>1 DEF ReserveFails, CancelNow
<1>4. ASSUME NEW m \in Messages, ReceiveCancel(m)
      PROVE  Table!Next \/ UNCHANGED Holder
  <2>1. msg'[m].tradeId \in Trades
    BY <1>4, MessageFields, ExecutionAssumption
       DEF ReceiveCancel, Receive, TypeOK, ControlTypeOK
  <2>2. QED
    BY <1>2, <1>4, <2>1 DEF ReceiveCancel, CancelNow
<1>5. ASSUME NEW S \in SUBSET DOMAIN reserved, DOMAIN reserved' = DOMAIN reserved \ S,
             \A u \in DOMAIN reserved' : reserved'[u].tradeId = reserved[u].tradeId
      PROVE  Table!Next \/ UNCHANGED Holder
  <2>1. Holder' = [u \in DOMAIN Holder \ S |-> Holder[u]]
    BY <1>5
  <2>2. CASE S = {}
    BY <2>1, <2>2
  <2>3. CASE S # {}
    <3>1. Table!Expire(S) /\ S \in SUBSET Utxos
      BY <2>1, <2>3 DEF Table!Expire, TypeOK, MemoryTypeOK
    <3>2. QED
      BY <3>1 DEF Table!Next
  <2>4. QED
    BY <2>2, <2>3
<1>6. CASE CleanupExpiredReservations
  <2> DEFINE S == {u \in DOMAIN reserved : Expired(reserved[u].age)}
  <2>1. /\ DOMAIN reserved' = DOMAIN reserved \ S
        /\ \A u \in DOMAIN reserved' : reserved'[u] = reserved[u]
    BY <1>6 DEF CleanupExpiredReservations, RestrictDomain, Restrict
  <2>2. QED
    BY <1>5, <2>1
<1>7. CASE Restart
  <2>1. DOMAIN reserved' = DOMAIN reserved \ DOMAIN reserved
    BY <1>7 DEF Restart
  <2>2. QED
    BY <1>5, <2>1
<1>8. CASE Tick
  <2>1. \A u \in DOMAIN reserved : reserved'[u].tradeId = reserved[u].tradeId
    <3> SUFFICES ASSUME NEW u \in DOMAIN reserved
                 PROVE  reserved'[u].tradeId = reserved[u].tradeId
      OBVIOUS
    <3>1. DOMAIN reserved[u] = {"tradeId", "age", "orderAmount", "position"}
      BY DEF TypeOK, MemoryTypeOK, IsReservation
    <3>2. QED
      BY <1>8, <3>1 DEF Tick
  <2>2. DOMAIN reserved' = DOMAIN reserved
    BY <1>8 DEF Tick
  <2>3. QED
    BY <1>5, <2>1, <2>2
<1>9. ASSUME NEW m \in Messages,
             \/ ReceiveReserve(m) \/ ReceiveSign(m) \/ SignStep(m) \/ CancelStep(m)
             \/ ReadOrder(m) \/ UseSurplus(m) \/ ListUtxos(m) \/ FindTransaction(m)
             \/ InsertTransaction(m) \/ UpdateTransaction(m)
             \/ PublishSuccess(m) \/ PublishFails(m) \/ PublishError(m)
      PROVE  UNCHANGED reserved
  BY <1>9 DEF ReceiveReserve, ReceiveSign, SignStep, ValidatePsbt, SendSignature,
       SignFails, CancelStep, CancelFindTransaction, CancelFindOrders, CancelSave,
       CancelFails, ReadOrder, UseSurplus, ListUtxos, FindTransaction,
       InsertTransaction, UpdateTransaction, PublishSuccess, PublishFails,
       PublishError, memory
<1>10. ASSUME (\E o \in Orders : DeleteOrder(o)) \/ Broadcast \/ UNCHANGED vars
       PROVE  UNCHANGED reserved
  BY <1>10 DEF DeleteOrder, Broadcast, vars, memory
<1>11. QED
  BY <1>1, <1>3, <1>4, <1>6, <1>7, <1>8, <1>9, <1>10 DEF Next, ReserveStep

(* For every number of trades, outputs and messages, the reservation map   *)
(* of the event handler implements the abstract table: the listing of a    *)
(* request may be stale and any await may fail, yet an output is handed    *)
(* out only while it is free (event-handler.service.ts:47-61, 87-100,      *)
(* 320-333, 346-370).                                                      *)
THEOREM ReservationsImplementTable == Spec => ImplementsReservationTable
<1>1. Init => Table!Init
  BY DEF Init, Table!Init
<1>2. QED
  BY <1>1, TypeCorrect, TableStep, PTL DEF Spec, ImplementsReservationTable, Table!Spec, Holder

(* A step of the table leaves a reserved output with its trade or frees it,*)
(* and holders are trades.                                                 *)
LEMMA TableMoves ==
  ASSUME [Table!Next]_Holder
  PROVE  /\ \A u \in DOMAIN Holder : u \in DOMAIN Holder' => Holder'[u] = Holder[u]
         /\ Table!TypeOK => Table!TypeOK'
<1>1. ASSUME NEW t \in Trades, NEW S \in SUBSET Utxos, Table!Acquire(t, S)
      PROVE  /\ \A u \in DOMAIN Holder : u \in DOMAIN Holder' => Holder'[u] = Holder[u]
             /\ Table!TypeOK => Table!TypeOK'
  BY <1>1 DEF Table!Acquire, Table!TypeOK, Holder
<1>2. ASSUME NEW t \in Trades, Table!Release(t)
      PROVE  /\ \A u \in DOMAIN Holder : u \in DOMAIN Holder' => Holder'[u] = Holder[u]
             /\ Table!TypeOK => Table!TypeOK'
  BY <1>2 DEF Table!Release, Table!HeldUtxos, Table!TypeOK, Holder
<1>3. ASSUME NEW S \in SUBSET Utxos, Table!Expire(S)
      PROVE  /\ \A u \in DOMAIN Holder : u \in DOMAIN Holder' => Holder'[u] = Holder[u]
             /\ Table!TypeOK => Table!TypeOK'
  BY <1>3 DEF Table!Expire, Table!TypeOK, Holder
<1>4. CASE UNCHANGED Holder
  BY <1>4 DEF Table!TypeOK, Holder
<1> QED
  BY <1>1, <1>2, <1>3, <1>4 DEF Table!Next

(* The holder of every reserved output is a trade.                         *)
THEOREM TableTypeCorrect == Spec => []Table!TypeOK
<1>1. Table!Init => Table!TypeOK
  BY DEF Table!Init, Table!TypeOK
<1>2. Table!TypeOK /\ [Table!Next]_Holder => Table!TypeOK'
  BY TableMoves
<1> QED
  BY <1>1, <1>2, ReservationsImplementTable, PTL DEF ImplementsReservationTable, Table!Spec, Holder

(* Whatever sequence of reservations, releases and expiries happens, a     *)
(* reserved output keeps its trade until it is free                        *)
(* (event-handler.service.ts:19-26, 320, 346).                             *)
THEOREM TableNeverHandsOver == Spec => Table!NoHandover
<1>1. [Table!Next]_Holder =>
        [\A u \in DOMAIN Holder : u \in DOMAIN Holder' => Holder'[u] = Holder[u]]_Holder
  BY TableMoves
<1> QED
  BY <1>1, ReservationsImplementTable, PTL
     DEF ImplementsReservationTable, Table!Spec, Table!NoHandover, Holder

-------------------------------------------------------------------------------
(* The lock.  It is exclusive as long as no message cancels the trade:     *)
(* with one, handleReserveCancel removes the lock of a request in flight.  *)

(* A trade that is being reserved has its lock, and only one request does. *)
LockInv ==
  /\ TypeOK
  /\ OneReservePerTrade
  /\ \A m \in Messages : Reserving(m) => TradeOf(m) \in locks \/ Cancelled(TradeOf(m))

(* Every step keeps the locks of the trades that nobody cancels exclusive. *)
LEMMA LockStep == LockInv /\ [Next]_vars => LockInv'
<1> SUFFICES ASSUME LockInv, [Next]_vars
             PROVE  /\ OneReservePerTrade'
                    /\ (\A m \in Messages :
                          Reserving(m) => TradeOf(m) \in locks \/ Cancelled(TradeOf(m)))'
  BY TypeStep DEF LockInv
<1> USE DEF LockInv, OneReservePerTrade, Reserving, TradeOf, ReservePcs, Goto, memory
<1>0. pc \in [Messages -> Pcs] /\ DOMAIN msg = Messages
  BY DEF TypeOK, ControlTypeOK
<1>00. \A t : Cancelled(t) => Cancelled(t)'
  BY MessagesStay
<1> DEFINE Good == /\ OneReservePerTrade'
                   /\ (\A m \in Messages :
                         Reserving(m) => TradeOf(m) \in locks \/ Cancelled(TradeOf(m)))'
<1>1. ASSUME NEW m \in Messages, ReceiveReserve(m)
      PROVE  Good
  <2>1. pc[m] = "idle" /\ \A n \in Messages \ {m} : pc'[n] = pc[n] /\ msg'[n] = msg[n]
    BY <1>0, <1>1 DEF ReceiveReserve, Receive
  <2>2. CASE LockFree(msg'[m].tradeId)
    <3>1. msg'[m].tradeId \notin locks /\ locks' = locks \cup {msg'[m].tradeId} /\ pc'[m] = "read"
      BY <1>0, <1>1, <2>2 DEF ReceiveReserve, LockFree
    <3>2. QED
      BY <1>00, <2>1, <3>1
  <2>3. CASE ~LockFree(msg'[m].tradeId)
    <3>1. locks' = locks /\ pc'[m] = "reply_error"
      BY <1>0, <1>1, <2>3 DEF ReceiveReserve
    <3>2. QED
      BY <1>00, <2>1, <3>1
  <2>4. QED
    BY <2>2, <2>3
<1>2. ASSUME NEW m \in Messages, ReceiveCancel(m)
      PROVE  Good
  <2>1. pc[m] = "idle" /\ \A n \in Messages \ {m} : pc'[n] = pc[n] /\ msg'[n] = msg[n]
    BY <1>0, <1>2 DEF ReceiveCancel, Receive
  <2>2. pc'[m] = "done" /\ msg'[m].type = "reserve_cancel"
    BY <1>0, <1>2 DEF ReceiveCancel, Receive
  <2>3. Cancelled(TradeOf(m))' /\ locks \ {msg'[m].tradeId} \subseteq locks'
    <3>1. locks \ {msg'[m].tradeId} \subseteq locks'
      BY <1>2 DEF ReceiveCancel
    <3> QED
      BY <2>2, <3>1 DEF Cancelled
  <2> QED
    BY <1>00, <2>1, <2>2, <2>3
<1>3. ASSUME NEW m \in Messages, ReceiveSign(m)
      PROVE  Good
  <2>1. pc'[m] = "validate" /\ UNCHANGED locks
    BY <1>0, <1>3 DEF ReceiveSign, Receive
  <2>2. \A n \in Messages \ {m} : pc'[n] = pc[n] /\ msg'[n] = msg[n]
    BY <1>0, <1>3 DEF ReceiveSign, Receive
  <2> QED
    BY <1>00, <2>1, <2>2
<1>4. ASSUME NEW m \in Messages,
             \/ ReadOrder(m) \/ UseSurplus(m) \/ ListUtxos(m) \/ TakeUtxos(m)
             \/ FindTransaction(m) \/ InsertTransaction(m) \/ UpdateTransaction(m)
      PROVE  Good
  <2>1. /\ Reserving(m)
        /\ UNCHANGED <<locks, msg>>
        /\ \A n \in Messages \ {m} : pc'[n] = pc[n]
    BY <1>0, <1>4 DEF ReadOrder, UseSurplus, ListUtxos, TakeUtxos, FindTransaction,
         InsertTransaction, UpdateTransaction
  <2>2. QED
    BY <1>00, <2>1
<1>5. ASSUME NEW m \in Messages, PublishSuccess(m) \/ PublishFails(m) \/ ReserveFails(m)
      PROVE  Good
  <2>1. /\ Reserving(m)
        /\ pc'[m] \in {"done", "reply_error"}
        /\ \A n \in Messages \ {m} : pc'[n] = pc[n]
        /\ UNCHANGED msg
        /\ locks' = locks \ {TradeOf(m)}
    BY <1>0, <1>5 DEF PublishSuccess, PublishFails, ReserveFails, Unlock
  <2>2. QED
    BY <1>00, <2>1
<1>6. ASSUME NEW m \in Messages, PublishError(m) \/ CancelStep(m) \/ SignStep(m)
      PROVE  Good
  <2>1. /\ UNCHANGED <<locks, msg>>
        /\ \A n \in Messages : ~ Reserving(n) => pc'[n] \notin ReservePcs
        /\ \A n \in Messages : Reserving(n) => pc'[n] = pc[n]
    BY <1>0, <1>6 DEF PublishError, CancelStep, CancelFindTransaction, CancelFindOrders,
         CancelSave, CancelFails, SignStep, ValidatePsbt, SendSignature, SignFails
  <2>2. QED
    BY <1>00, <2>1
<1>7. CASE Restart
  BY <1>7 DEF Restart
<1>8. ASSUME \/ Tick \/ CleanupExpiredReservations \/ Broadcast
             \/ (\E o \in Orders : DeleteOrder(o)) \/ UNCHANGED vars
      PROVE  UNCHANGED <<locks, msg, pc>>
  BY <1>8 DEF Tick, CleanupExpiredReservations, Broadcast, DeleteOrder, vars
<1>9. QED
  BY <1>00, <1>1, <1>2, <1>3, <1>4, <1>5, <1>6, <1>7, <1>8 DEF Next, ReserveStep

(* No lock is needed initially.                                            *)
LEMMA LockInit == Init => LockInv
BY TypeInit DEF Init, LockInv, OneReservePerTrade, Reserving, ReservePcs

(* Two reserve requests of one trade are never worked on at the same time, *)
(* unless a message cancels the trade                                      *)
(* (event-handler.service.ts:103-106, 165-171, 186-189).                   *)
THEOREM LockIsExclusive == Spec => []OneReservePerTrade
<1>1. LockInv /\ [Next]_vars => LockInv'
  BY LockStep
<1>2. LockInv => OneReservePerTrade
  BY DEF LockInv
<1>3. QED
  BY <1>1, <1>2, LockInit, PTL DEF Spec

-------------------------------------------------------------------------------
(* What success means.  A trade that no message cancels gives up its       *)
(* outputs only by the failure of one of its own requests or by the        *)
(* timeout.                                                                *)

Holding == {"lookup", "insert", "update", "publish"}

(* Within the time of a reservation no tick is due, and whoever has picked *)
(* outputs still holds them.                                               *)
BackedInv ==
  /\ LockInv
  /\ sinceCleanup = 0
  /\ \A m \in Messages : pc[m] \in Holding =>
       Range(taken[m]) \subseteq HeldBy(TradeOf(m)) \/ Cancelled(TradeOf(m))

(* Every step leaves each handler the outputs it has picked.               *)
LEMMA BackedStep ==
  ASSUME ~ClockRuns
  PROVE  BackedInv /\ [Next]_vars => BackedInv'
<1> SUFFICES ASSUME BackedInv, [Next]_vars
             PROVE  /\ sinceCleanup' = 0
                    /\ (\A m \in Messages : pc[m] \in Holding =>
                          Range(taken[m]) \subseteq HeldBy(TradeOf(m)) \/ Cancelled(TradeOf(m)))'
  BY LockStep DEF BackedInv
<1> USE DEF BackedInv, Holding, HeldBy, TradeOf, Goto, memory, locals, history, world
<1>0. /\ pc \in [Messages -> Pcs] /\ DOMAIN msg = Messages /\ DOMAIN taken = Messages
      /\ sinceCleanup = 0 /\ CLEANUP_INTERVAL \in Nat \ {0}
  BY ExecutionAssumption DEF LockInv, TypeOK, ControlTypeOK, LocalsTypeOK
<1> DEFINE Good == /\ sinceCleanup' = 0
                   /\ (\A m \in Messages : pc[m] \in Holding =>
                         Range(taken[m]) \subseteq HeldBy(TradeOf(m)) \/ Cancelled(TradeOf(m)))'
<1>00. \A t : Cancelled(t) => Cancelled(t)'
  BY MessagesStay DEF LockInv
<1>1. ASSUME NEW m \in Messages, UseSurplus(m)
      PROVE  Good
  <2>1. PICK s \in HeldInOrder(TradeOf(m)) : taken' = [taken EXCEPT ![m] = s]
    BY <1>1 DEF UseSurplus
  <2>2. Range(s) \subseteq HeldBy(TradeOf(m))
    BY <2>1 DEF HeldInOrder, Listings, Range
  <2>3. QED
    BY <1>0, <1>00, <1>1, <2>1, <2>2 DEF UseSurplus
<1>2. ASSUME NEW m \in Messages, TakeUtxos(m)
      PROVE  Good
  <2> DEFINE amount == Required(msg[m].orders)
  <2>1. PICK s \in Picks(Available(m), amount, TypeOf(msg[m].orders)) :
          reserved' = WithPick(TradeOf(m), s, amount) /\ taken' = [taken EXCEPT ![m] = s]
    BY <1>2 DEF TakeUtxos
  <2>2. Available(m) \in SUBSET Utxos /\ Available(m) \cap DOMAIN reserved = {}
    BY DEF Available, LockInv, TypeOK, LocalsTypeOK
  <2>3. Range(s) \subseteq Available(m)
    <3> HIDE DEF amount
    <3> QED
      BY <2>1, <2>2, PicksType
  <2>4. /\ \A u \in Range(s) : u \in DOMAIN reserved' /\ reserved'[u].tradeId = TradeOf(m)
        /\ \A u \in DOMAIN reserved : u \in DOMAIN reserved' /\ reserved'[u] = reserved[u]
    BY <2>1, <2>2, <2>3 DEF WithPick
  <2>5. Range(taken'[m]) \subseteq HeldBy(TradeOf(m))'
    BY <1>0, <1>2, <2>1, <2>4 DEF TakeUtxos
  <2>6. \A n \in Messages \ {m} : taken'[n] = taken[n] /\ pc'[n] = pc[n] /\ msg'[n] = msg[n]
    BY <1>0, <1>2, <2>1 DEF TakeUtxos
  <2>7. QED
    BY <1>0, <1>00, <1>2, <2>4, <2>5, <2>6 DEF TakeUtxos
<1>3. ASSUME NEW m \in Messages, ReserveFails(m)
      PROVE  Good
  <2>1. /\ pc[m] \in ReservePcs /\ pc'[m] = "reply_error" /\ reserved' = WithoutTrade(TradeOf(m))
        /\ \A n \in Messages \ {m} : pc'[n] = pc[n]
        /\ UNCHANGED <<msg, taken, sinceCleanup>>
    BY <1>0, <1>3 DEF ReserveFails, CancelNow, ReservePcs
  <2>2. \A n \in Messages \ {m} : pc[n] \in Holding =>
          TradeOf(n) # TradeOf(m) \/ Cancelled(TradeOf(n))
    BY <2>1 DEF LockInv, OneReservePerTrade, Reserving, ReservePcs
  <2>3. \A t \in Trades : t # TradeOf(m) => HeldBy(t)' = HeldBy(t)
    BY <2>1 DEF WithoutTrade, Restrict
  <2>4. \A n \in Messages : pc[n] \in Holding => TradeOf(n) \in Trades
    BY MessageFields DEF LockInv, TypeOK, ControlTypeOK
  <2>5. QED
    BY <1>00, <2>1, <2>2, <2>3, <2>4
<1>4. ASSUME NEW m \in Messages, ReceiveReserve(m) \/ ReceiveSign(m)
      PROVE  Good
  <2>1. /\ pc'[m] \notin Holding
        /\ \A n \in Messages \ {m} : pc'[n] = pc[n] /\ msg'[n] = msg[n]
        /\ UNCHANGED <<reserved, taken, sinceCleanup>>
    BY <1>0, <1>4 DEF ReceiveReserve, ReceiveSign, Receive
  <2>2. QED
    BY <1>00, <2>1
<1>5. ASSUME NEW m \in Messages,
             \/ ReadOrder(m) \/ ListUtxos(m) \/ FindTransaction(m)
             \/ InsertTransaction(m) \/ UpdateTransaction(m)
             \/ PublishSuccess(m) \/ PublishFails(m) \/ PublishError(m)
             \/ CancelStep(m) \/ SignStep(m)
      PROVE  Good
  <2>1. /\ UNCHANGED <<reserved, taken, msg, sinceCleanup>>
        /\ \A n \in Messages : pc'[n] \in Holding => pc[n] \in Holding
    BY <1>0, <1>5 DEF ReadOrder, ListUtxos, FindTransaction, InsertTransaction,
         UpdateTransaction, PublishSuccess, PublishFails, PublishError,
         CancelStep, CancelFindTransaction, CancelFindOrders, CancelSave, CancelFails,
         SignStep, ValidatePsbt, SendSignature, SignFails
  <2>2. QED
    BY <1>00, <2>1
<1>6. CASE Restart
  BY <1>6 DEF Restart
<1>7. ~Tick /\ ~CleanupExpiredReservations
  BY <1>0 DEF Tick, CleanupExpiredReservations
<1>8. ASSUME Broadcast \/ (\E o \in Orders : DeleteOrder(o)) \/ UNCHANGED vars
      PROVE  UNCHANGED <<reserved, taken, msg, pc, sinceCleanup>>
  BY <1>8 DEF Broadcast, DeleteOrder, vars
<1>9. ASSUME NEW m \in Messages, ReceiveCancel(m)
      PROVE  Good
  <2>1. /\ pc'[m] = "done" /\ msg'[m].type = "reserve_cancel"
        /\ \A n \in Messages \ {m} : pc'[n] = pc[n] /\ msg'[n] = msg[n]
        /\ UNCHANGED <<taken, sinceCleanup>>
        /\ reserved' = WithoutTrade(msg'[m].tradeId)
    BY <1>0, <1>9 DEF ReceiveCancel, Receive, CancelNow
  <2>2. Cancelled(TradeOf(m))'
    BY <2>1 DEF Cancelled
  <2>3. \A n \in Messages : TradeOf(n) # msg'[m].tradeId =>
          HeldBy(TradeOf(n)) \subseteq {u \in DOMAIN reserved' : reserved'[u].tradeId = TradeOf(n)}
    BY <2>1 DEF WithoutTrade, Restrict
  <2> QED
    BY <1>00, <2>1, <2>2, <2>3
<1>10. QED
  BY <1>00, <1>1, <1>2, <1>3, <1>4, <1>5, <1>6, <1>7, <1>8, <1>9 DEF Next, ReserveStep

(* Within the time of a reservation, a trade that is told success holds    *)
(* every output it was promised, unless a message cancels it, whatever     *)
(* other trades do and however their requests fail                         *)
(* (event-handler.service.ts:174-185).                                     *)
THEOREM SuccessMeansHeld ==
  ASSUME ~ClockRuns
  PROVE  Spec => SuccessIsBacked
<1>1. Init => BackedInv
  BY LockInit DEF Init, BackedInv, Holding
<1>2. BackedInv /\ [Next]_vars => BackedInv'
  BY BackedStep
<1>3. BackedInv => \A m \in Messages : pc[m] = "publish" /\ ~Cancelled(TradeOf(m)) =>
                      Range(taken[m]) \subseteq HeldBy(TradeOf(m))
  BY DEF BackedInv, Holding
<1>4. BackedInv /\ [Next]_vars =>
        [\A m \in Messages :
           pc[m] = "publish" /\ reply'[m] = "success" /\ ~Cancelled(TradeOf(m)) =>
             Range(taken[m]) \subseteq HeldBy(TradeOf(m))]_vars
  BY <1>3
<1>5. QED
  BY <1>1, <1>2, <1>4, PTL DEF Spec, SuccessIsBacked

-------------------------------------------------------------------------------
(* What is signed.  Outputs are given up all the time; the history         *)
(* remembers which, and what was promised is either held or remembered.    *)

(* No step takes an output from its trade without the history's knowledge. *)
LEMMA LossIsRemembered ==
  ASSUME TypeOK, [Next]_vars
  PROVE  /\ lapsed \subseteq lapsed'
         /\ \A u \in DOMAIN reserved :
              \/ u \in DOMAIN reserved' /\ reserved'[u].tradeId = reserved[u].tradeId
              \/ <<reserved[u].tradeId, u>> \in lapsed'
<1> USE DEF memory, history, world
<1> DEFINE Good == /\ lapsed \subseteq lapsed'
                   /\ \A u \in DOMAIN reserved :
                        \/ u \in DOMAIN reserved' /\ reserved'[u].tradeId = reserved[u].tradeId
                        \/ <<reserved[u].tradeId, u>> \in lapsed'
<1>1. ASSUME NEW S \in SUBSET DOMAIN reserved, Lapses(S),
             \A u \in DOMAIN reserved \ S : u \in DOMAIN reserved' /\ reserved'[u] = reserved[u]
      PROVE  Good
  BY <1>1 DEF Lapses
<1>2. ASSUME NEW t, reserved' = WithoutTrade(t), Lapses(HeldBy(t))
      PROVE  Good
  <2>1. HeldBy(t) \in SUBSET DOMAIN reserved
    BY DEF HeldBy
  <2>2. \A u \in DOMAIN reserved \ HeldBy(t) : u \in DOMAIN reserved' /\ reserved'[u] = reserved[u]
    BY <1>2 DEF WithoutTrade, Restrict
  <2> QED
    BY <1>1, <1>2, <2>1, <2>2
<1>3. ASSUME NEW m \in Messages, ReserveFails(m)
      PROVE  Good
  BY <1>2, <1>3 DEF ReserveFails, CancelNow
<1>4. ASSUME NEW m \in Messages, ReceiveCancel(m)
      PROVE  Good
  BY <1>2, <1>4 DEF ReceiveCancel, CancelNow
<1>5. ASSUME CleanupExpiredReservations
      PROVE  Good
  <2> DEFINE S == {u \in DOMAIN reserved : Expired(reserved[u].age)}
  <2>1. /\ Lapses(S) /\ S \in SUBSET DOMAIN reserved
        /\ \A u \in DOMAIN reserved \ S : u \in DOMAIN reserved' /\ reserved'[u] = reserved[u]
    BY <1>5 DEF CleanupExpiredReservations, RestrictDomain, Restrict
  <2> HIDE DEF S
  <2> QED
    BY <1>1, <2>1
<1>6. ASSUME Restart
      PROVE  Good
  BY <1>1, <1>6 DEF Restart
<1>7. ASSUME NEW m \in Messages, TakeUtxos(m)
      PROVE  Good
  <2> DEFINE amount == Required(msg[m].orders)
  <2>1. PICK s \in Picks(Available(m), amount, TypeOf(msg[m].orders)) :
          reserved' = WithPick(TradeOf(m), s, amount)
    BY <1>7 DEF TakeUtxos
  <2>2. Available(m) \in SUBSET Utxos /\ Available(m) \cap DOMAIN reserved = {}
    BY DEF Available, TypeOK, LocalsTypeOK
  <2>3. Range(s) \subseteq Available(m)
    <3> HIDE DEF amount
    <3> QED
      BY <2>1, <2>2, PicksType
  <2>4. \A u \in DOMAIN reserved : u \in DOMAIN reserved' /\ reserved'[u] = reserved[u]
    BY <2>1, <2>2, <2>3 DEF WithPick
  <2> QED
    BY <1>7, <2>4 DEF TakeUtxos
<1>8. ASSUME Tick
      PROVE  Good
  <2>1. DOMAIN reserved' = DOMAIN reserved /\ lapsed' = lapsed
    BY <1>8 DEF Tick
  <2>2. ASSUME NEW u \in DOMAIN reserved PROVE reserved'[u].tradeId = reserved[u].tradeId
    <3>1. DOMAIN reserved[u] = {"tradeId", "age", "orderAmount", "position"}
      BY DEF TypeOK, MemoryTypeOK, IsReservation
    <3>2. QED
      BY <1>8, <3>1 DEF Tick
  <2> QED
    BY <2>1, <2>2
<1>9. ASSUME NEW m \in Messages,
             \/ ReceiveReserve(m) \/ ReceiveSign(m) \/ SignStep(m) \/ CancelStep(m)
             \/ ReadOrder(m) \/ UseSurplus(m) \/ ListUtxos(m) \/ FindTransaction(m)
             \/ InsertTransaction(m) \/ UpdateTransaction(m)
             \/ PublishSuccess(m) \/ PublishFails(m) \/ PublishError(m)
      PROVE  UNCHANGED <<reserved, lapsed>>
  BY <1>9 DEF ReceiveReserve, ReceiveSign, SignStep, ValidatePsbt, SendSignature,
       SignFails, CancelStep, CancelFindTransaction, CancelFindOrders, CancelSave,
       CancelFails, ReadOrder, UseSurplus, ListUtxos, FindTransaction,
       InsertTransaction, UpdateTransaction, PublishSuccess, PublishFails, PublishError
<1>10. ASSUME (\E o \in Orders : DeleteOrder(o)) \/ Broadcast \/ UNCHANGED vars
       PROVE  UNCHANGED <<reserved, lapsed>>
  BY <1>10 DEF DeleteOrder, Broadcast, vars
<1>11. Good
  BY <1>3, <1>4, <1>5, <1>6, <1>7, <1>8, <1>9, <1>10 DEF Next, ReserveStep
<1> QED
  BY <1>11

(* What a handler has taken changes only when it takes outputs, and then   *)
(* it holds them; the answer to a request comes after that.                *)
LEMMA TakingHolds ==
  ASSUME TypeOK, [Next]_vars, NEW m \in Messages
  PROVE  \/ taken'[m] = taken[m]
         \/ /\ pc[m] \in {"rune", "take"} /\ msg'[m] = msg[m] /\ pc'[m] # "idle"
            /\ Range(taken'[m]) \subseteq HeldBy(TradeOf(m))'
<1> USE DEF locals
<1>0. pc \in [Messages -> Pcs] /\ DOMAIN taken = Messages
  BY DEF TypeOK, ControlTypeOK, LocalsTypeOK
<1>1. CASE UseSurplus(m)
  <2>1. PICK s \in HeldInOrder(TradeOf(m)) : taken' = [taken EXCEPT ![m] = s]
    BY <1>1 DEF UseSurplus
  <2>2. Range(s) \subseteq HeldBy(TradeOf(m))
    BY <2>1 DEF HeldInOrder, Listings, Range
  <2>3. /\ pc[m] = "rune" /\ pc'[m] = "lookup" /\ UNCHANGED <<msg, reserved>>
        /\ taken'[m] = s
    BY <1>0, <1>1, <2>1 DEF UseSurplus, Goto, memory
  <2> QED
    BY <2>2, <2>3 DEF HeldBy, TradeOf
<1>2. CASE TakeUtxos(m)
  <2>1. PICK s \in Picks(Available(m), Required(msg[m].orders), TypeOf(msg[m].orders)) :
          /\ reserved' = WithPick(TradeOf(m), s, Required(msg[m].orders))
          /\ taken' = [taken EXCEPT ![m] = s]
    BY <1>2 DEF TakeUtxos
  <2>2. /\ pc[m] = "take" /\ pc'[m] = "lookup" /\ UNCHANGED msg /\ taken'[m] = s
    BY <1>0, <1>2, <2>1 DEF TakeUtxos, Goto
  <2>3. \A u \in Range(s) : u \in DOMAIN reserved' /\ reserved'[u].tradeId = TradeOf(m)
    BY <2>1 DEF WithPick
  <2> QED
    BY <2>2, <2>3 DEF HeldBy, TradeOf
<1>3. ASSUME NEW n \in Messages, n # m, UseSurplus(n) \/ TakeUtxos(n)
      PROVE  taken'[m] = taken[m]
  BY <1>0, <1>3 DEF UseSurplus, TakeUtxos
<1>4. ASSUME NEW n \in Messages,
             \/ ReceiveReserve(n) \/ ReceiveCancel(n) \/ ReceiveSign(n)
             \/ SignStep(n) \/ CancelStep(n) \/ ReadOrder(n) \/ ListUtxos(n) \/ FindTransaction(n)
             \/ InsertTransaction(n) \/ UpdateTransaction(n)
             \/ PublishSuccess(n) \/ PublishFails(n) \/ ReserveFails(n) \/ PublishError(n)
      PROVE  taken' = taken
  BY <1>4 DEF ReceiveReserve, ReceiveCancel, ReceiveSign, SignStep, ValidatePsbt, SendSignature,
       SignFails, CancelStep, CancelFindTransaction, CancelFindOrders, CancelSave,
       CancelFails, ReadOrder, ListUtxos, FindTransaction, InsertTransaction,
       UpdateTransaction, PublishSuccess, PublishFails, ReserveFails, PublishError
<1>5. ASSUME \/ Tick \/ CleanupExpiredReservations \/ Restart \/ Broadcast
             \/ (\E o \in Orders : DeleteOrder(o)) \/ UNCHANGED vars
      PROVE  taken' = taken
  BY <1>5 DEF Tick, CleanupExpiredReservations, Restart, Broadcast, DeleteOrder, vars
<1> QED
  BY <1>1, <1>2, <1>3, <1>4, <1>5 DEF Next, ReserveStep

(* An answer stays, and a success ends the handling of its message.        *)
AnswersComeLast ==
  \A m \in Messages : /\ reply[m] = "success" => pc[m] = "done"
                      /\ pc[m] = "idle" => taken[m] = <<>>

LEMMA AnswersStay ==
  ASSUME TypeOK, AnswersComeLast, [Next]_vars
  PROVE  /\ AnswersComeLast'
         /\ \A m \in Messages : reply[m] = "success" => reply'[m] = "success"
<1> USE DEF Goto, world
<1>0. /\ pc \in [Messages -> Pcs] /\ reply \in [Messages -> {"none", "success", "error"}]
      /\ DOMAIN taken = Messages
  BY DEF TypeOK, ControlTypeOK, WorldTypeOK, LocalsTypeOK
<1> DEFINE Good(m) == /\ reply[m] = "success" => reply'[m] = "success"
                      /\ reply'[m] = "success" => pc'[m] = "done"
                      /\ pc'[m] = "idle" => pc[m] = "idle"
<1>1. ASSUME NEW n \in Messages, PublishSuccess(n) \/ SendSignature(n) \/ PublishError(n),
             NEW m \in Messages
      PROVE  Good(m)
  <2>1. PICK r \in {"none", "success", "error"} :
          reply' = [reply EXCEPT ![n] = r]
    BY <1>1 DEF PublishSuccess, SendSignature, PublishError
  <2>2. pc[n] \in {"publish", "sign", "reply_error"} /\ pc' = [pc EXCEPT ![n] = "done"]
    BY <1>1 DEF PublishSuccess, SendSignature, PublishError
  <2>3. reply[n] # "success"
    BY <2>2 DEF AnswersComeLast
  <2> QED
    BY <1>0, <2>1, <2>2, <2>3 DEF AnswersComeLast
<1>2. ASSUME NEW n \in Messages, ReceiveReserve(n) \/ ReceiveCancel(n) \/ ReceiveSign(n),
             NEW m \in Messages
      PROVE  Good(m)
  <2>1. PICK label \in {"read", "reply_error", "done", "validate"} : pc' = [pc EXCEPT ![n] = label]
    BY <1>2 DEF ReceiveReserve, ReceiveCancel, ReceiveSign
  <2>2. pc[n] = "idle" /\ reply' = reply
    BY <1>2 DEF ReceiveReserve, ReceiveCancel, ReceiveSign, Receive
  <2> QED
    BY <1>0, <2>1, <2>2 DEF AnswersComeLast
<1>3. ASSUME NEW n \in Messages,
             \/ ReadOrder(n) \/ UseSurplus(n) \/ ListUtxos(n) \/ TakeUtxos(n) \/ FindTransaction(n)
             \/ InsertTransaction(n) \/ UpdateTransaction(n) \/ PublishFails(n) \/ ReserveFails(n)
             \/ CancelStep(n) \/ ValidatePsbt(n) \/ SignFails(n),
             NEW m \in Messages
      PROVE  Good(m)
  <2>1. \/ pc' = pc
        \/ pc[n] \notin {"idle", "done"} /\ \E label \in Pcs \ {"idle"} : pc' = [pc EXCEPT ![n] = label]
    BY <1>3 DEF ReadOrder, UseSurplus, ListUtxos, TakeUtxos, FindTransaction, InsertTransaction,
       UpdateTransaction, PublishFails, ReserveFails, CancelStep, CancelFindTransaction,
       CancelFindOrders, CancelSave, CancelFails, ValidatePsbt, SignFails, Pcs, ReservePcs
  <2>2. reply' = reply
    BY <1>3 DEF ReadOrder, UseSurplus, ListUtxos, TakeUtxos, FindTransaction, InsertTransaction,
       UpdateTransaction, PublishFails, ReserveFails, CancelStep, CancelFindTransaction,
       CancelFindOrders, CancelSave, CancelFails, ValidatePsbt, SignFails
  <2> QED
    BY <1>0, <2>1, <2>2 DEF AnswersComeLast
<1>4. ASSUME \/ Tick \/ CleanupExpiredReservations \/ Restart \/ Broadcast
             \/ (\E o \in Orders : DeleteOrder(o)) \/ UNCHANGED vars,
             NEW m \in Messages
      PROVE  Good(m)
  <2>1. reply' = reply /\ (pc' = pc \/ Restart)
    BY <1>4 DEF Tick, CleanupExpiredReservations, Restart, Broadcast, DeleteOrder, vars
  <2>2. pc'[m] = pc[m] \/ (pc[m] # "idle" /\ pc'[m] = "done")
    BY <1>0, <2>1 DEF Restart
  <2> QED
    BY <2>1, <2>2 DEF AnswersComeLast
<1>5. ASSUME NEW m \in Messages PROVE Good(m)
  BY <1>1, <1>2, <1>3, <1>4 DEF Next, ReserveStep, SignStep
<1>6. ASSUME NEW m \in Messages PROVE pc'[m] = "idle" => taken'[m] = <<>>
  BY <1>5, TakingHolds DEF AnswersComeLast
<1> QED
  BY <1>5, <1>6 DEF AnswersComeLast

(* What was taken is held, or the history knows that it is not.            *)
KeptOrRemembered ==
  \A m \in Messages : \A u \in Range(taken[m]) :
    u \in HeldBy(TradeOf(m)) \/ <<TradeOf(m), u>> \in lapsed

(* The inputs of a signature were promised in an answer about its trade.   *)
Promises(n, t, S) == reply[n] = "success" /\ TradeOf(n) = t /\ S = Range(taken[n])

PromisedInputs ==
  /\ \A m \in Messages : pc[m] \in {"validate", "sign"} =>
       \E n \in Messages : Promises(n, TradeOf(m), msg[m].inputs)
  /\ \A g \in signed : \E n \in Messages : Promises(n, g.tradeId, g.inputs)

SignedInv == TypeOK /\ AnswersComeLast /\ KeptOrRemembered /\ PromisedInputs

LEMMA KeptStep ==
  ASSUME TypeOK, AnswersComeLast, KeptOrRemembered, [Next]_vars
  PROVE  KeptOrRemembered'
<1> SUFFICES ASSUME NEW m \in Messages, NEW u \in Range(taken'[m])
             PROVE  u \in HeldBy(TradeOf(m))' \/ <<TradeOf(m)', u>> \in lapsed'
  BY DEF KeptOrRemembered
<1>1. CASE Range(taken'[m]) \subseteq HeldBy(TradeOf(m))'
  BY <1>1
<1>2. CASE taken'[m] = taken[m] /\ pc[m] # "idle"
  <2>1. TradeOf(m)' = TradeOf(m)
    BY <1>2, MessagesStay DEF TradeOf
  <2>2. u \in HeldBy(TradeOf(m)) \/ <<TradeOf(m), u>> \in lapsed
    BY <1>2 DEF KeptOrRemembered
  <2>3. CASE <<TradeOf(m), u>> \in lapsed
    BY <2>1, <2>3, LossIsRemembered
  <2>4. CASE u \in HeldBy(TradeOf(m))
    <3>1. u \in DOMAIN reserved /\ reserved[u].tradeId = TradeOf(m)
      BY <2>4 DEF HeldBy
    <3>2. \/ u \in DOMAIN reserved' /\ reserved'[u].tradeId = TradeOf(m)
          \/ <<TradeOf(m), u>> \in lapsed'
      BY <3>1, LossIsRemembered
    <3> QED
      BY <2>1, <3>2 DEF HeldBy
  <2> QED
    BY <2>2, <2>3, <2>4
<1>3. CASE taken'[m] = taken[m] /\ pc[m] = "idle"
  <2>1. taken'[m] = <<>>
    BY <1>3 DEF AnswersComeLast
  <2> QED
    BY <2>1 DEF Range
<1> QED
  BY <1>1, <1>2, <1>3, TakingHolds

(* Promises stay: what was promised is neither taken back nor changed.     *)
LEMMA PromisesStay ==
  ASSUME TypeOK, AnswersComeLast, [Next]_vars, NEW n \in Messages, NEW t, NEW S, Promises(n, t, S)
  PROVE  reply'[n] = "success" /\ msg'[n].tradeId = t /\ S = Range(taken'[n])
<1>1. reply'[n] = "success" /\ pc[n] = "done"
  BY AnswersStay DEF AnswersComeLast, Promises
<1>2. msg'[n] = msg[n]
  BY <1>1, MessagesStay
<1>3. taken'[n] = taken[n]
  BY <1>1, TakingHolds
<1> QED
  BY <1>1, <1>2, <1>3 DEF Promises, TradeOf

(* An honest exchange asks to sign what was promised, and that is signed.  *)
LEMMA PromisedStep ==
  ASSUME HonestExchange, SignedInv, [Next]_vars
  PROVE  PromisedInputs'
<1> USE DEF Goto, locals, history, world
<1>0. pc \in [Messages -> Pcs] /\ DOMAIN msg = Messages /\ TypeOK /\ AnswersComeLast
  BY DEF SignedInv, TypeOK, ControlTypeOK
<1> DEFINE Asks(m) == \E n \in Messages : /\ reply'[n] = "success"
                                          /\ msg'[n].tradeId = msg'[m].tradeId
                                          /\ msg'[m].inputs = Range(taken'[n])
           Signs(g) == \E n \in Messages : /\ reply'[n] = "success"
                                           /\ msg'[n].tradeId = g.tradeId
                                           /\ g.inputs = Range(taken'[n])
<1>1. ASSUME NEW m \in Messages, pc[m] \in {"validate", "sign"}
      PROVE  Asks(m) /\ Signs([tradeId |-> TradeOf(m), inputs |-> msg[m].inputs])
  <2>1. PICK n \in Messages : Promises(n, TradeOf(m), msg[m].inputs)
    BY <1>1 DEF SignedInv, PromisedInputs
  <2>2. reply'[n] = "success" /\ msg'[n].tradeId = TradeOf(m) /\ msg[m].inputs = Range(taken'[n])
    BY <1>0, <2>1, PromisesStay
  <2>3. msg'[m] = msg[m]
    BY <1>0, <1>1, MessagesStay
  <2> QED
    BY <2>2, <2>3 DEF TradeOf
<1>2. ASSUME NEW m \in Messages, pc'[m] \in {"validate", "sign"}, pc[m] \notin {"validate", "sign"}
      PROVE  Asks(m)
  <2>1. ReceiveSign(m)
    <3>1. ASSUME NEW n \in Messages, ReceiveReserve(n) \/ ReceiveCancel(n)
          PROVE  FALSE
      BY <1>0, <1>2, <3>1 DEF ReceiveReserve, ReceiveCancel
    <3>2. ASSUME NEW n \in Messages, ReceiveSign(n), n # m
          PROVE  FALSE
      BY <1>0, <1>2, <3>2 DEF ReceiveSign
    <3>3. ASSUME NEW n \in Messages, ReserveStep(n)
          PROVE  FALSE
      BY <1>0, <1>2, <3>3 DEF ReserveStep, ReadOrder, UseSurplus, ListUtxos, TakeUtxos,
         FindTransaction, InsertTransaction, UpdateTransaction, PublishSuccess, PublishFails,
         ReserveFails, PublishError
    <3>4. ASSUME NEW n \in Messages, CancelStep(n) \/ SignStep(n)
          PROVE  FALSE
      BY <1>0, <1>2, <3>4 DEF CancelStep, CancelFindTransaction, CancelFindOrders, CancelSave,
         CancelFails, SignStep, ValidatePsbt, SendSignature, SignFails
    <3>5. ASSUME \/ Tick \/ CleanupExpiredReservations \/ Restart \/ Broadcast
                 \/ (\E o \in Orders : DeleteOrder(o)) \/ UNCHANGED vars
          PROVE  FALSE
      <4>1. pc' = pc \/ Restart
        BY <3>5 DEF Tick, CleanupExpiredReservations, Broadcast, DeleteOrder, vars
      <4> QED
        BY <1>0, <1>2, <4>1 DEF Restart
    <3> QED
      BY <3>1, <3>2, <3>3, <3>4, <3>5 DEF Next
  <2>2. PICK n \in Messages : /\ reply[n] = "success"
                              /\ TradeOf(n) = msg'[m].tradeId
                              /\ msg'[m].inputs = Range(taken[n])
    BY <2>1 DEF ReceiveSign, Promised
  <2>3. Promises(n, msg'[m].tradeId, msg'[m].inputs)
    BY <2>2 DEF Promises
  <2>4. pc[n] = "done" /\ reply'[n] = "success"
    BY <1>0, <2>2, AnswersStay DEF AnswersComeLast
  <2>5. msg'[n] = msg[n] /\ taken'[n] = taken[n]
    BY <1>0, <2>4, MessagesStay, TakingHolds
  <2> QED
    BY <2>2, <2>4, <2>5 DEF TradeOf
<1>3. ASSUME NEW g \in signed
      PROVE  Signs(g)
  <2>1. PICK n \in Messages : Promises(n, g.tradeId, g.inputs)
    BY DEF SignedInv, PromisedInputs
  <2> QED
    BY <1>0, <2>1, PromisesStay
<1>4. ASSUME NEW g \in signed', g \notin signed
      PROVE  Signs(g)
  <2>1. PICK m \in Messages : SendSignature(m)
    <3>1. ASSUME NEW n \in Messages, ReceiveReserve(n) \/ ReceiveCancel(n) \/ ReceiveSign(n)
          PROVE  FALSE
      BY <1>4, <3>1 DEF ReceiveReserve, ReceiveCancel, ReceiveSign
    <3>2. ASSUME NEW n \in Messages, ReserveStep(n)
          PROVE  FALSE
      BY <1>4, <3>2 DEF ReserveStep, ReadOrder, UseSurplus, ListUtxos, TakeUtxos,
         FindTransaction, InsertTransaction, UpdateTransaction, PublishSuccess, PublishFails,
         ReserveFails, PublishError
    <3>3. ASSUME NEW n \in Messages, CancelStep(n) \/ ValidatePsbt(n) \/ SignFails(n)
          PROVE  FALSE
      BY <1>4, <3>3 DEF CancelStep, CancelFindTransaction, CancelFindOrders, CancelSave,
         CancelFails, ValidatePsbt, SignFails
    <3>4. ASSUME \/ Tick \/ CleanupExpiredReservations \/ Restart \/ Broadcast
                 \/ (\E o \in Orders : DeleteOrder(o)) \/ UNCHANGED vars
          PROVE  FALSE
      BY <1>4, <3>4 DEF Tick, CleanupExpiredReservations, Restart, Broadcast, DeleteOrder, vars
    <3> QED
      BY <3>1, <3>2, <3>3, <3>4 DEF Next, SignStep
  <2>2. g = [tradeId |-> TradeOf(m), inputs |-> msg[m].inputs] /\ pc[m] = "sign"
    BY <1>4, <2>1 DEF SendSignature
  <2> QED
    BY <1>1, <2>2
<1>5. \A m \in Messages : pc'[m] \in {"validate", "sign"} => Asks(m)
  BY <1>1, <1>2
<1>6. \A g \in signed' : Signs(g)
  BY <1>3, <1>4
<1> QED
  BY <1>5, <1>6 DEF PromisedInputs, Promises, TradeOf

(* An output is signed for two trades only if one of them has given it up, *)
(* for any orders, outputs and messages, however requests, retries,        *)
(* cancels, the timeout and restarts interleave, while the exchange builds *)
(* PSBTs from the outputs it was told of                                   *)
(* (event-handler.service.ts:47-61, 320, 346, 391-393).                    *)
THEOREM SignedTwiceIsRemembered ==
  ASSUME HonestExchange
  PROVE  Spec => []SignedTwiceIsGivenUp
<1>1. Init => SignedInv
  <2> SUFFICES ASSUME Init
               PROVE  AnswersComeLast /\ KeptOrRemembered /\ PromisedInputs
    BY TypeInit DEF SignedInv
  <2>1. signed = {} /\ \A m \in Messages : pc[m] = "idle" /\ reply[m] = "none" /\ taken[m] = <<>>
    BY DEF Init
  <2> QED
    BY <2>1 DEF AnswersComeLast, KeptOrRemembered, PromisedInputs, Range
<1>2. SignedInv /\ [Next]_vars => SignedInv'
  <2>1. ASSUME SignedInv, [Next]_vars PROVE SignedInv'
    BY <2>1, TypeStep, AnswersStay, KeptStep, PromisedStep DEF SignedInv
  <2> QED
    BY <2>1
<1>3. SignedInv => SignedTwiceIsGivenUp
  <2> SUFFICES ASSUME SignedInv, NEW g \in signed, NEW h \in signed, g.tradeId # h.tradeId,
                      NEW u \in g.inputs \cap h.inputs
               PROVE  <<g.tradeId, u>> \in lapsed \/ <<h.tradeId, u>> \in lapsed
    BY DEF SignedTwiceIsGivenUp
  <2>1. ASSUME NEW k \in signed, u \in k.inputs
        PROVE  u \in HeldBy(k.tradeId) \/ <<k.tradeId, u>> \in lapsed
    <3>1. PICK n \in Messages : Promises(n, k.tradeId, k.inputs)
      BY DEF SignedInv, PromisedInputs
    <3> QED
      BY <2>1, <3>1 DEF Promises, SignedInv, KeptOrRemembered
  <2> QED
    BY <2>1 DEF HeldBy
<1> QED
  BY <1>1, <1>2, <1>3, PTL DEF Spec

-------------------------------------------------------------------------------
(* The timeout.                                                            *)

(* A reservation is younger than its timeout when the cleanup has run, and *)
(* ages no faster than the timer counts.                                   *)
AgeInv ==
  /\ TypeOK
  /\ \A u \in DOMAIN reserved : reserved[u].age < TIMEOUT + sinceCleanup

(* Every step keeps the ages below the timeout plus the timer.             *)
LEMMA AgeStep == AgeInv /\ [Next]_vars => AgeInv'
<1> SUFFICES ASSUME AgeInv, [Next]_vars
             PROVE  \A u \in DOMAIN reserved' : reserved'[u].age < TIMEOUT + sinceCleanup'
  BY TypeStep DEF AgeInv
<1> USE ExecutionAssumption DEF AgeInv, memory, history, world
<1>0. /\ sinceCleanup \in Nat /\ TIMEOUT \in Nat \ {0} /\ CLEANUP_INTERVAL \in Nat
      /\ \A u \in DOMAIN reserved : IsReservation(reserved[u])
  BY DEF TypeOK, WorldTypeOK, MemoryTypeOK
<1> DEFINE Good == \A u \in DOMAIN reserved' : reserved'[u].age < TIMEOUT + sinceCleanup'
<1>1. CASE Tick
  <2> SUFFICES ASSUME NEW u \in DOMAIN reserved
               PROVE  [reserved[u] EXCEPT !.age = Older(@, TIMEOUT + CLEANUP_INTERVAL)].age
                        < TIMEOUT + (sinceCleanup + 1)
    BY <1>1 DEF Tick
  <2> QED
    BY <1>0 DEF IsReservation, Older
<1>2. CASE CleanupExpiredReservations
  <2> SUFFICES ASSUME NEW u \in DOMAIN reserved, ~Expired(reserved[u].age)
               PROVE  reserved[u].age < TIMEOUT + 0
    BY <1>2 DEF CleanupExpiredReservations, RestrictDomain, Restrict
  <2> QED
    BY <1>0 DEF IsReservation, Expired
<1>3. ASSUME NEW m \in Messages, TakeUtxos(m)
      PROVE  Good
  <2>1. \A u \in DOMAIN reserved' :
          reserved'[u].age = 0 \/ (u \in DOMAIN reserved /\ reserved'[u] = reserved[u])
    BY <1>3 DEF TakeUtxos, WithPick
  <2>2. UNCHANGED sinceCleanup
    BY <1>3 DEF TakeUtxos
  <2>3. \A u \in DOMAIN reserved' : reserved'[u].age < TIMEOUT + sinceCleanup
    <3> SUFFICES ASSUME NEW u \in DOMAIN reserved'
                 PROVE  reserved'[u].age < TIMEOUT + sinceCleanup
      OBVIOUS
    <3>1. CASE reserved'[u].age = 0
      BY <1>0, <3>1
    <3>2. CASE u \in DOMAIN reserved /\ reserved'[u] = reserved[u]
      BY <3>2
    <3> QED
      BY <2>1, <3>1, <3>2
  <2>4. QED
    BY <2>2, <2>3
<1>4. ASSUME NEW m \in Messages, ReserveFails(m) \/ ReceiveCancel(m)
      PROVE  Good
  BY <1>4 DEF ReserveFails, ReceiveCancel, CancelNow, WithoutTrade, Restrict
<1>5. CASE Restart
  BY <1>5 DEF Restart
<1>6. ASSUME NEW m \in Messages,
             \/ ReceiveReserve(m) \/ ReceiveSign(m) \/ SignStep(m) \/ CancelStep(m)
             \/ ReadOrder(m) \/ UseSurplus(m) \/ ListUtxos(m) \/ FindTransaction(m)
             \/ InsertTransaction(m) \/ UpdateTransaction(m)
             \/ PublishSuccess(m) \/ PublishFails(m) \/ PublishError(m)
      PROVE  UNCHANGED <<reserved, sinceCleanup>>
  BY <1>6 DEF ReceiveReserve, ReceiveSign, SignStep, ValidatePsbt, SendSignature,
       SignFails, CancelStep, CancelFindTransaction, CancelFindOrders, CancelSave,
       CancelFails, ReadOrder, UseSurplus, ListUtxos, FindTransaction,
       InsertTransaction, UpdateTransaction, PublishSuccess, PublishFails, PublishError
<1>7. ASSUME (\E o \in Orders : DeleteOrder(o)) \/ Broadcast \/ UNCHANGED vars
      PROVE  UNCHANGED <<reserved, sinceCleanup>>
  BY <1>7 DEF DeleteOrder, Broadcast, vars
<1>8. QED
  BY <1>1, <1>2, <1>3, <1>4, <1>5, <1>6, <1>7 DEF Next, ReserveStep

(* No reservation outlives its timeout by a whole period of the cleanup    *)
(* (event-handler.service.ts:30-31, 41, 47-61).                            *)
THEOREM ReservationsTimeOut == Spec => []ReservationExpires
<1>1. Init => AgeInv
  BY TypeInit DEF Init, AgeInv
<1>2. AgeInv => ReservationExpires
  <2> SUFFICES ASSUME AgeInv, NEW u \in DOMAIN reserved
               PROVE  reserved[u].age < TIMEOUT + CLEANUP_INTERVAL
    BY DEF ReservationExpires
  <2>1. reserved[u].age \in Nat /\ sinceCleanup \in 0..CLEANUP_INTERVAL
    BY ExecutionAssumption DEF AgeInv, TypeOK, MemoryTypeOK, WorldTypeOK, IsReservation
  <2>2. QED
    BY <2>1, ExecutionAssumption DEF AgeInv
<1>3. QED
  BY <1>1, <1>2, AgeStep, PTL DEF Spec

-------------------------------------------------------------------------------
(* No output is forgotten.  A reserved output of a trade that no message   *)
(* cancels is written down in its trade's row, whose loss only an error    *)
(* excuses, or is about to be.                                             *)

Writing == {"lookup", "insert", "update"}

Written(u) ==
  LET t == reserved[u].tradeId
  IN t \in DOMAIN tx /\ (u \in Range(tx[t].reservedUtxos) \/ tx[t].status = "errored")

BeingWritten(u) ==
  \E m \in Messages : /\ pc[m] \in Writing
                      /\ TradeOf(m) = reserved[u].tradeId
                      /\ u \in Range(taken[m])

(* The row a handler has loaded and will save misses none of them.         *)
LoadedRowIsComplete ==
  \A m \in Messages : pc[m] = "update" =>
    \/ Cancelled(TradeOf(m))
    \/ seen[m].status = "errored"
    \/ \A u \in DOMAIN reserved : reserved[u].tradeId = TradeOf(m) =>
         u \in Range(seen[m].reservedUtxos) \cup Range(taken[m])

(* A handler's own cancel comes after its request.                         *)
CancelsComeLater == \A m \in Messages : Reserving(m) => cpc[m] = "none"

WrittenInv ==
  /\ LockInv
  /\ \A u \in DOMAIN reserved :
       Cancelled(reserved[u].tradeId) \/ Written(u) \/ BeingWritten(u)
  /\ LoadedRowIsComplete
  /\ CancelsComeLater

(* A step that adds no reservation, takes nothing out of the rows, and     *)
(* leaves those alone who are writing reservations down.                   *)
LEMMA QuietWritten ==
  ASSUME WrittenInv, LockInv', \A t : Cancelled(t) => Cancelled(t)',
         \A u \in DOMAIN reserved' : u \in DOMAIN reserved /\ reserved'[u].tradeId = reserved[u].tradeId,
         \A t \in DOMAIN tx : /\ t \in DOMAIN tx'
                              /\ tx'[t].reservedUtxos = tx[t].reservedUtxos
                              /\ tx'[t].status = tx[t].status,
         \A m \in Messages : pc[m] \in Writing => 
            pc'[m] \in Writing /\ msg'[m] = msg[m] /\ taken'[m] = taken[m],
         \A m \in Messages : pc'[m] = "update" => pc[m] = "update" /\ seen'[m] = seen[m],
         \A m \in Messages : Reserving(m)' => cpc'[m] = "none"
  PROVE  WrittenInv'
<1>1. \A u \in DOMAIN reserved' : Cancelled(reserved[u].tradeId)' \/ Written(u)' \/ BeingWritten(u)'
  <2> SUFFICES ASSUME NEW u \in DOMAIN reserved'
               PROVE  Cancelled(reserved[u].tradeId)' \/ Written(u)' \/ BeingWritten(u)'
    OBVIOUS
  <2>1. u \in DOMAIN reserved /\ reserved'[u].tradeId = reserved[u].tradeId
    OBVIOUS
  <2>2. CASE Written(u)
    BY <2>1, <2>2 DEF Written
  <2>3. CASE BeingWritten(u)
    BY <2>1, <2>3 DEF BeingWritten, TradeOf
  <2>4. CASE Cancelled(reserved[u].tradeId)
    BY <2>1, <2>4
  <2> QED
    BY <2>1, <2>2, <2>3, <2>4 DEF WrittenInv
<1>2. LoadedRowIsComplete'
  <2> SUFFICES ASSUME NEW m \in Messages, pc'[m] = "update"
               PROVE  \/ Cancelled(TradeOf(m))'
                      \/ seen'[m].status = "errored"
                      \/ \A u \in DOMAIN reserved' : reserved'[u].tradeId = TradeOf(m)' =>
                           u \in Range(seen'[m].reservedUtxos) \cup Range(taken'[m])
    BY DEF LoadedRowIsComplete
  <2>1. pc[m] = "update" /\ seen'[m] = seen[m] /\ taken'[m] = taken[m] /\ TradeOf(m)' = TradeOf(m)
    BY DEF Writing, TradeOf
  <2> QED
    BY <2>1 DEF WrittenInv, LoadedRowIsComplete
<1>3. CancelsComeLater'
  BY DEF CancelsComeLater
<1> QED
  BY <1>1, <1>2, <1>3 DEF WrittenInv

(* The types that the invariant gives.                                     *)
LEMMA WrittenTypes ==
  ASSUME WrittenInv
  PROVE  /\ TypeOK
         /\ pc \in [Messages -> Pcs] /\ DOMAIN msg = Messages /\ DOMAIN taken = Messages
         /\ DOMAIN seen = Messages /\ cpc \in [Messages -> {"none", "tx", "orders", "save", "done"}]
         /\ \A m \in Messages : pc[m] = "idle" => cpc[m] = "none"
         /\ \A m, n \in Messages :
               Reserving(m) /\ Reserving(n) /\ TradeOf(m) = TradeOf(n) =>
                 m = n \/ Cancelled(TradeOf(m))
BY DEF WrittenInv, LockInv, TypeOK, ControlTypeOK, LocalsTypeOK, OneReservePerTrade

(* Messages arrive; handlers read, answer and sign; cancels read.          *)
LEMMA ReadingWritten ==
  ASSUME WrittenInv, LockInv', \A t : Cancelled(t) => Cancelled(t)', NEW m \in Messages,
         \/ ReceiveReserve(m) \/ ReceiveCancel(m) \/ ReceiveSign(m)
         \/ ReadOrder(m) \/ ListUtxos(m) \/ PublishSuccess(m) \/ PublishFails(m) \/ PublishError(m)
         \/ CancelFindTransaction(m) \/ CancelFindOrders(m) \/ CancelFails(m) \/ SignStep(m)
  PROVE  WrittenInv'
<1>0. /\ pc \in [Messages -> Pcs] /\ DOMAIN msg = Messages /\ DOMAIN seen = Messages
      /\ cpc \in [Messages -> {"none", "tx", "orders", "save", "done"}]
      /\ \A n \in Messages : pc[n] = "idle" => cpc[n] = "none"
  BY WrittenTypes
<1> USE DEF memory, database, locals, world, Goto, CancelGoto
<1>1. /\ UNCHANGED <<tx, taken>>
      /\ \A u \in DOMAIN reserved' : u \in DOMAIN reserved /\ reserved'[u] = reserved[u]
  <2>1. UNCHANGED reserved \/ \E t : reserved' = WithoutTrade(t)
    BY DEF ReceiveReserve, ReceiveCancel, CancelNow, ReceiveSign, ReadOrder, ListUtxos,
       PublishSuccess, PublishFails, PublishError, CancelFindTransaction, CancelFindOrders,
       CancelFails, SignStep, ValidatePsbt, SendSignature, SignFails
  <2>2. \A u \in DOMAIN reserved' : u \in DOMAIN reserved /\ reserved'[u] = reserved[u]
    BY <2>1 DEF WithoutTrade, Restrict
  <2>3. UNCHANGED <<tx, taken>>
    BY DEF ReceiveReserve, ReceiveCancel, ReceiveSign, ReadOrder, ListUtxos,
       PublishSuccess, PublishFails, PublishError, CancelFindTransaction, CancelFindOrders,
       CancelFails, SignStep, ValidatePsbt, SendSignature, SignFails
  <2> QED
    BY <2>2, <2>3
<1>2. CASE ReceiveReserve(m) \/ ReceiveCancel(m) \/ ReceiveSign(m)
  <2>1. /\ pc[m] = "idle" /\ pc'[m] \in {"read", "reply_error", "validate", "done"}
        /\ UNCHANGED seen /\ (pc'[m] = "done" \/ UNCHANGED cpc)
    BY <1>0, <1>2 DEF ReceiveReserve, ReceiveCancel, Receive, ReceiveSign, CancelNow
  <2>2. \A n \in Messages \ {m} : pc'[n] = pc[n] /\ msg'[n] = msg[n] /\ cpc'[n] = cpc[n]
    BY <1>0, <1>2 DEF ReceiveReserve, ReceiveCancel, Receive, ReceiveSign, CancelNow
  <2>3. /\ \A n \in Messages : pc[n] \in Writing => pc'[n] \in Writing /\ msg'[n] = msg[n]
        /\ \A n \in Messages : pc'[n] = "update" => pc[n] = "update"
    BY <2>1, <2>2 DEF Writing
  <2>4. \A n \in Messages : Reserving(n)' => cpc'[n] = "none"
    BY <1>0, <2>1, <2>2 DEF WrittenInv, CancelsComeLater, Reserving, ReservePcs
  <2> QED
    BY <1>1, <2>1, <2>3, <2>4, QuietWritten
<1>3. CASE \/ ReadOrder(m) \/ ListUtxos(m) \/ PublishSuccess(m) \/ PublishFails(m) \/ PublishError(m)
           \/ SignStep(m)
  <2>1. /\ UNCHANGED <<msg, cpc, seen>>
        /\ \A n \in Messages : pc[n] \in Writing => pc'[n] = pc[n]
        /\ \A n \in Messages : pc'[n] = "update" => pc[n] = "update"
        /\ \A n \in Messages : Reserving(n)' => Reserving(n)
    BY <1>0, <1>3 DEF ReadOrder, ListUtxos, PublishSuccess, PublishFails, PublishError, SignStep,
       ValidatePsbt, SendSignature, SignFails, Writing, Reserving, ReservePcs
  <2>2. \A n \in Messages : Reserving(n)' => cpc'[n] = "none"
    BY <2>1 DEF WrittenInv, CancelsComeLater
  <2> QED
    BY <1>1, <2>1, <2>2, QuietWritten
<1>4. CASE CancelFindTransaction(m) \/ CancelFindOrders(m) \/ CancelFails(m)
  <2>1. /\ UNCHANGED <<msg, pc>> /\ cpc[m] # "none"
        /\ \A n \in Messages \ {m} : seen'[n] = seen[n] /\ cpc'[n] = cpc[n]
    BY <1>0, <1>4 DEF CancelFindTransaction, CancelFindOrders, CancelFails
  <2>2. ~ Reserving(m) /\ pc[m] # "update"
    BY <2>1 DEF WrittenInv, CancelsComeLater, Reserving, ReservePcs
  <2>3. \A n \in Messages : Reserving(n)' => cpc'[n] = "none"
    BY <2>1, <2>2 DEF WrittenInv, CancelsComeLater, Reserving
  <2>4. \A n \in Messages : pc'[n] = "update" => pc[n] = "update" /\ seen'[n] = seen[n]
    BY <2>1, <2>2
  <2> QED
    BY <1>1, <2>1, <2>3, <2>4, QuietWritten
<1> QED
  BY <1>2, <1>3, <1>4

(* The clock, the timer, the operator, the chain and a restart.            *)
LEMMA OutsideWritten ==
  ASSUME WrittenInv, LockInv', \A t : Cancelled(t) => Cancelled(t)',
         \/ Tick \/ CleanupExpiredReservations \/ Restart \/ Broadcast
         \/ (\E o \in Orders : DeleteOrder(o)) \/ UNCHANGED vars
  PROVE  WrittenInv'
<1>0. TypeOK
  BY WrittenTypes
<1> USE DEF memory, database, locals, history, world, vars
<1>1. CASE Restart
  <2>1. DOMAIN reserved' = {} /\ \A m \in Messages : pc'[m] \in {"idle", "done"}
    BY <1>1 DEF Restart
  <2> QED
    BY <2>1 DEF WrittenInv, LoadedRowIsComplete, CancelsComeLater, Reserving, ReservePcs
<1>2. CASE ~ Restart
  <2>1. UNCHANGED <<msg, pc, cpc, taken, seen>>
    BY <1>2 DEF Tick, CleanupExpiredReservations, Broadcast, DeleteOrder
  <2>2. \A u \in DOMAIN reserved' : u \in DOMAIN reserved /\ reserved'[u].tradeId = reserved[u].tradeId
    <3>1. CASE Tick
      <4> SUFFICES ASSUME NEW u \in DOMAIN reserved
                   PROVE  reserved'[u].tradeId = reserved[u].tradeId
        BY <3>1 DEF Tick
      <4>1. DOMAIN reserved[u] = {"tradeId", "age", "orderAmount", "position"}
        BY <1>0 DEF TypeOK, MemoryTypeOK, IsReservation
      <4> QED
        BY <3>1, <4>1 DEF Tick
    <3>2. CASE CleanupExpiredReservations
      BY <3>2 DEF CleanupExpiredReservations, RestrictDomain, Restrict
    <3>3. CASE UNCHANGED reserved
      BY <3>3
    <3> QED
      BY <1>2, <3>1, <3>2, <3>3 DEF Broadcast, DeleteOrder
  <2>3. \A t \in DOMAIN tx : /\ t \in DOMAIN tx'
                             /\ tx'[t].reservedUtxos = tx[t].reservedUtxos
                             /\ tx'[t].status = tx[t].status
    <3>1. CASE Tick
      <4> SUFFICES ASSUME NEW t \in DOMAIN tx
                   PROVE  /\ t \in DOMAIN tx'
                          /\ tx'[t].reservedUtxos = tx[t].reservedUtxos
                          /\ tx'[t].status = tx[t].status
        OBVIOUS
      <4>1. tx'[t] = [tx[t] EXCEPT !.age = Older(@, PROPAGATION)] /\ t \in DOMAIN tx'
        BY <3>1 DEF Tick
      <4>2. DOMAIN tx[t] = {"status", "type", "orders", "amount", "satsAmount", "reservedUtxos", "age"}
        BY <1>0 DEF TypeOK, DatabaseTypeOK, IsTransaction
      <4> QED
        BY <4>1, <4>2
    <3>2. CASE UNCHANGED tx
      BY <3>2
    <3> QED
      BY <1>2, <3>1, <3>2 DEF Broadcast, DeleteOrder, CleanupExpiredReservations
  <2>4. \A m \in Messages : Reserving(m)' => cpc'[m] = "none"
    BY <2>1 DEF WrittenInv, CancelsComeLater, Reserving
  <2> QED
    BY <2>1, <2>2, <2>3, <2>4, QuietWritten
<1> QED
  BY <1>1, <1>2

(* A listing of a set names all of it.                                     *)
LEMMA ListingsRange ==
  ASSUME NEW S \in SUBSET Utxos, NEW rank \in [S -> Int], NEW s \in Listings(S, rank)
  PROVE  Range(s) = S
<1> DEFINE n == Cardinality(S)
<1>1. IsFiniteSet(S) /\ n \in Nat
  BY ExecutionAssumption, FS_Subset, FS_CardinalityType
<1>2. s \in [1..n -> S] /\ \A i, j \in 1..n : i < j => rank[s[i]] < rank[s[j]]
  BY DEF Listings
<1>3. Cardinality(1..n) = n
  <2>1. 1 \in Int /\ n \in Int /\ (1 > n => n = 0) /\ (n - 1) + 1 = n
    BY <1>1
  <2>2. Cardinality(1..n) = IF 1 > n THEN 0 ELSE n - 1 + 1
    BY <2>1, FS_Interval, Zenon
  <2> QED
    BY <2>1, <2>2
<1> HIDE DEF n
<1>4. \A i, j \in 1..n : s[i] = s[j] => i = j
  <2> SUFFICES ASSUME NEW i \in 1..n, NEW j \in 1..n, s[i] = s[j], i < j
               PROVE  FALSE
    BY <1>1
  <2>1. rank[s[i]] \in Int
    BY <1>2
  <2> QED
    BY <1>2, <2>1
<1>5. s \in Injection(1..n, S)
  BY <1>2, <1>4 DEF Injection, IsInjective
<1>6. s \in Surjection(1..n, S)
  BY <1>1, <1>3, <1>5, FS_Injection DEF n
<1> QED
  BY <1>6 DEF Surjection, Range

(* A handler that reserves is the only one that may be writing down what   *)
(* its trade holds.                                                        *)
LEMMA OnlyOneWrites ==
  ASSUME WrittenInv, NEW m \in Messages, Reserving(m),
         NEW u \in DOMAIN reserved, reserved[u].tradeId = TradeOf(m), ~ Cancelled(TradeOf(m))
  PROVE  Written(u) \/ (pc[m] \in Writing /\ u \in Range(taken[m]))
<1>1. ASSUME NEW n \in Messages, pc[n] \in Writing, TradeOf(n) = TradeOf(m) PROVE n = m
  BY <1>1, WrittenTypes DEF Writing, Reserving, ReservePcs
<1> QED
  BY <1>1 DEF WrittenInv, BeingWritten

(* A handler picks outputs, or finds what its trade has.                   *)
LEMMA PickingWritten ==
  ASSUME WrittenInv, LockInv', \A t : Cancelled(t) => Cancelled(t)', NEW m \in Messages, UseSurplus(m) \/ TakeUtxos(m)
  PROVE  WrittenInv'
<1>0. /\ TypeOK /\ pc \in [Messages -> Pcs] /\ DOMAIN taken = Messages
  BY WrittenTypes
<1> USE DEF memory, database, locals, world, Goto
<1>1. /\ pc[m] \in {"rune", "take"} /\ pc'[m] = "lookup"
      /\ UNCHANGED <<tx, msg, cpc, seen>>
      /\ \A n \in Messages \ {m} : pc'[n] = pc[n] /\ taken'[n] = taken[n]
  <2>1. CASE UseSurplus(m)
    BY <1>0, <2>1 DEF UseSurplus
  <2>2. CASE TakeUtxos(m)
    BY <1>0, <2>2 DEF TakeUtxos
  <2> QED
    BY <2>1, <2>2
<1>2. \A u \in DOMAIN reserved' :
        \/ u \in DOMAIN reserved /\ reserved'[u] = reserved[u]
        \/ reserved'[u].tradeId = TradeOf(m) /\ u \in Range(taken'[m])
  <2>1. CASE UseSurplus(m)
    BY <2>1 DEF UseSurplus
  <2>2. CASE TakeUtxos(m)
    <3>1. PICK s : /\ reserved' = WithPick(TradeOf(m), s, Required(msg[m].orders))
                   /\ taken' = [taken EXCEPT ![m] = s]
      BY <2>2 DEF TakeUtxos
    <3> QED
      BY <1>0, <3>1 DEF WithPick
  <2> QED
    BY <2>1, <2>2
<1>3. Reserving(m)
  BY <1>1 DEF Reserving, ReservePcs
<1>4. ASSUME NEW u \in DOMAIN reserved' PROVE Cancelled(reserved[u].tradeId)' \/ Written(u)' \/ BeingWritten(u)'
  <2>1. CASE reserved'[u].tradeId = TradeOf(m) /\ u \in Range(taken'[m])
    BY <1>1, <2>1 DEF BeingWritten, Writing, TradeOf
  <2>2. CASE u \in DOMAIN reserved /\ reserved'[u] = reserved[u] /\ Written(u)
    BY <1>1, <2>2 DEF Written
  <2>3. CASE u \in DOMAIN reserved /\ reserved'[u] = reserved[u] /\ BeingWritten(u)
    <3>1. PICK n \in Messages : /\ pc[n] \in Writing
                                /\ TradeOf(n) = reserved[u].tradeId
                                /\ u \in Range(taken[n])
      BY <2>3 DEF BeingWritten
    <3>2. n # m
      BY <1>1, <3>1 DEF Writing
    <3> QED
      BY <1>1, <2>3, <3>1, <3>2 DEF BeingWritten, TradeOf
  <2>4. CASE u \in DOMAIN reserved /\ reserved'[u] = reserved[u] /\ Cancelled(reserved[u].tradeId)
    BY <2>4
  <2> QED
    BY <1>2, <2>1, <2>2, <2>3, <2>4 DEF WrittenInv
<1>5. LoadedRowIsComplete'
  <2> SUFFICES ASSUME NEW n \in Messages, pc'[n] = "update"
               PROVE  \/ Cancelled(TradeOf(n))'
                      \/ seen'[n].status = "errored"
                      \/ \A u \in DOMAIN reserved' : reserved'[u].tradeId = TradeOf(n)' =>
                           u \in Range(seen'[n].reservedUtxos) \cup Range(taken'[n])
    BY DEF LoadedRowIsComplete
  <2>1. n # m /\ pc[n] = "update" /\ taken'[n] = taken[n] /\ TradeOf(n)' = TradeOf(n)
    BY <1>1 DEF TradeOf
  <2>2. TradeOf(n) # TradeOf(m) \/ Cancelled(TradeOf(n))
    BY <1>3, <2>1, WrittenTypes DEF Reserving, ReservePcs
  <2>3. TradeOf(n) # TradeOf(m) =>
          \A u \in DOMAIN reserved' : reserved'[u].tradeId = TradeOf(n) =>
            u \in DOMAIN reserved /\ reserved[u].tradeId = TradeOf(n)
    BY <1>2
  <2> QED
    BY <1>1, <2>1, <2>2, <2>3 DEF WrittenInv, LoadedRowIsComplete
<1>6. CancelsComeLater'
  BY <1>1, <1>3 DEF WrittenInv, CancelsComeLater, Reserving
<1> QED
  BY <1>4, <1>5, <1>6 DEF WrittenInv

(* The other handlers go on as before: what they are writing down they     *)
(* still are, and the rows they have loaded are still complete.            *)
LEMMA OthersWritten ==
  ASSUME WrittenInv, \A t : Cancelled(t) => Cancelled(t)', NEW m \in Messages,
         UNCHANGED <<msg, taken>>,
         \A u \in DOMAIN reserved' : u \in DOMAIN reserved /\ reserved'[u] = reserved[u],
         \A n \in Messages \ {m} : pc'[n] = pc[n] /\ seen'[n] = seen[n]
  PROVE  /\ \A u \in DOMAIN reserved' : BeingWritten(u) =>
               BeingWritten(u)' \/ (pc[m] \in Writing /\ reserved[u].tradeId = TradeOf(m))
         /\ pc'[m] # "update" => LoadedRowIsComplete'
<1>1. ASSUME NEW u \in DOMAIN reserved', BeingWritten(u)
      PROVE  BeingWritten(u)' \/ (pc[m] \in Writing /\ reserved[u].tradeId = TradeOf(m))
  <2>1. PICK n \in Messages : /\ pc[n] \in Writing
                              /\ TradeOf(n) = reserved[u].tradeId
                              /\ u \in Range(taken[n])
    BY <1>1 DEF BeingWritten
  <2>2. CASE n = m
    BY <2>1, <2>2
  <2>3. CASE n # m
    BY <2>1, <2>3 DEF BeingWritten, TradeOf
  <2> QED
    BY <2>2, <2>3
<1>2. ASSUME pc'[m] # "update" PROVE LoadedRowIsComplete'
  <2> SUFFICES ASSUME NEW n \in Messages, pc'[n] = "update"
               PROVE  \/ Cancelled(TradeOf(n))'
                      \/ seen'[n].status = "errored"
                      \/ \A u \in DOMAIN reserved' : reserved'[u].tradeId = TradeOf(n)' =>
                           u \in Range(seen'[n].reservedUtxos) \cup Range(taken'[n])
    BY DEF LoadedRowIsComplete
  <2>1. n # m /\ pc[n] = "update" /\ seen'[n] = seen[n] /\ TradeOf(n)' = TradeOf(n)
    BY <1>2 DEF TradeOf
  <2> QED
    BY <2>1 DEF WrittenInv, LoadedRowIsComplete
<1> QED
  BY <1>1, <1>2

(* The transaction is looked up: what its row misses the handler has.      *)
LEMMA FindingWritten ==
  ASSUME WrittenInv, LockInv', \A t : Cancelled(t) => Cancelled(t)', NEW m \in Messages, FindTransaction(m)
  PROVE  WrittenInv'
<1>0. pc \in [Messages -> Pcs] /\ DOMAIN seen = Messages
  BY WrittenTypes
<1>1. /\ UNCHANGED <<reserved, tx, msg, cpc, taken>>
      /\ pc[m] = "lookup" /\ pc'[m] \in {"insert", "update"}
      /\ \A n \in Messages \ {m} : pc'[n] = pc[n] /\ seen'[n] = seen[n]
      /\ pc'[m] = "update" => TradeOf(m) \in DOMAIN tx /\ seen'[m] = tx[TradeOf(m)]
  BY <1>0 DEF FindTransaction, memory, database, Goto
<1>2. Reserving(m)
  BY <1>1 DEF Reserving, ReservePcs
<1>3. ASSUME NEW u \in DOMAIN reserved PROVE Cancelled(reserved[u].tradeId)' \/ Written(u)' \/ BeingWritten(u)'
  <2>1. CASE Written(u)
    BY <1>1, <2>1 DEF Written
  <2>2. CASE BeingWritten(u)
    BY <1>1, <2>2 DEF BeingWritten, Writing, TradeOf
  <2>3. CASE Cancelled(reserved[u].tradeId)
    BY <1>1, <2>3
  <2> QED
    BY <2>1, <2>2, <2>3 DEF WrittenInv
<1>4. CASE pc'[m] = "update"
  <2> SUFFICES ASSUME NEW n \in Messages, pc'[n] = "update"
               PROVE  \/ Cancelled(TradeOf(n))
                      \/ seen'[n].status = "errored"
                      \/ \A u \in DOMAIN reserved : reserved[u].tradeId = TradeOf(n) =>
                           u \in Range(seen'[n].reservedUtxos) \cup Range(taken[n])
    <3>1. LoadedRowIsComplete'
      BY <1>1 DEF LoadedRowIsComplete, TradeOf
    <3>2. CancelsComeLater'
      BY <1>1, <1>2 DEF WrittenInv, CancelsComeLater, Reserving
    <3> QED
      BY <1>1, <1>3, <3>1, <3>2 DEF WrittenInv
  <2>1. CASE n = m
    <3>1. \A u \in DOMAIN reserved : reserved[u].tradeId = TradeOf(m) =>
            \/ Cancelled(TradeOf(m))
            \/ u \in Range(tx[TradeOf(m)].reservedUtxos)
            \/ tx[TradeOf(m)].status = "errored"
            \/ u \in Range(taken[m])
      BY <1>2, OnlyOneWrites DEF Written
    <3> QED
      BY <1>1, <1>4, <2>1, <3>1
  <2>2. CASE n # m
    BY <1>1, <2>2 DEF WrittenInv, LoadedRowIsComplete
  <2> QED
    BY <2>1, <2>2
<1>5. CASE pc'[m] # "update"
  <2>1. LoadedRowIsComplete'
    BY <1>1, <1>5, OthersWritten
  <2>2. CancelsComeLater'
    BY <1>1, <1>2 DEF WrittenInv, CancelsComeLater, Reserving
  <2> QED
    BY <1>1, <1>3, <2>1, <2>2 DEF WrittenInv
<1> QED
  BY <1>4, <1>5

(* A row is saved by the handler that wrote it, and what the trade holds   *)
(* is in it.                                                               *)
LEMMA RowWritten ==
  ASSUME WrittenInv, LockInv', \A t : Cancelled(t) => Cancelled(t)', NEW m \in Messages, NEW row,
         pc[m] \in {"insert", "update"}, pc'[m] = "publish",
         UNCHANGED <<reserved, msg, cpc, taken, seen>>,
         \A n \in Messages \ {m} : pc'[n] = pc[n],
         \A t \in DOMAIN tx \ {TradeOf(m)} : t \in DOMAIN tx' /\ tx'[t] = tx[t],
         TradeOf(m) \in DOMAIN tx' /\ tx'[TradeOf(m)] = row,
         \/ Cancelled(TradeOf(m))
         \/ row.status = "errored"
         \/ \A u \in DOMAIN reserved : reserved[u].tradeId = TradeOf(m) =>
              u \in Range(row.reservedUtxos)
  PROVE  WrittenInv'
<1>1. LoadedRowIsComplete'
  BY OthersWritten
<1>2. ASSUME NEW u \in DOMAIN reserved PROVE Cancelled(reserved[u].tradeId)' \/ Written(u)' \/ BeingWritten(u)'
  <2>1. CASE reserved[u].tradeId = TradeOf(m) /\ ~ Cancelled(TradeOf(m))
    BY <2>1 DEF Written
  <2>2. CASE reserved[u].tradeId # TradeOf(m) /\ Written(u)
    BY <2>2 DEF Written
  <2>4. CASE Cancelled(reserved[u].tradeId)
    BY <2>4
  <2>3. CASE reserved[u].tradeId # TradeOf(m) /\ BeingWritten(u)
    <3>1. \A v \in DOMAIN reserved' : v \in DOMAIN reserved /\ reserved'[v] = reserved[v]
      OBVIOUS
    <3> QED
      BY <2>3, <3>1, OthersWritten
  <2> QED
    BY <2>1, <2>2, <2>3, <2>4 DEF WrittenInv
<1>3. CancelsComeLater'
  BY DEF WrittenInv, CancelsComeLater, Reserving, ReservePcs
<1> QED
  BY <1>1, <1>2, <1>3 DEF WrittenInv

(* A first row lists what was picked, and the trade holds nothing else.    *)
LEMMA InsertWritten ==
  ASSUME WrittenInv, LockInv', \A t : Cancelled(t) => Cancelled(t)', NEW m \in Messages, InsertTransaction(m)
  PROVE  WrittenInv'
<1>0. pc \in [Messages -> Pcs]
  BY WrittenTypes
<1>1. /\ UNCHANGED <<reserved, msg, cpc, taken, seen>>
      /\ pc[m] = "insert" /\ pc'[m] = "publish" /\ TradeOf(m) \notin DOMAIN tx
      /\ \A n \in Messages \ {m} : pc'[n] = pc[n]
      /\ tx' = Saved(tx, Entry(TradeOf(m), NewTransaction(m)))
  BY <1>0 DEF InsertTransaction, memory, locals, Goto
<1>2. /\ \A t \in DOMAIN tx \ {TradeOf(m)} : t \in DOMAIN tx' /\ tx'[t] = tx[t]
      /\ TradeOf(m) \in DOMAIN tx' /\ tx'[TradeOf(m)] = NewTransaction(m)
  BY <1>1 DEF Saved, Entry
<1>3. NewTransaction(m).reservedUtxos = taken[m]
  BY DEF NewTransaction
<1>4. \/ Cancelled(TradeOf(m))
      \/ \A u \in DOMAIN reserved : reserved[u].tradeId = TradeOf(m) => u \in Range(taken[m])
  BY <1>1, OnlyOneWrites DEF Written, Reserving, ReservePcs
<1> QED
  BY <1>1, <1>2, <1>3, <1>4, RowWritten

(* What a concatenation names.                                             *)
LEMMA ConcatenationRange ==
  ASSUME NEW S, NEW s \in Seq(S), NEW t \in Seq(S)
  PROVE  Range(s \o t) = Range(s) \cup Range(t)
<1>1. /\ Len(s) \in Nat /\ Len(t) \in Nat /\ DOMAIN s = 1..Len(s) /\ DOMAIN t = 1..Len(t)
      /\ DOMAIN (s \o t) = 1..(Len(s) + Len(t))
      /\ \A i \in 1..(Len(s) + Len(t)) :
           (s \o t)[i] = IF i =< Len(s) THEN s[i] ELSE t[i - Len(s)]
  OBVIOUS
<1>2. ASSUME NEW x \in Range(s \o t) PROVE x \in Range(s) \cup Range(t)
  <2>1. PICK i \in 1..(Len(s) + Len(t)) : x = (s \o t)[i]
    BY <1>1 DEF Range
  <2>2. CASE i =< Len(s)
    BY <1>1, <2>1, <2>2 DEF Range
  <2>3. CASE ~ (i =< Len(s))
    <3>1. i - Len(s) \in 1..Len(t) /\ x = t[i - Len(s)]
      BY <1>1, <2>1, <2>3
    <3> QED
      BY <1>1, <3>1 DEF Range
  <2> QED
    BY <2>2, <2>3
<1>3. ASSUME NEW x \in Range(s) PROVE x \in Range(s \o t)
  <2>1. PICK i \in 1..Len(s) : x = s[i]
    BY <1>1, <1>3 DEF Range
  <2>2. i \in 1..(Len(s) + Len(t)) /\ (s \o t)[i] = x
    BY <1>1, <2>1
  <2> QED
    BY <1>1, <2>2 DEF Range
<1>4. ASSUME NEW x \in Range(t) PROVE x \in Range(s \o t)
  <2>1. PICK i \in 1..Len(t) : x = t[i]
    BY <1>1, <1>4 DEF Range
  <2>2. /\ Len(s) + i \in 1..(Len(s) + Len(t)) /\ ~ (Len(s) + i =< Len(s))
        /\ (Len(s) + i) - Len(s) = i
    BY <1>1, <2>1
  <2>3. (s \o t)[Len(s) + i] = x
    BY <1>1, <2>1, <2>2
  <2> QED
    BY <1>1, <2>2, <2>3 DEF Range
<1> QED
  BY <1>2, <1>3, <1>4

(* The outputs a row does not name yet are those it gets.                  *)
LEMMA NewOutputsRange ==
  ASSUME NEW old \in Seq(Utxos), NEW more \in Seq(Utxos), NEW new \in NewOutputs(old, more)
  PROVE  new \in Seq(Utxos) /\ Range(old \o new) = Range(old) \cup Range(more)
<1> DEFINE S == Range(more) \ Range(old)
           rank == [u \in S |-> CHOOSE i \in DOMAIN more : more[i] = u]
<1>1. S \in SUBSET Utxos /\ new \in Listings(S, rank)
  BY DEF NewOutputs, Range
<1>2. rank \in [S -> Int]
  <2> SUFFICES ASSUME NEW u \in S PROVE (CHOOSE i \in DOMAIN more : more[i] = u) \in Int
    OBVIOUS
  <2>1. \E i \in DOMAIN more : more[i] = u
    BY DEF Range
  <2>2. (CHOOSE i \in DOMAIN more : more[i] = u) \in DOMAIN more
    BY <2>1
  <2> QED
    BY <2>2
<1>3. Range(new) = S /\ new \in Seq(Utxos)
  <2> HIDE DEF S, rank
  <2> QED
    BY <1>1, <1>2, ListingsRange, ListingsType
<1> QED
  BY <1>3, ConcatenationRange

(* A later row lists what was loaded and what was picked since.            *)
LEMMA UpdateWritten ==
  ASSUME WrittenInv, LockInv', \A t : Cancelled(t) => Cancelled(t)', NEW m \in Messages, UpdateTransaction(m)
  PROVE  WrittenInv'
<1>0. pc \in [Messages -> Pcs] /\ TypeOK
  BY WrittenTypes
<1>1. /\ UNCHANGED <<reserved, msg, cpc, taken, seen>>
      /\ pc[m] = "update" /\ pc'[m] = "publish"
      /\ \A n \in Messages \ {m} : pc'[n] = pc[n]
  BY <1>0 DEF UpdateTransaction, memory, locals, Goto
<1>2. PICK new \in NewOutputs(seen[m].reservedUtxos, taken[m]) :
        tx' = Saved(tx, Dated(TradeOf(m), ExtendedTransaction(m, new)))
  BY DEF UpdateTransaction
<1>3. IsTransaction(seen[m]) /\ taken[m] \in Seq(Utxos)
  BY <1>0, <1>1 DEF TypeOK, LocalsTypeOK
<1>4. Range(seen[m].reservedUtxos \o new) = Range(seen[m].reservedUtxos) \cup Range(taken[m])
  BY <1>3, NewOutputsRange DEF IsTransaction
<1> DEFINE row == Dated(TradeOf(m), ExtendedTransaction(m, new))[TradeOf(m)]
<1>5. /\ row.status = seen[m].status
      /\ row.reservedUtxos = seen[m].reservedUtxos \o new
  <2>1. /\ DOMAIN seen[m] =
             {"status", "type", "orders", "amount", "satsAmount", "reservedUtxos", "age"}
    BY <1>3 DEF IsTransaction
  <2> DEFINE ext == ExtendedTransaction(m, new)
  <2>2. /\ DOMAIN ext =
             {"status", "type", "orders", "amount", "satsAmount", "reservedUtxos", "age"}
        /\ ext.status = seen[m].status
        /\ ext.reservedUtxos = seen[m].reservedUtxos \o new
    BY <2>1 DEF ExtendedTransaction
  <2> HIDE DEF ext
  <2>3. row = [ext EXCEPT !.age = IF TradeOf(m) \in DOMAIN tx THEN tx[TradeOf(m)].age ELSE PROPAGATION]
    BY DEF Dated, Entry, ext
  <2> QED
    BY <2>2, <2>3
<1>6. /\ \A t \in DOMAIN tx \ {TradeOf(m)} : t \in DOMAIN tx' /\ tx'[t] = tx[t]
      /\ TradeOf(m) \in DOMAIN tx' /\ tx'[TradeOf(m)] = row
  BY <1>2 DEF Saved, Dated, Entry
<1>7. \/ Cancelled(TradeOf(m))
      \/ seen[m].status = "errored"
      \/ \A u \in DOMAIN reserved : reserved[u].tradeId = TradeOf(m) =>
           u \in Range(seen[m].reservedUtxos) \cup Range(taken[m])
  BY <1>1 DEF WrittenInv, LoadedRowIsComplete
<1> HIDE DEF row
<1>8. \/ Cancelled(TradeOf(m))
      \/ row.status = "errored"
      \/ \A u \in DOMAIN reserved : reserved[u].tradeId = TradeOf(m) =>
           u \in Range(row.reservedUtxos)
  BY <1>4, <1>5, <1>7
<1>9. pc[m] \in {"insert", "update"}
  BY <1>1
<1> QED
  BY <1>1, <1>6, <1>8, <1>9, RowWritten

(* A request that fails gives up what its trade holds; nobody else was     *)
(* writing that down.                                                      *)
LEMMA FailureWritten ==
  ASSUME WrittenInv, LockInv', \A t : Cancelled(t) => Cancelled(t)', NEW m \in Messages, ReserveFails(m)
  PROVE  WrittenInv'
<1>0. pc \in [Messages -> Pcs] /\ cpc \in [Messages -> {"none", "tx", "orders", "save", "done"}]
  BY WrittenTypes
<1>1. /\ UNCHANGED <<msg, tx, taken, seen>>
      /\ reserved' = WithoutTrade(TradeOf(m))
      /\ pc'[m] = "reply_error"
      /\ \A n \in Messages \ {m} : pc'[n] = pc[n] /\ cpc'[n] = cpc[n]
  BY <1>0 DEF ReserveFails, CancelNow, database, locals, Goto, CancelGoto
<1>2. \A u \in DOMAIN reserved' :
        u \in DOMAIN reserved /\ reserved'[u] = reserved[u] /\ reserved[u].tradeId # TradeOf(m)
  BY <1>1 DEF WithoutTrade, HeldBy, Restrict
<1>3. LoadedRowIsComplete'
  BY <1>1, <1>2, OthersWritten
<1>4. ASSUME NEW u \in DOMAIN reserved' PROVE Cancelled(reserved[u].tradeId)' \/ Written(u)' \/ BeingWritten(u)'
  <2>1. CASE Written(u)
    BY <1>1, <1>2, <2>1 DEF Written
  <2>2. CASE BeingWritten(u)
    BY <1>1, <1>2, <2>2, OthersWritten
  <2>3. CASE Cancelled(reserved[u].tradeId)
    BY <1>2, <2>3
  <2> QED
    BY <1>2, <2>1, <2>2, <2>3 DEF WrittenInv
<1>5. CancelsComeLater'
  BY <1>1 DEF WrittenInv, CancelsComeLater, Reserving, ReservePcs
<1> QED
  BY <1>3, <1>4, <1>5 DEF WrittenInv

(* A cancel saves its row as errored.                                      *)
LEMMA CancelWritten ==
  ASSUME WrittenInv, LockInv', \A t : Cancelled(t) => Cancelled(t)', NEW m \in Messages, CancelSave(m)
  PROVE  WrittenInv'
<1>0. /\ pc \in [Messages -> Pcs] /\ TypeOK
      /\ cpc \in [Messages -> {"none", "tx", "orders", "save", "done"}]
  BY WrittenTypes
<1>1. /\ UNCHANGED <<reserved, msg, pc, taken, seen>>
      /\ cpc[m] = "save"
      /\ \A n \in Messages \ {m} : cpc'[n] = cpc[n]
      /\ tx' = Saved(tx, Dated(TradeOf(m), [seen[m] EXCEPT !.status = "errored"]))
  BY <1>0 DEF CancelSave, memory, locals, CancelGoto
<1>2. /\ TradeOf(m) \in DOMAIN tx' /\ tx'[TradeOf(m)].status = "errored"
      /\ \A t \in DOMAIN tx \ {TradeOf(m)} : t \in DOMAIN tx' /\ tx'[t] = tx[t]
  <2>1. DOMAIN seen[m] = {"status", "type", "orders", "amount", "satsAmount", "reservedUtxos", "age"}
    BY <1>0, <1>1 DEF TypeOK, LocalsTypeOK, IsTransaction
  <2>2. [seen[m] EXCEPT !.status = "errored"].status = "errored"
    BY <2>1
  <2> QED
    BY <1>1, <2>1, <2>2 DEF Saved, Dated, Entry
<1>3. ASSUME NEW u \in DOMAIN reserved PROVE Cancelled(reserved[u].tradeId)' \/ Written(u)' \/ BeingWritten(u)'
  <2>1. CASE Written(u)
    BY <1>1, <1>2, <2>1 DEF Written
  <2>2. CASE BeingWritten(u)
    BY <1>1, <2>2 DEF BeingWritten, TradeOf
  <2>3. CASE Cancelled(reserved[u].tradeId)
    BY <1>1, <2>3
  <2> QED
    BY <2>1, <2>2, <2>3 DEF WrittenInv
<1>4. LoadedRowIsComplete'
  BY <1>1 DEF WrittenInv, LoadedRowIsComplete, TradeOf
<1>5. CancelsComeLater'
  BY <1>1 DEF WrittenInv, CancelsComeLater, Reserving
<1> QED
  BY <1>1, <1>3, <1>4, <1>5 DEF WrittenInv

(* Every step, and the start.                                              *)
LEMMA WrittenStep == WrittenInv /\ [Next]_vars => WrittenInv'
<1> SUFFICES ASSUME WrittenInv, [Next]_vars
             PROVE  WrittenInv'
  OBVIOUS
<1>1. LockInv' /\ \A t : Cancelled(t) => Cancelled(t)'
  BY LockStep, MessagesStay DEF WrittenInv, LockInv
<1>2. ASSUME NEW m \in Messages, ReserveStep(m)
      PROVE  WrittenInv'
  BY <1>1, <1>2, ReadingWritten, PickingWritten, FindingWritten, InsertWritten, UpdateWritten,
     FailureWritten, Zenon DEF ReserveStep
<1>3. ASSUME NEW m \in Messages, CancelStep(m)
      PROVE  WrittenInv'
  BY <1>1, <1>3, ReadingWritten, CancelWritten, Zenon DEF CancelStep
<1>4. ASSUME NEW m \in Messages,
             ReceiveReserve(m) \/ ReceiveCancel(m) \/ ReceiveSign(m) \/ SignStep(m)
      PROVE  WrittenInv'
  BY <1>1, <1>4, ReadingWritten, Zenon
<1> QED
  BY <1>1, <1>2, <1>3, <1>4, OutsideWritten, Zenon DEF Next

(* At the start nothing is held.                                           *)
LEMMA WrittenInit == Init => WrittenInv
<1> SUFFICES ASSUME Init PROVE WrittenInv
  OBVIOUS
<1>1. LockInv
  BY LockInit
<1>2. reserved = <<>> /\ pc = [m \in Messages |-> "idle"]
  BY DEF Init
<1>3. DOMAIN reserved = {}
  BY <1>2
<1> QED
  BY <1>1, <1>2, <1>3 DEF WrittenInv, LoadedRowIsComplete, CancelsComeLater, Reserving, ReservePcs

(* No reservation is orphaned: unless a message cancels its trade, an      *)
(* output is held for a request about to write it down or for a            *)
(* transaction that lists it, or whose row has errored                     *)
(* (event-handler.service.ts:137, 266, 287).                               *)
THEOREM NoReservationIsOrphaned == Spec => []ReservationBacked
<1>1. WrittenInv /\ [Next]_vars => WrittenInv'
  BY WrittenStep
<1>2. WrittenInv => ReservationBacked
  BY DEF WrittenInv, Written, BeingWritten, Writing, ReservationBacked
<1> QED
  BY <1>1, <1>2, WrittenInit, PTL DEF Spec
===============================================================================
