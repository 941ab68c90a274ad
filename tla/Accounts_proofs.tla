---------------------------- MODULE Accounts_proofs ---------------------------
(***************************************************************************)
(* What the event handler's books say of its trades, for every number of   *)
(* messages, trades, orders and outputs: that the outputs promised for a   *)
(* trade are worth it, that the fills of the orders are what the pending   *)
(* transactions promised, and that an order is promised beyond its size    *)
(* only if a row of it was saved over a change.                            *)
(***************************************************************************)
EXTENDS Execution_proofs, Sums_proofs

-------------------------------------------------------------------------------
(* Cover.  Of the messages that may come together at most one reserves for *)
(* a trade.                                                                *)
TradesReserveOnce ==
  \A c \in Conversations : \A m, n \in c.messages : \A x \in Content[m], y \in Content[n] :
    /\ x.type = "reserve_request" /\ y.type = "reserve_request"
    /\ x.tradeId = y.tradeId
    => m = n

(* The request of a trade: nothing is held or written down for a trade     *)
(* whose request has not come.                                             *)
IsRequest(m, t) ==
  /\ m \in Messages /\ pc[m] # "idle"
  /\ msg[m].type = "reserve_request" /\ msg[m].tradeId = t

Requested(t) == \E m \in Messages : IsRequest(m, t)

RequestsComeFirst ==
  /\ \A m \in Messages : pc[m] # "idle" => msg[m] \in Content[m]
  /\ \A m \in Messages : pc[m] \in ReservePcs => msg[m].type = "reserve_request"
  /\ \A t \in DOMAIN tx : Requested(t)
  /\ \A u \in DOMAIN reserved : Requested(reserved[u].tradeId)

OneRequest == \A m, n \in Messages : \A t \in Trades : IsRequest(m, t) /\ IsRequest(n, t) => m = n

(* A request that is being worked on finds nothing of its trade.           *)
RequestsAreFresh ==
  /\ \A m \in Messages :
       pc[m] \in {"read", "rune", "take", "lookup", "insert"} => TradeOf(m) \notin DOMAIN tx
  /\ \A m \in Messages : pc[m] \in {"read", "rune", "take"} => HeldBy(TradeOf(m)) = {}
  /\ \A m \in Messages : pc[m] # "update"
  /\ \A m \in Messages : cpc[m] \in {"orders", "save"} => TradeOf(m) \in DOMAIN tx

(* What it has picked is enough.                                           *)
PicksAreEnough ==
  \A m \in Messages : pc[m] \in {"lookup", "insert"} =>
    ValueOf(Range(taken[m])) >= Required(msg[m].orders)

(* And so is what a row that is pending lists.                             *)
RowsAreCovered ==
  \A t \in DOMAIN tx :
    tx[t].status = "pending" =>
      ValueOf(Range(tx[t].reservedUtxos)) >=
        IF tx[t].type = "sell" THEN tx[t].amount ELSE tx[t].satsAmount

CoverInv ==
  /\ TypeOK
  /\ RequestsComeFirst
  /\ OneRequest
  /\ RequestsAreFresh
  /\ PicksAreEnough
  /\ RowsAreCovered

(* What the handlers do to each other's requests: nothing.                 *)
LEMMA CoverTypes ==
  ASSUME CoverInv
  PROVE  /\ TypeOK
         /\ pc \in [Messages -> Pcs] /\ DOMAIN msg = Messages /\ DOMAIN taken = Messages
         /\ DOMAIN seen = Messages /\ cpc \in [Messages -> {"none", "tx", "orders", "save", "done"}]
         /\ \A t \in DOMAIN tx : t \in Trades /\ IsTransaction(tx[t])
         /\ \A u \in DOMAIN reserved : reserved[u].tradeId \in Trades
         /\ \A m \in Messages : pc[m] # "idle" => msg[m] \in Message /\ TradeOf(m) \in Trades
         /\ \A m \in Messages : pc[m] \in ReservePcs => msg[m].orders # <<>>
BY DEF CoverInv, TypeOK, ControlTypeOK, LocalsTypeOK, DatabaseTypeOK, MemoryTypeOK, IsReservation,
   Message, TradeOf

(* Messages that have come stay.                                           *)
LEMMA RequestsStay ==
  ASSUME CoverInv, [Next]_vars, NEW m \in Messages, pc[m] # "idle"
  PROVE  pc'[m] # "idle" /\ msg'[m] = msg[m]
BY MessagesStay DEF CoverInv

(* A step that writes down or reserves nothing and moves requests only to  *)
(* places where less is asked of them.                                     *)
LEMMA QuietCover ==
  ASSUME CoverInv, TypeOK', [Next]_vars,
         UNCHANGED msg,
         \A u \in DOMAIN reserved' : u \in DOMAIN reserved /\ reserved'[u].tradeId = reserved[u].tradeId,
         DOMAIN tx' = DOMAIN tx,
         \A t \in DOMAIN tx : \/ tx'[t].status = "errored"
                              \/ /\ tx'[t].status = tx[t].status
                                 /\ tx'[t].type = tx[t].type
                                 /\ tx'[t].amount = tx[t].amount
                                 /\ tx'[t].satsAmount = tx[t].satsAmount
                                 /\ tx'[t].reservedUtxos = tx[t].reservedUtxos,
         \A m \in Messages : \/ pc'[m] = pc[m] /\ taken'[m] = taken[m]
                             \/ pc'[m] \in {"idle", "done", "reply_error", "sign", "publish"}
                             \/ pc[m] = "rune" /\ pc'[m] = "take"
                             \/ pc[m] = "read" /\ pc'[m] = "rune"
                             \/ pc[m] = "lookup" /\ pc'[m] = "insert" /\ taken'[m] = taken[m],
         \A m \in Messages : cpc'[m] \in {"orders", "save"} => TradeOf(m) \in DOMAIN tx,
         \A m \in Messages : pc'[m] = "publish" => Reserving(m),
         \A m \in Messages : pc[m] = "idle" => pc'[m] = "idle"
  PROVE  CoverInv'
<1>0. pc \in [Messages -> Pcs]
  BY CoverTypes
<1>1. \A m \in Messages : pc[m] # "idle" <=> pc'[m] # "idle"
  BY RequestsStay
<1>2. \A m, t : IsRequest(m, t)' <=> IsRequest(m, t)
  BY <1>1 DEF IsRequest
<1>3. \A t : Requested(t)' <=> Requested(t)
  BY <1>2 DEF Requested
<1>4. RequestsComeFirst'
  <2>1. \A m \in Messages : pc'[m] \in ReservePcs => pc[m] \in ReservePcs
    BY <1>0 DEF ReservePcs, Reserving
  <2>2. \A m \in Messages : pc'[m] \in ReservePcs => msg'[m].type = "reserve_request"
    BY <2>1 DEF CoverInv, RequestsComeFirst
  <2>3. \A m \in Messages : pc'[m] # "idle" => msg'[m] \in Content[m]
    BY <1>1 DEF CoverInv, RequestsComeFirst
  <2>4. \A t \in DOMAIN tx' : Requested(t)'
    BY <1>3 DEF CoverInv, RequestsComeFirst
  <2>5. \A u \in DOMAIN reserved' : Requested(reserved[u].tradeId)'
    BY <1>2 DEF CoverInv, RequestsComeFirst, Requested
  <2> QED
    BY <2>2, <2>3, <2>4, <2>5 DEF RequestsComeFirst
<1>5. OneRequest'
  BY <1>2 DEF CoverInv, OneRequest
<1>6. RequestsAreFresh'
  <2>1. \A m \in Messages : TradeOf(m)' = TradeOf(m) /\ HeldBy(TradeOf(m))' \subseteq HeldBy(TradeOf(m))
    BY DEF TradeOf, HeldBy
  <2>2. \A m \in Messages :
          /\ pc'[m] \in {"read", "rune", "take", "lookup", "insert"} =>
               pc[m] \in {"read", "rune", "take", "lookup", "insert"}
          /\ pc'[m] \in {"read", "rune", "take"} => pc[m] \in {"read", "rune", "take"}
          /\ pc'[m] = "update" => pc[m] = "update"
    OBVIOUS
  <2>3. \A m \in Messages : /\ pc'[m] \in {"read", "rune", "take", "lookup", "insert"} =>
                                TradeOf(m)' \notin DOMAIN tx'
                            /\ pc'[m] # "update"
                            /\ cpc'[m] \in {"orders", "save"} => TradeOf(m)' \in DOMAIN tx'
    BY <2>1, <2>2 DEF CoverInv, RequestsAreFresh
  <2>4. \A m \in Messages : pc'[m] \in {"read", "rune", "take"} => HeldBy(TradeOf(m))' = {}
    BY <2>1, <2>2 DEF CoverInv, RequestsAreFresh
  <2> QED
    BY <2>3, <2>4 DEF RequestsAreFresh
<1>7. PicksAreEnough'
  <2>1. \A m \in Messages : pc'[m] \in {"lookup", "insert"} =>
           pc[m] \in {"lookup", "insert"} /\ taken'[m] = taken[m]
    OBVIOUS
  <2> QED
    BY <2>1 DEF CoverInv, PicksAreEnough, Required, TypeOf
<1>8. RowsAreCovered'
  BY DEF CoverInv, RowsAreCovered
<1> QED
  BY <1>4, <1>5, <1>6, <1>7, <1>8 DEF CoverInv

(* Handlers read, answer, fail and sign; cancels; the world outside.       *)
LEMMA QuietlyCovered ==
  ASSUME CoverInv, TypeOK', [Next]_vars,
         \/ \E m \in Messages : \/ ReadOrder(m) \/ ListUtxos(m) \/ FindTransaction(m)
                                \/ PublishSuccess(m) \/ PublishFails(m) \/ ReserveFails(m)
                                \/ PublishError(m) \/ CancelStep(m) \/ SignStep(m)
         \/ Tick \/ CleanupExpiredReservations \/ Restart \/ Broadcast
         \/ (\E o \in Orders : DeleteOrder(o)) \/ UNCHANGED vars
  PROVE  CoverInv'
<1>0. /\ pc \in [Messages -> Pcs] /\ DOMAIN taken = Messages
      /\ cpc \in [Messages -> {"none", "tx", "orders", "save", "done"}]
      /\ \A t \in DOMAIN tx : IsTransaction(tx[t])
      /\ TypeOK
  BY CoverTypes
<1> USE DEF memory, database, locals, world, history, vars, Goto, CancelGoto
<1>1. ASSUME NEW m \in Messages, ReadOrder(m) \/ ListUtxos(m) \/ PublishSuccess(m) \/ PublishFails(m)
                                 \/ PublishError(m) \/ SignStep(m)
      PROVE  CoverInv'
  <2>1. /\ UNCHANGED <<reserved, tx, msg, cpc, taken>>
        /\ \/ pc[m] = "read" /\ pc'[m] \in {"read", "rune"}
           \/ pc[m] = "rune" /\ pc'[m] = "take"
           \/ pc[m] \notin {"idle"} /\ pc'[m] \in {"done", "reply_error", "sign"}
        /\ \A n \in Messages \ {m} : pc'[n] = pc[n]
    BY <1>0, <1>1 DEF ReadOrder, ListUtxos, PublishSuccess, PublishFails, PublishError, SignStep,
       ValidatePsbt, SendSignature, SignFails
  <2>2. /\ \A n \in Messages : cpc'[n] \in {"orders", "save"} => TradeOf(n) \in DOMAIN tx
        /\ \A n \in Messages : pc'[n] = "publish" => Reserving(n)
    BY <2>1 DEF CoverInv, RequestsAreFresh, Reserving, ReservePcs
  <2> QED
    BY <2>1, <2>2, QuietCover
<1>2. ASSUME NEW m \in Messages, FindTransaction(m)
      PROVE  CoverInv'
  <2>1. pc[m] = "lookup" /\ TradeOf(m) \notin DOMAIN tx
    BY <1>2 DEF FindTransaction, CoverInv, RequestsAreFresh
  <2>2. /\ UNCHANGED <<reserved, tx, msg, cpc, taken>>
        /\ pc'[m] = "insert"
        /\ \A n \in Messages \ {m} : pc'[n] = pc[n]
    BY <1>0, <1>2, <2>1 DEF FindTransaction
  <2>3. /\ \A n \in Messages : cpc'[n] \in {"orders", "save"} => TradeOf(n) \in DOMAIN tx
        /\ \A n \in Messages : pc'[n] = "publish" => Reserving(n)
    BY <2>2 DEF CoverInv, RequestsAreFresh, Reserving, ReservePcs
  <2> QED
    BY <2>1, <2>2, <2>3, QuietCover
<1>3. ASSUME NEW m \in Messages, ReserveFails(m)
      PROVE  CoverInv'
  <2>1. /\ UNCHANGED <<tx, msg, taken>>
        /\ reserved' = WithoutTrade(TradeOf(m))
        /\ pc[m] # "idle" /\ pc'[m] = "reply_error" /\ cpc'[m] \in {"done", "tx"}
        /\ \A n \in Messages \ {m} : pc'[n] = pc[n] /\ cpc'[n] = cpc[n]
    BY <1>0, <1>3 DEF ReserveFails, CancelNow
  <2>2. /\ \A n \in Messages : cpc'[n] \in {"orders", "save"} => TradeOf(n) \in DOMAIN tx
        /\ \A n \in Messages : pc'[n] = "publish" => Reserving(n)
    BY <2>1 DEF CoverInv, RequestsAreFresh, Reserving, ReservePcs
  <2>3. \A u \in DOMAIN reserved' : u \in DOMAIN reserved /\ reserved'[u].tradeId = reserved[u].tradeId
    BY <2>1 DEF WithoutTrade, Restrict
  <2> QED
    BY <2>1, <2>2, <2>3, QuietCover
<1>4. ASSUME NEW m \in Messages, CancelStep(m)
      PROVE  CoverInv'
  <2>1. /\ UNCHANGED <<reserved, msg, pc, taken>>
        /\ \A n \in Messages \ {m} : cpc'[n] = cpc[n]
        /\ cpc'[m] = "orders" => TradeOf(m) \in DOMAIN tx
        /\ cpc'[m] = "save" => cpc[m] = "orders"
    BY <1>0, <1>4 DEF CancelStep, CancelFindTransaction, CancelFindOrders, CancelSave, CancelFails
  <2>2. /\ \A n \in Messages : cpc'[n] \in {"orders", "save"} => TradeOf(n) \in DOMAIN tx
        /\ \A n \in Messages : pc'[n] = "publish" => Reserving(n)
    BY <2>1 DEF CoverInv, RequestsAreFresh, Reserving, ReservePcs
  <2>3. CASE UNCHANGED tx
    BY <2>1, <2>2, <2>3, QuietCover
  <2>4. CASE CancelSave(m)
    <3>1. cpc[m] = "save" /\ tx' = Saved(tx, Dated(TradeOf(m), [seen[m] EXCEPT !.status = "errored"]))
      BY <2>4 DEF CancelSave
    <3>2. TradeOf(m) \in DOMAIN tx
      BY <3>1 DEF CoverInv, RequestsAreFresh
    <3>3. DOMAIN seen[m] = {"status", "type", "orders", "amount", "satsAmount", "reservedUtxos", "age"}
      BY <1>0, <3>1 DEF TypeOK, LocalsTypeOK, IsTransaction
    <3> DEFINE row == [seen[m] EXCEPT !.status = "errored"]
    <3>4. /\ row.status = "errored"
          /\ "status" \in DOMAIN row
      BY <3>3
    <3> HIDE DEF row
    <3>5. /\ DOMAIN tx' = DOMAIN tx /\ tx'[TradeOf(m)].status = "errored"
          /\ \A t \in DOMAIN tx \ {TradeOf(m)} : tx'[t] = tx[t]
      <4>1. tx' = Saved(tx, Dated(TradeOf(m), row))
        BY <3>1 DEF row
      <4>2. /\ DOMAIN Dated(TradeOf(m), row) = {TradeOf(m)}
            /\ Dated(TradeOf(m), row)[TradeOf(m)].status = "errored"
        BY <3>4 DEF Dated, Entry
      <4> QED
        BY <3>2, <4>1, <4>2 DEF Saved
    <3> QED
      BY <2>1, <2>2, <3>5, QuietCover
  <2> QED
    BY <1>4, <2>3, <2>4 DEF CancelStep, CancelFindTransaction, CancelFindOrders, CancelFails
<1>5. CASE \/ Tick \/ CleanupExpiredReservations \/ Restart \/ Broadcast
           \/ (\E o \in Orders : DeleteOrder(o)) \/ UNCHANGED vars
  <2>1. /\ UNCHANGED <<msg, taken>>
        /\ \A n \in Messages : pc'[n] = pc[n] \/ (pc[n] # "idle" /\ pc'[n] = "done")
        /\ \A n \in Messages : cpc'[n] = cpc[n] \/ cpc'[n] \in {"none", "done"}
    BY <1>0, <1>5 DEF Tick, CleanupExpiredReservations, Restart, Broadcast, DeleteOrder
  <2>2. \A u \in DOMAIN reserved' : u \in DOMAIN reserved /\ reserved'[u].tradeId = reserved[u].tradeId
    <3>1. CASE Tick
      <4> SUFFICES ASSUME NEW u \in DOMAIN reserved
                   PROVE  reserved'[u].tradeId = reserved[u].tradeId
        BY <3>1 DEF Tick
      <4>1. DOMAIN reserved[u] = {"tradeId", "age", "orderAmount", "position"}
        BY <1>0 DEF TypeOK, MemoryTypeOK, IsReservation
      <4> QED
        BY <3>1, <4>1 DEF Tick
    <3>2. CASE CleanupExpiredReservations
      BY <3>2 DEF CleanupExpiredReservations, RestrictDomain, Restrict
    <3>3. CASE UNCHANGED reserved \/ DOMAIN reserved' = {}
      BY <3>3
    <3>4. CASE Restart
      <4>1. reserved' = <<>>
        BY <3>4 DEF Restart
      <4> QED
        BY <3>3, <4>1
    <3> QED
      BY <1>5, <3>1, <3>2, <3>3, <3>4 DEF Broadcast, DeleteOrder
  <2>3. /\ DOMAIN tx' = DOMAIN tx
        /\ \A t \in DOMAIN tx : /\ tx'[t].status = tx[t].status
                                /\ tx'[t].type = tx[t].type
                                /\ tx'[t].amount = tx[t].amount
                                /\ tx'[t].satsAmount = tx[t].satsAmount
                                /\ tx'[t].reservedUtxos = tx[t].reservedUtxos
    <3>1. CASE Tick
      <4>1. DOMAIN tx' = DOMAIN tx
        BY <3>1 DEF Tick
      <4> SUFFICES ASSUME NEW t \in DOMAIN tx
                   PROVE  /\ tx'[t].status = tx[t].status
                          /\ tx'[t].type = tx[t].type
                          /\ tx'[t].amount = tx[t].amount
                          /\ tx'[t].satsAmount = tx[t].satsAmount
                          /\ tx'[t].reservedUtxos = tx[t].reservedUtxos
        BY <4>1
      <4>2. tx'[t] = [tx[t] EXCEPT !.age = Older(@, PROPAGATION)]
        BY <3>1 DEF Tick
      <4>3. DOMAIN tx[t] = {"status", "type", "orders", "amount", "satsAmount", "reservedUtxos", "age"}
        BY <1>0 DEF IsTransaction
      <4> QED
        BY <4>2, <4>3
    <3>2. CASE UNCHANGED tx
      BY <3>2
    <3> QED
      BY <1>5, <3>1, <3>2 DEF Broadcast, DeleteOrder, CleanupExpiredReservations, Restart
  <2>4. /\ \A n \in Messages : cpc'[n] \in {"orders", "save"} => TradeOf(n) \in DOMAIN tx
        /\ \A n \in Messages : pc'[n] = "publish" => Reserving(n)
    BY <2>1 DEF CoverInv, RequestsAreFresh, Reserving, ReservePcs
  <2> QED
    BY <2>1, <2>2, <2>3, <2>4, QuietCover
<1> QED
  BY <1>1, <1>2, <1>3, <1>4, <1>5, Zenon

(* A message arrives: if it is a request, it is the only one of its trade. *)
LEMMA ArrivalCovered ==
  ASSUME TradesReserveOnce, CoverInv, TypeOK', [Next]_vars, NEW m \in Messages,
         ReceiveReserve(m) \/ ReceiveCancel(m) \/ ReceiveSign(m)
  PROVE  CoverInv'
<1>0. /\ pc \in [Messages -> Pcs] /\ DOMAIN msg = Messages
      /\ \A n \in Messages : pc[n] # "idle" => TradeOf(n) \in Trades
      /\ cpc \in [Messages -> {"none", "tx", "orders", "save", "done"}]
      /\ TypeOK
  BY CoverTypes
<1> USE DEF memory, database, locals, world, history, Goto, CancelGoto
<1>1. /\ UNCHANGED <<tx, taken>> /\ pc[m] = "idle"
      /\ pc'[m] \in {"read", "reply_error", "done", "validate"}
      /\ \A n \in Messages \ {m} : pc'[n] = pc[n] /\ msg'[n] = msg[n] /\ cpc'[n] = cpc[n]
      /\ msg'[m] \in Content[m]
      /\ pc'[m] = "read" => msg'[m].type = "reserve_request"
      /\ cpc'[m] \in {cpc[m], "done", "tx"}
  <2>1. CASE ReceiveReserve(m)
    BY <1>0, <2>1 DEF ReceiveReserve, Receive
  <2>2. CASE ReceiveCancel(m)
    BY <1>0, <2>2 DEF ReceiveCancel, CancelNow, Receive
  <2>3. CASE ReceiveSign(m)
    BY <1>0, <2>3 DEF ReceiveSign, Receive
  <2> QED
    BY <2>1, <2>2, <2>3
<1>2. \A u \in DOMAIN reserved' : u \in DOMAIN reserved /\ reserved'[u].tradeId = reserved[u].tradeId
  <2>1. CASE ReceiveCancel(m)
    BY <2>1 DEF ReceiveCancel, CancelNow, WithoutTrade, Restrict
  <2>2. CASE UNCHANGED reserved
    BY <2>2
  <2> QED
    BY <2>1, <2>2 DEF ReceiveReserve, ReceiveSign
<1>3. /\ \A n \in Messages \ {m}, t \in Trades : IsRequest(n, t)' <=> IsRequest(n, t)
      /\ \A t : ~ IsRequest(m, t)
  BY <1>1 DEF IsRequest
<1>4. \A t \in Trades : Requested(t) => Requested(t)'
  BY <1>3 DEF Requested
<1>5. PICK c \in Conversations : {m} \cup {n \in Messages : pc[n] # "idle"} \subseteq c.messages
  BY DEF ReceiveReserve, ReceiveCancel, ReceiveSign, Receive
<1>6. ASSUME NEW n \in Messages, NEW t \in Trades, IsRequest(n, t), IsRequest(m, t)'
      PROVE  FALSE
  <2>1. n # m /\ m \in c.messages /\ n \in c.messages
    BY <1>3, <1>5, <1>6 DEF IsRequest
  <2>2. msg[n] \in Content[n] /\ msg'[m] \in Content[m]
    BY <1>1, <1>6 DEF CoverInv, RequestsComeFirst, IsRequest
  <2>3. /\ msg[n].type = "reserve_request" /\ msg'[m].type = "reserve_request"
        /\ msg[n].tradeId = msg'[m].tradeId
    BY <1>6 DEF IsRequest
  <2> QED
    BY <2>1, <2>2, <2>3, TradesReserveOnce DEF TradesReserveOnce
<1>7. RequestsComeFirst'
  <2>1. \A n \in Messages : pc'[n] # "idle" => msg'[n] \in Content[n]
    BY <1>1 DEF CoverInv, RequestsComeFirst
  <2>2. \A n \in Messages : pc'[n] \in ReservePcs => msg'[n].type = "reserve_request"
    BY <1>1 DEF CoverInv, RequestsComeFirst, ReservePcs
  <2>3. \A t \in DOMAIN tx' : Requested(t)'
    BY <1>1, <1>4, CoverTypes DEF CoverInv, RequestsComeFirst
  <2>4. \A u \in DOMAIN reserved' : Requested(reserved[u].tradeId)'
    <3> SUFFICES ASSUME NEW u \in DOMAIN reserved' PROVE Requested(reserved[u].tradeId)'
      OBVIOUS
    <3>1. Requested(reserved[u].tradeId) /\ reserved[u].tradeId \in Trades
      BY <1>2, CoverTypes DEF CoverInv, RequestsComeFirst
    <3>2. PICK n \in Messages : IsRequest(n, reserved[u].tradeId)
      BY <3>1 DEF Requested
    <3>3. n # m /\ pc'[n] = pc[n] /\ msg'[n] = msg[n]
      BY <1>1, <3>2 DEF IsRequest
    <3>4. reserved'[u].tradeId = reserved[u].tradeId
      BY <1>2
    <3> QED
      BY <3>2, <3>3, <3>4 DEF Requested, IsRequest
  <2> QED
    BY <2>1, <2>2, <2>3, <2>4 DEF RequestsComeFirst
<1>8. OneRequest'
  <2> SUFFICES ASSUME NEW n1 \in Messages, NEW n2 \in Messages, NEW t \in Trades,
                      IsRequest(n1, t)', IsRequest(n2, t)', n1 # n2
               PROVE  FALSE
    BY Zenon DEF OneRequest
  <2> QED
    BY <1>3, <1>6 DEF CoverInv, OneRequest
<1>9. RequestsAreFresh'
  <2>1. \A n \in Messages \ {m} : TradeOf(n)' = TradeOf(n) /\ HeldBy(TradeOf(n))' \subseteq HeldBy(TradeOf(n))
    BY <1>1, <1>2 DEF TradeOf, HeldBy
  <2>2. ASSUME pc'[m] = "read" PROVE TradeOf(m)' \notin DOMAIN tx /\ HeldBy(TradeOf(m))' = {}
    <3>1. /\ msg'[m].type = "reserve_request" /\ pc'[m] # "idle"
          /\ TradeOf(m)' = msg'[m].tradeId
      BY <1>1, <2>2 DEF TradeOf
    <3>2. \A n \in Messages, t \in Trades : t = msg'[m].tradeId => ~ IsRequest(n, t)
      BY <1>6, <3>1 DEF IsRequest
    <3>3. \A t \in Trades : t = msg'[m].tradeId => ~ Requested(t)
      BY <3>2 DEF Requested
    <3>4. \A u \in DOMAIN reserved' : reserved'[u].tradeId # msg'[m].tradeId
      BY <1>2, <3>3, CoverTypes DEF CoverInv, RequestsComeFirst
    <3> QED
      BY <3>1, <3>3, <3>4, CoverTypes DEF CoverInv, RequestsComeFirst, HeldBy, TradeOf
  <2>3. cpc'[m] \notin {"orders", "save"}
    <3>1. cpc[m] = "none"
      BY <1>0, <1>1 DEF TypeOK, ControlTypeOK
    <3> QED
      BY <1>1, <3>1
  <2>4. \A n \in Messages : /\ pc'[n] \in {"read", "rune", "take", "lookup", "insert"} =>
                                TradeOf(n)' \notin DOMAIN tx'
                            /\ pc'[n] # "update"
                            /\ cpc'[n] \in {"orders", "save"} => TradeOf(n)' \in DOMAIN tx'
    BY <1>1, <2>1, <2>2, <2>3 DEF CoverInv, RequestsAreFresh
  <2>5. \A n \in Messages : pc'[n] \in {"read", "rune", "take"} => HeldBy(TradeOf(n))' = {}
    BY <1>1, <2>1, <2>2 DEF CoverInv, RequestsAreFresh
  <2> QED
    BY <2>4, <2>5 DEF RequestsAreFresh
<1>10. PicksAreEnough'
  BY <1>1 DEF CoverInv, PicksAreEnough, Required, TypeOf
<1>11. RowsAreCovered'
  BY <1>1 DEF CoverInv, RowsAreCovered
<1> QED
  BY <1>7, <1>8, <1>9, <1>10, <1>11 DEF CoverInv

(* Outputs are picked: enough for what the request needs, since its trade  *)
(* has no surplus yet.                                                     *)
LEMMA PickingCovered ==
  ASSUME CoverInv, TypeOK', [Next]_vars, NEW m \in Messages, UseSurplus(m) \/ TakeUtxos(m)
  PROVE  CoverInv'
<1>0. /\ pc \in [Messages -> Pcs] /\ DOMAIN taken = Messages /\ TypeOK
  BY CoverTypes
<1> USE DEF memory, database, locals, world, history, Goto
<1>1. /\ UNCHANGED <<tx, msg, cpc>> /\ pc[m] \in {"rune", "take"} /\ pc'[m] = "lookup"
      /\ \A n \in Messages \ {m} : pc'[n] = pc[n] /\ taken'[n] = taken[n]
  <2>1. CASE UseSurplus(m)
    BY <1>0, <2>1 DEF UseSurplus
  <2>2. CASE TakeUtxos(m)
    BY <1>0, <2>2 DEF TakeUtxos
  <2> QED
    BY <2>1, <2>2
<1>2. HeldBy(TradeOf(m)) = {} /\ TradeOf(m) \notin DOMAIN tx
  BY <1>1 DEF CoverInv, RequestsAreFresh
<1>3. IsRequest(m, TradeOf(m))
  BY <1>1 DEF IsRequest, CoverInv, RequestsComeFirst, ReservePcs, TradeOf
<1>4. \A u \in DOMAIN reserved' :
        \/ u \in DOMAIN reserved /\ reserved'[u] = reserved[u]
        \/ reserved'[u].tradeId = TradeOf(m)
  <2>1. CASE UseSurplus(m)
    BY <2>1 DEF UseSurplus
  <2>2. CASE TakeUtxos(m)
    <3>1. PICK s : reserved' = WithPick(TradeOf(m), s, Required(msg[m].orders))
      BY <2>2 DEF TakeUtxos
    <3> QED
      BY <3>1 DEF WithPick
  <2> QED
    BY <2>1, <2>2
<1>5. ValueOf(Range(taken'[m])) >= Required(msg[m].orders)
  <2>1. CASE UseSurplus(m)
    <3>1. PICK s \in HeldInOrder(TradeOf(m)) : taken' = [taken EXCEPT ![m] = s]
      BY <2>1 DEF UseSurplus
    <3>2. Residual(TradeOf(m)) = 0 /\ 0 >= Required(msg[m].orders)
      BY <1>2, <2>1 DEF UseSurplus, Residual
    <3>3. s \in Listings({}, [u \in {} |-> reserved[u].position])
      BY <1>2, <3>1 DEF HeldInOrder
    <3>4. s \in [1..0 -> {}]
      BY <3>3, FS_EmptySet DEF Listings
    <3>5. Range(s) = {}
      BY <3>4 DEF Range
    <3>6. ValueOf(Range(s)) = 0
      BY <3>5, SumEmpty DEF ValueOf
    <3> QED
      BY <1>0, <3>1, <3>2, <3>6
  <2>2. CASE TakeUtxos(m)
    <3>1. PICK s \in Picks(Available(m), Required(msg[m].orders), TypeOf(msg[m].orders)) :
            taken' = [taken EXCEPT ![m] = s]
      BY <2>2 DEF TakeUtxos
    <3>2. ValueOf(Range(s)) >= Required(msg[m].orders)
      BY <3>1 DEF Picks
    <3> QED
      BY <1>0, <3>1, <3>2
  <2> QED
    BY <2>1, <2>2
<1>6. \A n \in Messages : pc'[n] # "idle" <=> pc[n] # "idle"
  BY <1>1
<1>7. \A n, t : IsRequest(n, t)' <=> IsRequest(n, t)
  BY <1>1, <1>6 DEF IsRequest
<1>8. \A t : Requested(t)' <=> Requested(t)
  BY <1>7 DEF Requested
<1>9. RequestsComeFirst'
  <2>1. /\ \A n \in Messages : pc'[n] # "idle" => msg'[n] \in Content[n]
        /\ \A n \in Messages : pc'[n] \in ReservePcs => msg'[n].type = "reserve_request"
    BY <1>1, <1>3 DEF CoverInv, RequestsComeFirst, IsRequest
  <2>2. \A t \in DOMAIN tx' : Requested(t)'
    BY <1>1, <1>8 DEF CoverInv, RequestsComeFirst
  <2>3. \A u \in DOMAIN reserved' : Requested(reserved[u].tradeId)'
    <3> SUFFICES ASSUME NEW u \in DOMAIN reserved' PROVE Requested(reserved[u].tradeId)'
      OBVIOUS
    <3>1. PICK t : t = reserved'[u].tradeId
      OBVIOUS
    <3>2. Requested(t)
      BY <1>3, <1>4, <3>1 DEF CoverInv, RequestsComeFirst, Requested
    <3>3. PICK n \in Messages : IsRequest(n, t)
      BY <3>2 DEF Requested
    <3> QED
      BY <1>1, <1>6, <3>1, <3>3 DEF Requested, IsRequest
  <2> QED
    BY <2>1, <2>2, <2>3 DEF RequestsComeFirst
<1>10. OneRequest'
  BY <1>7 DEF CoverInv, OneRequest
<1>11. RequestsAreFresh'
  <2>1. \A n \in Messages : TradeOf(n)' = TradeOf(n)
    BY <1>1 DEF TradeOf
  <2>2. ASSUME NEW n \in Messages, pc'[n] \in {"read", "rune", "take"}
        PROVE  HeldBy(TradeOf(n))' = {}
    <3>1. n # m /\ pc[n] \in {"read", "rune", "take"} /\ TradeOf(n) \in Trades
      BY <1>1, <2>2, CoverTypes
    <3>2. IsRequest(n, TradeOf(n))
      BY <3>1 DEF IsRequest, CoverInv, RequestsComeFirst, ReservePcs, TradeOf
    <3>3. TradeOf(n) # TradeOf(m)
      BY <1>3, <3>1, <3>2 DEF CoverInv, OneRequest
    <3>4. HeldBy(TradeOf(n)) = {}
      BY <3>1 DEF CoverInv, RequestsAreFresh
    <3> QED
      BY <1>4, <2>1, <3>3, <3>4 DEF HeldBy
  <2>3. \A n \in Messages : /\ pc'[n] \in {"read", "rune", "take", "lookup", "insert"} =>
                                TradeOf(n)' \notin DOMAIN tx'
                            /\ pc'[n] # "update"
                            /\ cpc'[n] \in {"orders", "save"} => TradeOf(n)' \in DOMAIN tx'
    BY <1>1, <1>2, <2>1 DEF CoverInv, RequestsAreFresh
  <2> QED
    BY <2>2, <2>3 DEF RequestsAreFresh
<1>12. PicksAreEnough'
  BY <1>1, <1>5 DEF CoverInv, PicksAreEnough, Required, TypeOf
<1>13. RowsAreCovered'
  BY <1>1 DEF CoverInv, RowsAreCovered
<1> QED
  BY <1>9, <1>10, <1>11, <1>12, <1>13 DEF CoverInv

(* The row is written: what the trade was promised is what it asked for.   *)
LEMMA InsertCovered ==
  ASSUME CoverInv, TypeOK', [Next]_vars, NEW m \in Messages, InsertTransaction(m)
  PROVE  CoverInv'
<1>0. /\ pc \in [Messages -> Pcs] /\ TypeOK
  BY CoverTypes
<1>1. /\ UNCHANGED <<reserved, msg, cpc, taken>> /\ pc[m] = "insert" /\ pc'[m] = "publish"
      /\ \A n \in Messages \ {m} : pc'[n] = pc[n]
      /\ TradeOf(m) \notin DOMAIN tx
      /\ tx' = Saved(tx, Entry(TradeOf(m), NewTransaction(m)))
  BY <1>0 DEF InsertTransaction, memory, locals, Goto
<1>2. /\ DOMAIN tx' = DOMAIN tx \cup {TradeOf(m)}
      /\ \A t \in DOMAIN tx : tx'[t] = tx[t]
      /\ tx'[TradeOf(m)] = NewTransaction(m)
  BY <1>1 DEF Saved, Entry
<1>3. IsRequest(m, TradeOf(m))
  BY <1>1 DEF IsRequest, CoverInv, RequestsComeFirst, ReservePcs, TradeOf
<1>4. ValueOf(Range(NewTransaction(m).reservedUtxos)) >=
        IF NewTransaction(m).type = "sell" THEN NewTransaction(m).amount ELSE NewTransaction(m).satsAmount
  <2>1. ValueOf(Range(taken[m])) >= Required(msg[m].orders)
    BY <1>1 DEF CoverInv, PicksAreEnough
  <2>2. msg[m].orders \in Seq(OrderFill) /\ msg[m].orders # <<>>
    BY <1>1, CoverTypes, MessageFields DEF ReservePcs
  <2>3. TypeOf(msg[m].orders) \in {"ask", "bid"}
    <3>1. msg[m].orders[1] \in OrderFill
      BY <2>2
    <3>2. msg[m].orders[1].orderId \in Orders
      BY <3>1 DEF OrderFill
    <3> QED
      BY <3>2, ExecutionAssumption DEF TypeOf
  <2>4. /\ NewTransaction(m).type = IF TypeOf(msg[m].orders) = "bid" THEN "buy" ELSE "sell"
        /\ NewTransaction(m).amount = RuneAmount(msg[m].orders)
        /\ NewTransaction(m).satsAmount = SatsAmount(msg[m].orders)
        /\ NewTransaction(m).reservedUtxos = taken[m]
    BY DEF NewTransaction
  <2> QED
    BY <2>1, <2>3, <2>4 DEF Required
<1>5. \A n \in Messages : pc'[n] # "idle" <=> pc[n] # "idle"
  BY <1>1
<1>6. \A n, t : IsRequest(n, t)' <=> IsRequest(n, t)
  BY <1>1, <1>5 DEF IsRequest
<1>7. \A t : Requested(t)' <=> Requested(t)
  BY <1>6 DEF Requested
<1>8. RequestsComeFirst'
  <2>1. /\ \A n \in Messages : pc'[n] # "idle" => msg'[n] \in Content[n]
        /\ \A n \in Messages : pc'[n] \in ReservePcs => msg'[n].type = "reserve_request"
    BY <1>1, <1>3 DEF CoverInv, RequestsComeFirst, IsRequest
  <2>2. \A t \in DOMAIN tx' : Requested(t)'
    BY <1>2, <1>3, <1>7 DEF CoverInv, RequestsComeFirst, Requested
  <2>3. \A u \in DOMAIN reserved' : Requested(reserved[u].tradeId)'
    <3> SUFFICES ASSUME NEW u \in DOMAIN reserved PROVE Requested(reserved[u].tradeId)'
      BY <1>1
    <3>1. PICK n \in Messages : IsRequest(n, reserved[u].tradeId)
      BY DEF CoverInv, RequestsComeFirst, Requested
    <3> QED
      BY <1>1, <1>5, <3>1 DEF Requested, IsRequest
  <2> QED
    BY <2>1, <2>2, <2>3 DEF RequestsComeFirst
<1>9. OneRequest'
  BY <1>6 DEF CoverInv, OneRequest
<1>10. RequestsAreFresh'
  <2>1. \A n \in Messages : TradeOf(n)' = TradeOf(n) /\ HeldBy(TradeOf(n))' = HeldBy(TradeOf(n))
    BY <1>1 DEF TradeOf, HeldBy
  <2>2. ASSUME NEW n \in Messages, pc'[n] \in {"read", "rune", "take", "lookup", "insert"}
        PROVE  TradeOf(n) # TradeOf(m)
    <3>1. n # m /\ pc[n] \in ReservePcs /\ TradeOf(n) \in Trades
      BY <1>1, <2>2, CoverTypes DEF ReservePcs
    <3>2. IsRequest(n, TradeOf(n))
      BY <3>1 DEF IsRequest, CoverInv, RequestsComeFirst, ReservePcs, TradeOf
    <3> QED
      BY <1>3, <3>1, <3>2 DEF CoverInv, OneRequest
  <2>3. \A n \in Messages :
          /\ pc'[n] \in {"read", "rune", "take", "lookup", "insert"} =>
               pc[n] \in {"read", "rune", "take", "lookup", "insert"}
          /\ pc'[n] \in {"read", "rune", "take"} => pc[n] \in {"read", "rune", "take"}
          /\ pc'[n] # "update"
    BY <1>1 DEF CoverInv, RequestsAreFresh
  <2>4. \A n \in Messages : pc'[n] \in {"read", "rune", "take", "lookup", "insert"} => TradeOf(n)' \notin DOMAIN tx'
    BY <1>2, <2>1, <2>2, <2>3 DEF CoverInv, RequestsAreFresh
  <2>5. \A n \in Messages : pc'[n] \in {"read", "rune", "take"} => HeldBy(TradeOf(n))' = {}
    BY <2>1, <2>3 DEF CoverInv, RequestsAreFresh
  <2>6. \A n \in Messages : cpc'[n] \in {"orders", "save"} => TradeOf(n)' \in DOMAIN tx'
    BY <1>1, <1>2, <2>1 DEF CoverInv, RequestsAreFresh
  <2> QED
    BY <2>3, <2>4, <2>5, <2>6 DEF RequestsAreFresh
<1>11. PicksAreEnough'
  BY <1>1 DEF CoverInv, PicksAreEnough, Required, TypeOf
<1>12. RowsAreCovered'
  BY <1>2, <1>4 DEF CoverInv, RowsAreCovered
<1> QED
  BY <1>8, <1>9, <1>10, <1>11, <1>12 DEF CoverInv

(* Every step.  No row is extended: no trade asks twice.                   *)
LEMMA CoverStep ==
  ASSUME TradesReserveOnce
  PROVE  CoverInv /\ [Next]_vars => CoverInv'
<1> SUFFICES ASSUME CoverInv, [Next]_vars
             PROVE  CoverInv'
  OBVIOUS
<1>1. TypeOK'
  BY TypeStep DEF CoverInv
<1>2. ASSUME NEW m \in Messages, UpdateTransaction(m)
      PROVE  FALSE
  BY <1>2 DEF UpdateTransaction, CoverInv, RequestsAreFresh
<1>3. ASSUME NEW m \in Messages, ReserveStep(m)
      PROVE  CoverInv'
  BY <1>1, <1>2, <1>3, QuietlyCovered, PickingCovered, InsertCovered, Zenon DEF ReserveStep
<1>4. ASSUME NEW m \in Messages, ReceiveReserve(m) \/ ReceiveCancel(m) \/ ReceiveSign(m)
      PROVE  CoverInv'
  BY <1>1, <1>4, ArrivalCovered, Zenon
<1> QED
  BY <1>1, <1>3, <1>4, QuietlyCovered, Zenon DEF Next

(* Before the first message nothing is held, taken or written.             *)
LEMMA CoverInit == Init => CoverInv
<1> SUFFICES ASSUME Init PROVE CoverInv
  OBVIOUS
<1>1. TypeOK
  BY TypeInit
<1>2. /\ DOMAIN reserved = {} /\ DOMAIN tx = {}
      /\ pc = [m \in Messages |-> "idle"] /\ cpc = [m \in Messages |-> "none"]
  BY DEF Init
<1> QED
  BY <1>1, <1>2 DEF CoverInv, RequestsComeFirst, OneRequest, IsRequest, RequestsAreFresh,
     PicksAreEnough, RowsAreCovered, ReservePcs

(* Where a trade reserves once, the outputs promised for it are worth what *)
(* it sells or pays (event-handler.service.ts:302-336, 339-372).           *)
THEOREM PromisesAreCovered ==
  ASSUME TradesReserveOnce
  PROVE  Spec => []TradesAreCovered
<1>1. CoverInv /\ [Next]_vars => CoverInv'
  BY CoverStep
<1>2. CoverInv => TradesAreCovered
  BY DEF CoverInv, RowsAreCovered, TradesAreCovered
<1> QED
  BY <1>1, <1>2, CoverInit, PTL DEF Spec

-------------------------------------------------------------------------------
(* The accounts.                                                           *)

NamedOnce(fills) ==
  \A i, j \in DOMAIN fills : fills[i].orderId = fills[j].orderId => i = j

(* The list of a plain request: it names an order once, and takes nothing  *)
(* back.                                                                   *)
IsPlain(fills) ==
  /\ fills \in Seq(OrderFill)
  /\ NamedOnce(fills)
  /\ \A i \in DOMAIN fills : fills[i].amount >= 0

(* What a list promises of an order it names once, and of another order.   *)
LEMMA AmountOfList ==
  ASSUME NEW fills, IsPlain(fills), NEW o
  PROVE  /\ AmountOf(fills, o) \in Nat
         /\ o \notin OrdersOf(fills) => AmountOf(fills, o) = 0
         /\ \A i \in DOMAIN fills :
              fills[i].orderId = o => AmountOf(fills, o) = fills[i].amount
<1> DEFINE n == Len(fills)
           F == [i \in 1..n |-> IF fills[i].orderId = o THEN fills[i].amount ELSE 0]
<1>0. fills \in Seq(OrderFill)
  BY DEF IsPlain
<1>1. n \in Nat /\ DOMAIN fills = 1..n
  BY <1>0
<1>2. \A i \in 1..n : F[i] \in Nat
  <2> SUFFICES ASSUME NEW i \in 1..n PROVE F[i] \in Nat
    OBVIOUS
  <2>1. fills[i] \in OrderFill /\ fills[i].amount >= 0
    BY <1>0, <1>1 DEF IsPlain
  <2> QED
    BY <2>1 DEF OrderFill
<1>3. AmountOf(fills, o) = SumFunction(F)
  BY <1>1 DEF AmountOf
<1>4. F = [i \in 1..n |-> F[i]]
  OBVIOUS
<1>5. \A i \in 1..n : F[i] = IF fills[i].orderId = o THEN fills[i].amount ELSE 0
  OBVIOUS
<1>6. 1 \in Int /\ n \in Int
  BY <1>1
<1>7. IsFiniteSet(1..n)
  BY <1>6, FS_Interval, Zenon
<1> HIDE DEF F, n
<1>8. AmountOf(fills, o) = SumFunctionOnSet(F, 1..n) /\ AmountOf(fills, o) \in Nat
  BY <1>1, <1>2, <1>3, <1>4, SumSequence
<1>9. ASSUME o \notin OrdersOf(fills) PROVE AmountOf(fills, o) = 0
  <2>1. \A i \in 1..n : F[i] = 0
    BY <1>1, <1>5, <1>9 DEF OrdersOf
  <2> QED
    BY <1>7, <1>8, <2>1, SumZero
<1>10. ASSUME NEW i \in DOMAIN fills, fills[i].orderId = o
       PROVE  AmountOf(fills, o) = fills[i].amount
  <2>1. i \in 1..n /\ F[i] = fills[i].amount /\ F[i] \in Int
    BY <1>1, <1>2, <1>5, <1>10
  <2>2. \A j \in (1..n) \ {i} : F[j] = 0
    BY <1>1, <1>5, <1>10 DEF IsPlain, NamedOnce
  <2>3. IsFiniteSet((1..n) \ {i})
    BY <1>7, FS_Subset
  <2>4. SumFunctionOnSet(F, (1..n) \ {i}) = 0
    BY <2>2, <2>3, SumZero
  <2>5. \A j \in 1..n : F[j] \in Int
    BY <1>2
  <2>6. SumFunctionOnSet(F, 1..n) = F[i] + SumFunctionOnSet(F, (1..n) \ {i})
    BY <1>7, <2>1, <2>5, SumRemove
  <2> QED
    BY <1>8, <2>1, <2>4, <2>6
<1> QED
  BY <1>8, <1>9, <1>10

(* The amount that is given back is the one that was promised.             *)
LEMMA LastAmountIsTheAmount ==
  ASSUME NEW fills, IsPlain(fills), NEW o \in OrdersOf(fills)
  PROVE  LastAmount(fills, o) = AmountOf(fills, o)
<1> DEFINE I == {i \in 1..Len(fills) : fills[i].orderId = o}
<1>0. fills \in Seq(OrderFill)
  BY DEF IsPlain
<1>1. Len(fills) \in Nat /\ I \subseteq 0..Len(fills) /\ I # {}
  BY <1>0 DEF OrdersOf
<1>2. SelectLastInSeq(fills, LAMBDA f : f.orderId = o) = Max(I)
  BY <1>1 DEF SelectLastInSeq
<1>3. Max(I) \in I
  <2> HIDE DEF I
  <2> QED
    BY <1>1, GreatestBelow
<1>4. Max(I) \in DOMAIN fills /\ fills[Max(I)].orderId = o
  BY <1>0, <1>3
<1>5. LastAmount(fills, o) = fills[Max(I)].amount
  BY <1>2 DEF LastAmount
<1> QED
  BY <1>4, <1>5, AmountOfList

(* Tables of rows, as far as the accounts go.                              *)
IsBook(table) ==
  IsFiniteSet(DOMAIN table) /\ \A t \in DOMAIN table : IsPlain(table[t].orders)

PendingIn(table) == {t \in DOMAIN table : table[t].status = "pending"}

CommittedIn(table, o) ==
  SumFunctionOnSet([t \in DOMAIN table |-> AmountOf(table[t].orders, o)], PendingIn(table))

(* What pending trades have promised of an order is a natural number.      *)
LEMMA CommittedType ==
  ASSUME NEW table, IsBook(table), NEW o
  PROVE  /\ CommittedIn(table, o) \in Nat
         /\ IsFiniteSet(PendingIn(table))
         /\ \A t \in DOMAIN table : AmountOf(table[t].orders, o) \in Nat
<1>1. IsFiniteSet(PendingIn(table))
  BY FS_Subset DEF PendingIn, IsBook
<1>2. \A t \in DOMAIN table : AmountOf(table[t].orders, o) \in Nat
  BY AmountOfList DEF IsBook
<1> DEFINE F == [t \in DOMAIN table |-> AmountOf(table[t].orders, o)]
<1>3. \A t \in PendingIn(table) : F[t] \in Nat
  BY <1>2 DEF PendingIn
<1>4. CommittedIn(table, o) = SumFunctionOnSet(F, PendingIn(table))
  BY DEF CommittedIn
<1> HIDE DEF F
<1>5. CommittedIn(table, o) \in Nat
  BY <1>1, <1>3, <1>4, SumNatural
<1> QED
  BY <1>1, <1>2, <1>5

(* A table whose pending rows are those of another promises what it does.  *)
LEMMA CommittedSame ==
  ASSUME NEW a, IsBook(a), NEW b, NEW o, PendingIn(b) = PendingIn(a),
         \A t \in PendingIn(a) : b[t].orders = a[t].orders
  PROVE  CommittedIn(b, o) = CommittedIn(a, o)
<1> DEFINE F == [t \in DOMAIN a |-> AmountOf(a[t].orders, o)]
           G == [t \in DOMAIN b |-> AmountOf(b[t].orders, o)]
<1>1. \A t \in PendingIn(a) : F[t] \in Int /\ F[t] = G[t]
  <2> SUFFICES ASSUME NEW t \in PendingIn(a) PROVE F[t] \in Int /\ F[t] = G[t]
    OBVIOUS
  <2>1. t \in DOMAIN a /\ t \in DOMAIN b
    BY DEF PendingIn
  <2>2. AmountOf(a[t].orders, o) \in Nat
    BY <2>1, CommittedType
  <2> QED
    BY <2>1, <2>2
<1>2. IsFiniteSet(PendingIn(a))
  BY CommittedType
<1>3. /\ CommittedIn(a, o) = SumFunctionOnSet(F, PendingIn(a))
      /\ CommittedIn(b, o) = SumFunctionOnSet(G, PendingIn(a))
  BY DEF CommittedIn
<1> HIDE DEF F, G
<1> QED
  BY <1>1, <1>2, <1>3, SumAgree

(* One that has one pending row more promises that much more.              *)
LEMMA CommittedMore ==
  ASSUME NEW a, IsBook(a), NEW b, IsBook(b), NEW o, NEW t \in PendingIn(b), t \notin PendingIn(a),
         PendingIn(b) = PendingIn(a) \cup {t},
         \A k \in PendingIn(a) : b[k].orders = a[k].orders
  PROVE  CommittedIn(b, o) = CommittedIn(a, o) + AmountOf(b[t].orders, o)
<1> DEFINE F == [k \in DOMAIN a |-> AmountOf(a[k].orders, o)]
           G == [k \in DOMAIN b |-> AmountOf(b[k].orders, o)]
<1>1. \A k \in PendingIn(a) : F[k] \in Int /\ F[k] = G[k]
  <2>1. \A k \in PendingIn(a) : k \in DOMAIN a /\ k \in DOMAIN b
    BY DEF PendingIn
  <2> QED
    BY <2>1, CommittedType
<1>2. \A k \in PendingIn(a) \cup {t} : G[k] \in Int
  <2> SUFFICES ASSUME NEW k \in PendingIn(b) PROVE G[k] \in Int
    OBVIOUS
  <2>1. k \in DOMAIN b
    BY DEF PendingIn
  <2>2. AmountOf(b[k].orders, o) \in Nat
    BY <2>1, CommittedType
  <2> QED
    BY <2>1, <2>2
<1>3. G[t] = AmountOf(b[t].orders, o)
  BY DEF PendingIn
<1>4. IsFiniteSet(PendingIn(a))
  BY CommittedType
<1>5. /\ CommittedIn(a, o) = SumFunctionOnSet(F, PendingIn(a))
      /\ CommittedIn(b, o) = SumFunctionOnSet(G, PendingIn(a) \cup {t})
  BY DEF CommittedIn
<1> HIDE DEF F, G
<1>6. SumFunctionOnSet(G, PendingIn(a) \cup {t}) = SumFunctionOnSet(G, PendingIn(a)) + G[t]
  BY <1>2, <1>4, SumAdd
<1>7. SumFunctionOnSet(F, PendingIn(a)) = SumFunctionOnSet(G, PendingIn(a))
  BY <1>1, <1>4, SumAgree
<1> QED
  BY <1>3, <1>5, <1>6, <1>7

(* A pending row is part of what is promised.                              *)
LEMMA CommittedIncludes ==
  ASSUME NEW table, IsBook(table), NEW o, NEW t \in PendingIn(table)
  PROVE  AmountOf(table[t].orders, o) =< CommittedIn(table, o)
<1> DEFINE F == [k \in DOMAIN table |-> AmountOf(table[k].orders, o)]
           S == PendingIn(table)
<1>1. IsFiniteSet(S) /\ \A k \in DOMAIN table : AmountOf(table[k].orders, o) \in Nat
  BY CommittedType
<1>2. \A k \in S : k \in DOMAIN table
  BY DEF PendingIn
<1>3. \A k \in S : F[k] \in Nat /\ F[k] \in Int
  BY <1>1, <1>2
<1>4. F[t] = AmountOf(table[t].orders, o)
  BY <1>2
<1>5. CommittedIn(table, o) = SumFunctionOnSet(F, S)
  BY DEF CommittedIn
<1>6. t \in S /\ IsFiniteSet(S \ {t})
  BY <1>1, FS_Subset
<1> HIDE DEF F, S
<1>7. SumFunctionOnSet(F, S) = F[t] + SumFunctionOnSet(F, S \ {t})
  BY <1>1, <1>3, <1>6, SumRemove
<1>8. SumFunctionOnSet(F, S \ {t}) \in Nat
  BY <1>3, <1>6, SumNatural
<1> QED
  BY <1>3, <1>4, <1>5, <1>6, <1>7, <1>8

(* Cancels.  A request takes outputs once, so a trade gives up outputs in  *)
(* at most one cancel, and after that has begun nobody reads the orders    *)
(* for the trade or holds an output for it.                                *)
Cancelling(m) == cpc[m] \in {"tx", "orders", "save"}

CancelIsLast(m) ==
  Cancelling(m) =>
    /\ Requested(TradeOf(m))
    /\ HeldBy(TradeOf(m)) = {}
    /\ \A n \in Messages : TradeOf(n) = TradeOf(m) =>
         /\ pc[n] \notin {"read", "rune", "take"}
         /\ Cancelling(n) => n = m

CancelsInv == CoverInv /\ \A m \in Messages : CancelIsLast(m)

(* A step that starts no cancel, takes no output and reads for no one new. *)
LEMMA QuietCancels ==
  ASSUME CancelsInv, [Next]_vars, UNCHANGED msg,
         \A u \in DOMAIN reserved' : u \in DOMAIN reserved /\ reserved'[u].tradeId = reserved[u].tradeId,
         \A n \in Messages : pc'[n] \in {"read", "rune", "take"} => pc[n] \in {"read", "rune", "take"},
         \A n \in Messages : Cancelling(n)' => Cancelling(n)
  PROVE  \A m \in Messages : CancelIsLast(m)'
<1> SUFFICES ASSUME NEW m \in Messages, Cancelling(m)'
             PROVE  CancelIsLast(m)'
  BY DEF CancelIsLast
<1>1. CancelIsLast(m) /\ Cancelling(m)
  BY DEF CancelsInv
<1>2. \A n \in Messages : TradeOf(n)' = TradeOf(n)
  BY DEF TradeOf
<1>3. HeldBy(TradeOf(m))' = {}
  BY <1>1, <1>2 DEF CancelIsLast, HeldBy
<1>4. PICK n \in Messages : IsRequest(n, TradeOf(m))
  BY <1>1 DEF CancelIsLast, Requested
<1>5. pc'[n] # "idle" /\ msg'[n] = msg[n]
  BY <1>4, RequestsStay DEF CancelsInv, IsRequest
<1>6. Requested(TradeOf(m))'
  BY <1>2, <1>4, <1>5 DEF Requested, IsRequest
<1>7. \A k \in Messages : TradeOf(k)' = TradeOf(m)' =>
        /\ pc'[k] \notin {"read", "rune", "take"}
        /\ Cancelling(k)' => k = m
  BY <1>1, <1>2 DEF CancelIsLast
<1> QED
  BY <1>3, <1>6, <1>7 DEF CancelIsLast

(* A cancel starts, for a trade that holds something.                      *)
LEMMA CancelStarts ==
  ASSUME CancelsInv, [Next]_vars, NEW m \in Messages, NEW t \in Trades,
         t = TradeOf(m)',
         \A n \in Messages \ {m} : pc'[n] = pc[n] /\ cpc'[n] = cpc[n] /\ msg'[n] = msg[n],
         pc[m] = "idle" \/ msg'[m] = msg[m],
         pc'[m] \in {"done", "reply_error"},
         CancelNow(m, t)
  PROVE  \A n \in Messages : CancelIsLast(n)'
<1>0. /\ DOMAIN msg = Messages /\ pc \in [Messages -> Pcs]
      /\ cpc \in [Messages -> {"none", "tx", "orders", "save", "done"}]
      /\ \A n \in Messages : pc[n] = "idle" => ~ Cancelling(n)
  BY CoverTypes DEF CancelsInv, TypeOK, ControlTypeOK, Cancelling
<1>1. /\ \A u \in DOMAIN reserved' : u \in DOMAIN reserved /\ reserved'[u] = reserved[u]
      /\ \A u \in DOMAIN reserved' : reserved'[u].tradeId # t
  BY DEF CancelNow, WithoutTrade, Restrict, HeldBy
<1>2. \A n \in Messages \ {m} : TradeOf(n)' = TradeOf(n) /\ Cancelling(n)' = Cancelling(n)
  BY DEF TradeOf, Cancelling
<1>3. \A s : HeldBy(s)' \subseteq HeldBy(s)
  BY <1>1 DEF HeldBy
<1>4. Cancelling(m)' => HeldBy(t) # {}
  BY <1>0 DEF CancelNow, CancelGoto, Cancelling
<1>5. ASSUME NEW s, Requested(s) PROVE Requested(s)'
  <2>1. PICK n \in Messages : IsRequest(n, s)
    BY <1>5 DEF Requested
  <2>2. pc'[n] # "idle" /\ msg'[n] = msg[n]
    BY <2>1, RequestsStay DEF CancelsInv, IsRequest
  <2> QED
    BY <2>1, <2>2 DEF Requested, IsRequest
<1>6. ASSUME Cancelling(m)' PROVE CancelIsLast(m)'
  <2>1. HeldBy(t) # {}
    BY <1>4, <1>6
  <2>2. Requested(t)'
    BY <1>5, <2>1 DEF CancelsInv, CoverInv, RequestsComeFirst, HeldBy
  <2>3. HeldBy(t)' = {}
    BY <1>1 DEF HeldBy
  <2>4. ASSUME NEW n \in Messages \ {m}, TradeOf(n) = t
        PROVE  pc[n] \notin {"read", "rune", "take"} /\ ~ Cancelling(n)
    BY <2>1, <2>4 DEF CancelsInv, CancelIsLast, CoverInv, RequestsAreFresh
  <2> QED
    BY <1>2, <2>2, <2>3, <2>4 DEF CancelIsLast
<1>7. ASSUME NEW n \in Messages \ {m}, Cancelling(n)' PROVE CancelIsLast(n)'
  <2>1. CancelIsLast(n) /\ Cancelling(n)
    BY <1>2, <1>7 DEF CancelsInv
  <2>2. HeldBy(TradeOf(n)) = {} /\ Requested(TradeOf(n))
    BY <2>1 DEF CancelIsLast
  <2>3. HeldBy(TradeOf(n))' = {} /\ Requested(TradeOf(n))'
    BY <1>2, <1>3, <1>5, <2>2
  <2>4. TradeOf(m)' = TradeOf(n)' => ~ Cancelling(m)'
    BY <1>2, <1>4, <2>2
  <2>5. \A k \in Messages : TradeOf(k)' = TradeOf(n)' =>
          /\ pc'[k] \notin {"read", "rune", "take"}
          /\ Cancelling(k)' => k = n
    BY <1>2, <2>1, <2>4 DEF CancelIsLast
  <2> QED
    BY <2>3, <2>5 DEF CancelIsLast
<1> QED
  BY <1>6, <1>7 DEF CancelIsLast

(* Every step.                                                             *)
LEMMA CancelsStep ==
  ASSUME TradesReserveOnce
  PROVE  CancelsInv /\ [Next]_vars => CancelsInv'
<1> SUFFICES ASSUME CancelsInv, [Next]_vars
             PROVE  \A m \in Messages : CancelIsLast(m)'
  BY CoverStep DEF CancelsInv
<1>0. /\ DOMAIN msg = Messages /\ pc \in [Messages -> Pcs]
      /\ cpc \in [Messages -> {"none", "tx", "orders", "save", "done"}]
      /\ \A n \in Messages : pc[n] # "idle" => TradeOf(n) \in Trades
      /\ \A n \in Messages : pc[n] = "idle" => ~ Cancelling(n)
      /\ \A u \in DOMAIN reserved : IsReservation(reserved[u])
  BY CoverTypes DEF CancelsInv, TypeOK, ControlTypeOK, MemoryTypeOK, Cancelling
<1>00. CoverInv' /\ \A n \in Messages : pc'[n] # "idle" => TradeOf(n)' \in Trades
  <2>1. CoverInv'
    BY CoverStep DEF CancelsInv
  <2>2. \A n \in Messages : pc'[n] # "idle" => msg'[n] \in Message
    BY <2>1 DEF CoverInv, TypeOK, ControlTypeOK
  <2> QED
    BY <2>1, <2>2 DEF Message, TradeOf
<1> USE DEF memory, database, locals, world, history, Goto, CancelGoto
<1>1. ASSUME NEW m \in Messages, ReceiveReserve(m) \/ ReceiveSign(m)
      PROVE  \A n \in Messages : CancelIsLast(n)'
  <2>1. /\ pc[m] = "idle" /\ UNCHANGED <<reserved, cpc>>
        /\ \A n \in Messages \ {m} : pc'[n] = pc[n] /\ msg'[n] = msg[n]
        /\ pc'[m] \in {"read", "reply_error", "validate"}
        /\ pc'[m] = "read" => msg'[m].type = "reserve_request"
    BY <1>0, <1>1 DEF ReceiveReserve, ReceiveSign, Receive
  <2> SUFFICES ASSUME NEW n \in Messages, Cancelling(n)'
               PROVE  CancelIsLast(n)'
    BY DEF CancelIsLast
  <2>2. n # m /\ Cancelling(n) /\ CancelIsLast(n) /\ TradeOf(n)' = TradeOf(n)
    BY <1>0, <2>1 DEF Cancelling, CancelsInv, TradeOf
  <2>3. PICK k \in Messages : IsRequest(k, TradeOf(n))
    BY <2>2 DEF CancelIsLast, Requested
  <2>4. k # m /\ IsRequest(k, TradeOf(n))'
    BY <2>1, <2>2, <2>3 DEF IsRequest
  <2>5. TradeOf(n)' \in Trades
    BY <1>0, <2>2
  <2>6. ASSUME TradeOf(m)' = TradeOf(n)', pc'[m] = "read" PROVE FALSE
    <3>1. IsRequest(m, TradeOf(n))'
      BY <2>1, <2>6 DEF IsRequest, TradeOf
    <3> QED
      BY <1>00, <2>4, <2>5, <3>1 DEF CoverInv, OneRequest
  <2>7. HeldBy(TradeOf(n))' = {}
    BY <2>1, <2>2 DEF CancelIsLast, HeldBy
  <2>8. ASSUME NEW p \in Messages, TradeOf(p)' = TradeOf(n)'
        PROVE  pc'[p] \notin {"read", "rune", "take"} /\ (Cancelling(p)' => p = n)
    <3>1. CASE p = m
      BY <1>0, <2>1, <2>6, <2>8, <3>1 DEF Cancelling
    <3>2. CASE p # m
      BY <2>1, <2>2, <2>8, <3>2 DEF CancelIsLast, TradeOf, Cancelling
    <3> QED
      BY <3>1, <3>2
  <2> QED
    BY <2>4, <2>7, <2>8 DEF CancelIsLast, Requested
<1>2. ASSUME NEW m \in Messages, ReceiveCancel(m)
      PROVE  \A n \in Messages : CancelIsLast(n)'
  <2>1. /\ pc[m] = "idle" /\ pc'[m] = "done"
        /\ \A n \in Messages \ {m} : pc'[n] = pc[n] /\ cpc'[n] = cpc[n] /\ msg'[n] = msg[n]
        /\ CancelNow(m, TradeOf(m)')
    BY <1>0, <1>2 DEF ReceiveCancel, Receive, CancelNow, TradeOf
  <2>2. TradeOf(m)' \in Trades
    BY <1>00, <2>1
  <2> DEFINE t == TradeOf(m)'
  <2>3. t \in Trades /\ t = TradeOf(m)' /\ CancelNow(m, t)
    BY <2>1, <2>2
  <2> HIDE DEF t
  <2> QED
    BY <2>1, <2>3, CancelStarts
<1>3. ASSUME NEW m \in Messages, ReserveFails(m)
      PROVE  \A n \in Messages : CancelIsLast(n)'
  <2>1. /\ pc[m] # "idle" /\ pc'[m] = "reply_error"
        /\ \A n \in Messages \ {m} : pc'[n] = pc[n] /\ cpc'[n] = cpc[n] /\ msg'[n] = msg[n]
        /\ msg'[m] = msg[m] /\ CancelNow(m, TradeOf(m)) /\ TradeOf(m)' = TradeOf(m)
    BY <1>0, <1>3 DEF ReserveFails, CancelNow, TradeOf
  <2>2. TradeOf(m) \in Trades
    BY <1>0, <2>1
  <2> QED
    BY <2>1, <2>2, CancelStarts
<1>4. ASSUME NEW m \in Messages, TakeUtxos(m)
      PROVE  \A n \in Messages : CancelIsLast(n)'
  <2>1. /\ UNCHANGED <<msg, cpc>> /\ pc[m] = "take" /\ pc'[m] = "lookup"
        /\ \A n \in Messages \ {m} : pc'[n] = pc[n]
    BY <1>0, <1>4 DEF TakeUtxos
  <2>2. \A u \in DOMAIN reserved' :
          \/ u \in DOMAIN reserved /\ reserved'[u] = reserved[u]
          \/ reserved'[u].tradeId = TradeOf(m)
    <3>1. PICK s : reserved' = WithPick(TradeOf(m), s, Required(msg[m].orders))
      BY <1>4 DEF TakeUtxos
    <3> QED
      BY <3>1 DEF WithPick
  <2> SUFFICES ASSUME NEW n \in Messages, Cancelling(n)'
               PROVE  CancelIsLast(n)'
    BY DEF CancelIsLast
  <2>3. CancelIsLast(n) /\ Cancelling(n) /\ \A k \in Messages : TradeOf(k)' = TradeOf(k)
    BY <2>1 DEF CancelsInv, Cancelling, TradeOf
  <2>4. TradeOf(m) # TradeOf(n)
    BY <2>1, <2>3 DEF CancelIsLast
  <2>5. HeldBy(TradeOf(n))' = {}
    BY <2>2, <2>3, <2>4 DEF CancelIsLast, HeldBy
  <2>6. PICK k \in Messages : IsRequest(k, TradeOf(n))
    BY <2>3 DEF CancelIsLast, Requested
  <2>7. Requested(TradeOf(n))'
    BY <2>1, <2>3, <2>6 DEF IsRequest, Requested
  <2> QED
    BY <2>1, <2>3, <2>5, <2>7 DEF CancelIsLast, Cancelling
<1>5. ASSUME NEW m \in Messages,
             \/ ReadOrder(m) \/ UseSurplus(m) \/ ListUtxos(m) \/ FindTransaction(m)
             \/ InsertTransaction(m) \/ UpdateTransaction(m) \/ PublishSuccess(m)
             \/ PublishFails(m) \/ PublishError(m) \/ SignStep(m)
      PROVE  \A n \in Messages : CancelIsLast(n)'
  <2>1. /\ UNCHANGED <<reserved, msg, cpc>>
        /\ \A n \in Messages : pc'[n] \in {"read", "rune", "take"} => pc[n] \in {"read", "rune", "take"}
    BY <1>0, <1>5 DEF ReadOrder, UseSurplus, ListUtxos, FindTransaction, InsertTransaction,
       UpdateTransaction, PublishSuccess, PublishFails, PublishError, SignStep, ValidatePsbt,
       SendSignature, SignFails
  <2> QED
    BY <2>1, QuietCancels DEF Cancelling
<1>6. ASSUME NEW m \in Messages, CancelStep(m)
      PROVE  \A n \in Messages : CancelIsLast(n)'
  <2>1. /\ UNCHANGED <<reserved, msg, pc>>
        /\ \A n \in Messages : Cancelling(n)' => Cancelling(n)
    BY <1>0, <1>6 DEF CancelStep, CancelFindTransaction, CancelFindOrders, CancelSave, CancelFails,
       Cancelling
  <2> QED
    BY <2>1, QuietCancels
<1>7. ASSUME \/ Tick \/ CleanupExpiredReservations \/ Restart \/ Broadcast
             \/ (\E o \in Orders : DeleteOrder(o)) \/ UNCHANGED vars
      PROVE  \A n \in Messages : CancelIsLast(n)'
  <2>1. /\ UNCHANGED msg
        /\ \A n \in Messages : pc'[n] = pc[n] \/ pc'[n] = "done"
        /\ \A n \in Messages : cpc'[n] = cpc[n] \/ cpc'[n] \in {"none", "done"}
    BY <1>0, <1>7 DEF Tick, CleanupExpiredReservations, Restart, Broadcast, DeleteOrder, vars
  <2>2. \A u \in DOMAIN reserved' : u \in DOMAIN reserved /\ reserved'[u].tradeId = reserved[u].tradeId
    <3>1. CASE Tick
      <4> SUFFICES ASSUME NEW u \in DOMAIN reserved
                   PROVE  reserved'[u].tradeId = reserved[u].tradeId
        BY <3>1 DEF Tick
      <4>1. DOMAIN reserved[u] = {"tradeId", "age", "orderAmount", "position"}
        BY <1>0 DEF IsReservation
      <4> QED
        BY <3>1, <4>1 DEF Tick
    <3>2. CASE CleanupExpiredReservations
      BY <3>2 DEF CleanupExpiredReservations, RestrictDomain, Restrict
    <3>3. CASE UNCHANGED reserved \/ DOMAIN reserved' = {}
      BY <3>3
    <3>4. CASE Restart
      <4>1. reserved' = <<>>
        BY <3>4 DEF Restart
      <4> QED
        BY <3>3, <4>1
    <3> QED
      BY <1>7, <3>1, <3>2, <3>3, <3>4 DEF Broadcast, DeleteOrder, vars
  <2> QED
    BY <2>1, <2>2, QuietCancels DEF Cancelling
<1> QED
  BY <1>1, <1>2, <1>3, <1>4, <1>5, <1>6, <1>7, Zenon DEF Next, ReserveStep

(* Requests name an order once, for no negative amount, and the list of    *)
(* every other message is empty or like that.                              *)
PlainRequests == \A m \in Messages : \A c \in Content[m] : IsPlain(c.orders)

(* What the orders are filled by, at every moment.                         *)
Balance(o) == InitFilled[o] + CommittedIn(tx, o)

(* The orders that are there and whose row no change was lost of.          *)
Kept == DOMAIN filled \ overwritten

Balanced ==
  /\ IsBook(tx)
  /\ \A o \in Kept : o \in DOMAIN InitFilled /\ filled[o] = Balance(o)

(* A request saves the rows of all its orders.                             *)
BeforeInsert == {"read", "rune", "take", "lookup", "insert"}

OrdersRead(m) == {i \in DOMAIN msg[m].orders : pc[m] = "read" => i < next[m]}

RequestBalanced(m) ==
  pc[m] \in BeforeInsert =>
    /\ IsPlain(msg[m].orders)
    /\ \A i \in OrdersRead(m) : msg[m].orders[i].orderId \in DOMAIN snap[m]

(* A cancel saves the rows of all orders of a transaction that nobody else *)
(* settles meanwhile.                                                      *)
CancelBalanced(m) ==
  /\ cpc[m] \in {"orders", "save"} =>
       /\ TradeOf(m) \in PendingIn(tx)
       /\ seen[m].orders = tx[TradeOf(m)].orders
  /\ cpc[m] = "save" => OrdersOf(seen[m].orders) \cap Kept \subseteq DOMAIN snap[m]

AccountsInv ==
  /\ CancelsInv
  /\ Balanced
  /\ \A m \in Messages : RequestBalanced(m) /\ CancelBalanced(m)

(* The types that the invariant of the accounts gives.                     *)
LEMMA AccountTypes ==
  ASSUME AccountsInv
  PROVE  /\ TypeOK /\ CoverInv /\ IsBook(tx)
         /\ \A t \in DOMAIN tx : IsTransaction(tx[t]) /\ IsPlain(tx[t].orders)
         /\ pc \in [Messages -> Pcs] /\ DOMAIN msg = Messages /\ DOMAIN snap = Messages
         /\ DOMAIN seen = Messages /\ DOMAIN next = Messages
         /\ cpc \in [Messages -> {"none", "tx", "orders", "save", "done"}]
         /\ \A m \in Messages : pc[m] # "idle" => msg[m].orders \in Seq(OrderFill)
         /\ \A m \in Messages : pc[m] = "idle" => cpc[m] = "none"
         /\ \A o \in DOMAIN InitFilled : InitFilled[o] \in Nat /\ Balance(o) \in Nat
<1>1. /\ TypeOK /\ CoverInv /\ IsBook(tx)
      /\ \A t \in DOMAIN tx : IsTransaction(tx[t])
      /\ \A m \in Messages : pc[m] # "idle" => msg[m] \in Message
      /\ pc \in [Messages -> Pcs] /\ DOMAIN msg = Messages /\ DOMAIN seen = Messages
      /\ cpc \in [Messages -> {"none", "tx", "orders", "save", "done"}]
  BY CoverTypes DEF AccountsInv, CancelsInv, Balanced
<1>2. DOMAIN snap = Messages /\ DOMAIN next = Messages
      /\ \A m \in Messages : pc[m] = "idle" => cpc[m] = "none"
  BY <1>1 DEF TypeOK, LocalsTypeOK, ControlTypeOK
<1>3. \A m \in Messages : pc[m] # "idle" => msg[m].orders \in Seq(OrderFill)
  BY <1>1, MessageFields
<1>4. \A t \in DOMAIN tx : IsPlain(tx[t].orders)
  BY <1>1 DEF IsBook
<1>5. ASSUME NEW o \in DOMAIN InitFilled PROVE InitFilled[o] \in Nat /\ Balance(o) \in Nat
  <2>1. o \in Orders /\ InitFilled[o] \in 0..Quantity[o] /\ Quantity[o] \in Nat
    BY ExecutionAssumption
  <2>2. CommittedIn(tx, o) \in Nat
    BY <1>1, CommittedType
  <2> QED
    BY <2>1, <2>2 DEF Balance
<1> QED
  BY <1>1, <1>2, <1>3, <1>4, <1>5

(* While the orders and the status of the rows stay, the balance does.     *)
LEMMA BalanceStays ==
  ASSUME AccountsInv, DOMAIN tx' = DOMAIN tx,
         \A t \in DOMAIN tx : tx'[t].status = tx[t].status /\ tx'[t].orders = tx[t].orders,
         DOMAIN filled' \subseteq DOMAIN filled, UNCHANGED overwritten,
         \A o \in DOMAIN filled' : filled'[o] = filled[o]
  PROVE  /\ Balanced' /\ Kept' \subseteq Kept
         /\ PendingIn(tx') = PendingIn(tx)
<1>1. PendingIn(tx') = PendingIn(tx) /\ Kept' \subseteq Kept
  BY DEF PendingIn, Kept
<1>2. IsBook(tx)
  BY AccountTypes
<1>3. \A t \in PendingIn(tx) : tx'[t].orders = tx[t].orders
  BY DEF PendingIn
<1>4. \A o : CommittedIn(tx', o) = CommittedIn(tx, o)
  BY <1>1, <1>2, <1>3, CommittedSame
<1>5. \A o : Balance(o)' = Balance(o)
  BY <1>4 DEF Balance
<1>6. IsBook(tx')
  BY <1>2 DEF IsBook
<1>7. \A o \in Kept' : o \in DOMAIN InitFilled /\ filled'[o] = Balance(o)'
  BY <1>1, <1>5 DEF AccountsInv, Balanced, Kept
<1> QED
  BY <1>1, <1>6, <1>7 DEF Balanced

(* The steps that change no row: of each handler either the case is made   *)
(* or it goes on with what it has.                                         *)
LEMMA QuietBalanced ==
  ASSUME AccountsInv, CancelsInv', DOMAIN tx' = DOMAIN tx,
         \A t \in DOMAIN tx : tx'[t].status = tx[t].status /\ tx'[t].orders = tx[t].orders,
         DOMAIN filled' \subseteq DOMAIN filled, UNCHANGED overwritten,
         \A o \in DOMAIN filled' : filled'[o] = filled[o],
         \A n \in Messages :
           \/ RequestBalanced(n)'
           \/ pc'[n] \in BeforeInsert =>
                /\ pc[n] \in BeforeInsert /\ msg'[n] = msg[n] /\ snap'[n] = snap[n]
                /\ pc[n] = "read" => pc'[n] = "read" /\ next'[n] = next[n],
         \A n \in Messages :
           \/ CancelBalanced(n)'
           \/ cpc'[n] \in {"orders", "save"} =>
                /\ cpc'[n] = cpc[n] /\ seen'[n] = seen[n] /\ msg'[n] = msg[n]
                /\ snap'[n] = snap[n]
  PROVE  AccountsInv'
<1>1. /\ Balanced' /\ Kept' \subseteq Kept
      /\ PendingIn(tx') = PendingIn(tx)
  BY BalanceStays
<1>2. ASSUME NEW n \in Messages PROVE RequestBalanced(n)'
  <2> SUFFICES ASSUME pc'[n] \in BeforeInsert, ~ RequestBalanced(n)'
               PROVE  FALSE
    BY DEF RequestBalanced
  <2>1. OrdersRead(n)' \subseteq OrdersRead(n)
    BY DEF OrdersRead
  <2>2. RequestBalanced(n)
    BY DEF AccountsInv
  <2> QED
    BY <2>1, <2>2 DEF RequestBalanced
<1>3. ASSUME NEW n \in Messages PROVE CancelBalanced(n)'
  <2> SUFFICES ASSUME cpc'[n] \in {"orders", "save"}, ~ CancelBalanced(n)'
               PROVE  FALSE
    BY DEF CancelBalanced
  <2>1. CancelBalanced(n)
    BY DEF AccountsInv
  <2>2. TradeOf(n)' = TradeOf(n) /\ seen'[n] = seen[n] /\ cpc'[n] = cpc[n] /\ snap'[n] = snap[n]
    BY DEF TradeOf
  <2>3. TradeOf(n) \in PendingIn(tx) /\ seen[n].orders = tx[TradeOf(n)].orders
    BY <2>1, <2>2 DEF CancelBalanced
  <2>4. TradeOf(n)' \in PendingIn(tx') /\ seen'[n].orders = tx'[TradeOf(n)'].orders
    BY <1>1, <2>2, <2>3 DEF PendingIn
  <2>5. cpc'[n] = "save" => OrdersOf(seen'[n].orders) \cap Kept' \subseteq DOMAIN snap'[n]
    BY <1>1, <2>1, <2>2 DEF CancelBalanced
  <2> QED
    BY <2>4, <2>5 DEF CancelBalanced, OrdersOf
<1> QED
  BY <1>1, <1>2, <1>3 DEF AccountsInv

(* The handler of a cancel that has found its transaction is not working   *)
(* on a request.                                                           *)
LEMMA CancelsAreNoRequests ==
  ASSUME AccountsInv, NEW m \in Messages, cpc[m] \in {"orders", "save"}
  PROVE  /\ pc[m] # "idle" /\ pc[m] \notin BeforeInsert
         /\ TradeOf(m) \in PendingIn(tx) /\ TradeOf(m) \in DOMAIN tx
         /\ seen[m].orders = tx[TradeOf(m)].orders
         /\ IsPlain(seen[m].orders)
<1>1. pc[m] # "idle"
  BY AccountTypes
<1>2. TradeOf(m) \in PendingIn(tx) /\ seen[m].orders = tx[TradeOf(m)].orders
  BY DEF AccountsInv, CancelBalanced
<1>3. TradeOf(m) \in DOMAIN tx
  BY <1>2 DEF PendingIn
<1>4. pc[m] \notin BeforeInsert
  BY <1>3, AccountTypes DEF CoverInv, RequestsAreFresh, BeforeInsert
<1>5. IsPlain(seen[m].orders)
  BY <1>2, <1>3, AccountTypes
<1> QED
  BY <1>1, <1>2, <1>3, <1>4, <1>5

(* A message arrives.  A request has read nothing yet.                     *)
LEMMA ArrivalBalanced ==
  ASSUME PlainRequests, AccountsInv, CancelsInv', NEW m \in Messages,
         ReceiveReserve(m) \/ ReceiveCancel(m) \/ ReceiveSign(m)
  PROVE  AccountsInv'
<1>0. /\ pc \in [Messages -> Pcs] /\ DOMAIN msg = Messages /\ DOMAIN next = Messages
      /\ cpc \in [Messages -> {"none", "tx", "orders", "save", "done"}]
      /\ \A n \in Messages : pc[n] = "idle" => cpc[n] = "none"
  BY AccountTypes
<1> USE DEF memory, database, locals, world, history, Goto, CancelGoto
<1>1. /\ UNCHANGED <<tx, filled, snap, seen, overwritten>> /\ pc[m] = "idle"
      /\ \A n \in Messages \ {m} :
           pc'[n] = pc[n] /\ cpc'[n] = cpc[n] /\ msg'[n] = msg[n] /\ next'[n] = next[n]
      /\ cpc'[m] \notin {"orders", "save"}
      /\ pc'[m] \in BeforeInsert => ReceiveReserve(m) /\ pc'[m] = "read"
  <2>1. CASE ReceiveReserve(m)
    BY <1>0, <2>1 DEF ReceiveReserve, Receive, BeforeInsert
  <2>2. CASE ReceiveCancel(m)
    BY <1>0, <2>2 DEF ReceiveCancel, CancelNow, Receive, BeforeInsert
  <2>3. CASE ReceiveSign(m)
    BY <1>0, <2>3 DEF ReceiveSign, Receive, BeforeInsert
  <2> QED
    BY <2>1, <2>2, <2>3
<1>2. RequestBalanced(m)'
  <2> SUFFICES ASSUME pc'[m] \in BeforeInsert PROVE RequestBalanced(m)'
    BY DEF RequestBalanced
  <2>1. ReceiveReserve(m) /\ pc'[m] = "read" /\ next'[m] = 1
    BY <1>0, <1>1 DEF ReceiveReserve
  <2>2. IsPlain(msg'[m].orders)
    BY <1>0, <2>1, PlainRequests DEF ReceiveReserve, Receive, PlainRequests
  <2>3. msg'[m].orders \in Seq(OrderFill)
    BY <2>2 DEF IsPlain
  <2>4. OrdersRead(m)' = {}
    BY <2>1, <2>3 DEF OrdersRead
  <2> QED
    BY <2>2, <2>4 DEF RequestBalanced, IsPlain, NamedOnce
<1>3. CancelBalanced(m)'
  BY <1>1 DEF CancelBalanced
<1> QED
  BY <1>1, <1>2, <1>3, QuietBalanced

(* An order is read, and its row will be saved.                            *)
LEMMA ReadBalanced ==
  ASSUME AccountsInv, CancelsInv', NEW m \in Messages, ReadOrder(m)
  PROVE  AccountsInv'
<1>0. /\ pc \in [Messages -> Pcs] /\ DOMAIN msg = Messages /\ DOMAIN next = Messages
      /\ DOMAIN snap = Messages /\ TypeOK
  BY AccountTypes
<1> DEFINE fills == msg[m].orders
           o == fills[next[m]].orderId
<1>1. /\ UNCHANGED <<tx, filled, msg, cpc, seen, overwritten>>
      /\ pc[m] = "read" /\ pc'[m] \in {"read", "rune"}
      /\ \A n \in Messages \ {m} : pc'[n] = pc[n] /\ snap'[n] = snap[n] /\ next'[n] = next[n]
      /\ DOMAIN snap'[m] = DOMAIN snap[m] \cup {o}
      /\ pc'[m] = "read" => next'[m] = next[m] + 1
      /\ pc'[m] = "rune" => ~ (next[m] < Len(fills))
  BY <1>0 DEF ReadOrder, MoreOrders, database, world, history, Goto, Saved, Entry
<1>2. fills \in Seq(OrderFill) /\ next[m] \in DOMAIN fills
  <2>1. fills \in Seq(OrderFill)
    BY <1>1, AccountTypes
  <2> QED
    BY <1>0, <1>1, <2>1 DEF TypeOK, LocalsTypeOK
<1>3. DOMAIN fills = 1..Len(fills) /\ Len(fills) \in Nat /\ next[m] \in 1..Len(fills)
  BY <1>2
<1>4. IsPlain(fills) /\ \A i \in OrdersRead(m) : fills[i].orderId \in DOMAIN snap[m]
  BY <1>1 DEF AccountsInv, RequestBalanced, BeforeInsert
<1>5. \A i \in OrdersRead(m)' : i \in OrdersRead(m) \/ i = next[m]
  BY <1>1, <1>3 DEF OrdersRead
<1>6. RequestBalanced(m)'
  <2>1. \A i \in OrdersRead(m)' : msg'[m].orders[i].orderId \in DOMAIN snap'[m]
    BY <1>1, <1>4, <1>5
  <2>2. IsPlain(msg'[m].orders)
    BY <1>1, <1>4
  <2> HIDE DEF fills, o
  <2> QED
    BY <2>1, <2>2 DEF RequestBalanced, IsPlain, NamedOnce
<1>7. CancelBalanced(m)'
  <2>1. cpc[m] \notin {"orders", "save"}
    BY <1>1, CancelsAreNoRequests DEF BeforeInsert
  <2> QED
    BY <1>1, <2>1 DEF CancelBalanced
<1> QED
  BY <1>1, <1>6, <1>7, QuietBalanced

(* The steps of a handler that change no row and none it means to save.    *)
LEMMA WorkBalanced ==
  ASSUME AccountsInv, CancelsInv', NEW m \in Messages,
         \/ UseSurplus(m) \/ ListUtxos(m) \/ TakeUtxos(m) \/ FindTransaction(m)
         \/ PublishSuccess(m) \/ PublishFails(m) \/ ReserveFails(m) \/ PublishError(m)
         \/ CancelFails(m) \/ SignStep(m)
  PROVE  AccountsInv'
<1>0. /\ pc \in [Messages -> Pcs] /\ DOMAIN msg = Messages /\ DOMAIN seen = Messages
      /\ cpc \in [Messages -> {"none", "tx", "orders", "save", "done"}]
  BY AccountTypes
<1> USE DEF memory, database, locals, world, history, Goto, CancelGoto
<1>1. CASE CancelFails(m)
  <2>1. /\ UNCHANGED <<tx, filled, snap, msg, pc, next, seen, overwritten>> /\ cpc'[m] = "done"
        /\ \A n \in Messages \ {m} : cpc'[n] = cpc[n]
    BY <1>0, <1>1 DEF CancelFails
  <2> QED
    BY <2>1, QuietBalanced
<1>2. CASE ReserveFails(m)
  <2>1. /\ UNCHANGED <<tx, filled, snap, msg, next, seen, overwritten>> /\ pc'[m] = "reply_error"
        /\ cpc'[m] \in {"done", "tx"}
        /\ \A n \in Messages \ {m} : cpc'[n] = cpc[n] /\ pc'[n] = pc[n]
    BY <1>0, <1>2 DEF ReserveFails, CancelNow
  <2> QED
    BY <2>1, QuietBalanced DEF BeforeInsert
<1>3. CASE \/ UseSurplus(m) \/ ListUtxos(m) \/ TakeUtxos(m) \/ FindTransaction(m)
           \/ PublishSuccess(m) \/ PublishFails(m) \/ PublishError(m) \/ SignStep(m)
  <2>1. /\ UNCHANGED <<tx, filled, snap, msg, cpc, next, overwritten>>
        /\ \A n \in Messages \ {m} : pc'[n] = pc[n] /\ seen'[n] = seen[n]
        /\ pc'[m] \in BeforeInsert => pc[m] \in BeforeInsert \ {"read"}
        /\ UNCHANGED seen \/ FindTransaction(m)
    BY <1>0, <1>3 DEF UseSurplus, ListUtxos, TakeUtxos, FindTransaction, PublishSuccess, PublishFails,
       PublishError, SignStep, ValidatePsbt, SendSignature, SignFails, BeforeInsert
  <2>2. ASSUME FindTransaction(m) PROVE cpc[m] \notin {"orders", "save"}
    BY <2>2, CancelsAreNoRequests DEF FindTransaction, BeforeInsert
  <2> QED
    BY <2>1, <2>2, QuietBalanced
<1> QED
  BY <1>1, <1>2, <1>3

(* A cancel finds the transaction, and then the rows of its orders.        *)
LEMMA FoundBalanced ==
  ASSUME AccountsInv, CancelsInv', NEW m \in Messages,
         CancelFindTransaction(m) \/ CancelFindOrders(m)
  PROVE  AccountsInv'
<1>0. /\ pc \in [Messages -> Pcs] /\ DOMAIN msg = Messages /\ DOMAIN seen = Messages
      /\ DOMAIN snap = Messages
      /\ cpc \in [Messages -> {"none", "tx", "orders", "save", "done"}]
  BY AccountTypes
<1> USE DEF memory, database, world, history, CancelGoto
<1>1. CASE CancelFindTransaction(m)
  <2>1. /\ UNCHANGED <<tx, filled, snap, msg, pc, next, overwritten>> /\ cpc'[m] \in {"orders", "done"}
        /\ \A n \in Messages \ {m} : cpc'[n] = cpc[n] /\ seen'[n] = seen[n]
        /\ cpc'[m] = "orders" => TradeOf(m) \in PendingIn(tx) /\ seen'[m] = tx[TradeOf(m)]
    BY <1>0, <1>1 DEF CancelFindTransaction, PendingIn
  <2>2. CancelBalanced(m)'
    BY <2>1 DEF CancelBalanced, TradeOf, PendingIn
  <2> QED
    BY <2>1, <2>2, QuietBalanced
<1>2. CASE CancelFindOrders(m)
  <2>1. /\ UNCHANGED <<tx, filled, msg, pc, next, seen, overwritten>>
        /\ cpc[m] = "orders" /\ cpc'[m] = "save"
        /\ \A n \in Messages \ {m} : cpc'[n] = cpc[n] /\ snap'[n] = snap[n]
        /\ DOMAIN snap'[m] = OrdersOf(seen[m].orders) \cap DOMAIN filled
    BY <1>0, <1>2 DEF CancelFindOrders, GivenBack
  <2>2. /\ pc[m] \notin BeforeInsert /\ TradeOf(m) \in PendingIn(tx)
        /\ seen[m].orders = tx[TradeOf(m)].orders
    BY <2>1, CancelsAreNoRequests
  <2>3. CancelBalanced(m)'
    BY <2>1, <2>2 DEF CancelBalanced, TradeOf, PendingIn, OrdersOf, Kept
  <2> QED
    BY <2>1, <2>2, <2>3, QuietBalanced
<1> QED
  BY <1>1, <1>2

(* A save: an order of which no change is lost has the row that reading it *)
(* now would give.                                                         *)
LEMMA SavedNow ==
  ASSUME NEW rows, NEW now, DOMAIN now \subseteq DOMAIN filled,
         filled' = Saved(filled, rows), Overwrites(rows, now), NEW o \in Kept'
  PROVE  /\ o \in Kept
         /\ o \in DOMAIN rows => o \in DOMAIN now /\ filled'[o] = now[o]
         /\ o \notin DOMAIN rows => filled'[o] = filled[o]
BY DEF Saved, Overwrites, Kept

(* The cancel saves: the promise and the fills go together.                *)
LEMMA SaveBalanced ==
  ASSUME AccountsInv, CancelsInv', NEW m \in Messages, CancelSave(m)
  PROVE  AccountsInv'
<1>0. /\ pc \in [Messages -> Pcs] /\ DOMAIN msg = Messages /\ DOMAIN snap = Messages
      /\ cpc \in [Messages -> {"none", "tx", "orders", "save", "done"}]
      /\ TypeOK /\ IsBook(tx)
  BY AccountTypes
<1> DEFINE t == TradeOf(m)
           fills == seen[m].orders
           row == [seen[m] EXCEPT !.status = "errored"]
<1>1. /\ UNCHANGED <<msg, pc, next, snap, seen>> /\ cpc[m] = "save" /\ cpc'[m] = "done"
      /\ \A n \in Messages \ {m} : cpc'[n] = cpc[n]
      /\ filled' = Saved(filled, snap[m])
      /\ tx' = Saved(tx, Dated(t, row))
      /\ Overwrites(snap[m], GivenBack(fills))
  BY <1>0 DEF CancelSave, memory, locals, CancelGoto
<1>2. /\ pc[m] # "idle" /\ pc[m] \notin BeforeInsert
      /\ t \in PendingIn(tx) /\ t \in DOMAIN tx
      /\ fills = tx[t].orders
      /\ IsPlain(fills)
  BY <1>1, CancelsAreNoRequests
<1>3. OrdersOf(fills) \cap Kept \subseteq DOMAIN snap[m]
  BY <1>1 DEF AccountsInv, CancelBalanced
<1>4. /\ DOMAIN tx' = DOMAIN tx
      /\ tx'[t].status = "errored" /\ tx'[t].orders = fills
      /\ \A k \in DOMAIN tx \ {t} : tx'[k] = tx[k]
  <2>1. DOMAIN seen[m] = {"status", "type", "orders", "amount", "satsAmount", "reservedUtxos", "age"}
    BY <1>0, <1>1 DEF TypeOK, LocalsTypeOK, IsTransaction
  <2>2. row.status = "errored" /\ row.orders = fills
        /\ DOMAIN row = {"status", "type", "orders", "amount", "satsAmount", "reservedUtxos", "age"}
    BY <2>1
  <2> HIDE DEF row, fills
  <2>3. /\ DOMAIN Dated(t, row) = {t}
        /\ Dated(t, row)[t].status = "errored" /\ Dated(t, row)[t].orders = fills
    BY <2>2 DEF Dated, Entry
  <2> QED
    BY <1>1, <1>2, <2>3 DEF Saved
<1> HIDE DEF row, t, fills
<1>5. IsBook(tx')
  BY <1>0, <1>2, <1>4 DEF IsBook
<1>6. PendingIn(tx) = PendingIn(tx') \cup {t} /\ t \notin PendingIn(tx')
  BY <1>2, <1>4 DEF PendingIn
<1>7. \A k \in PendingIn(tx') : tx[k].orders = tx'[k].orders
  BY <1>4 DEF PendingIn
<1>8. \A o : CommittedIn(tx, o) = CommittedIn(tx', o) + AmountOf(fills, o)
  BY <1>0, <1>2, <1>5, <1>6, <1>7, CommittedMore
<1>9. ASSUME NEW o \in DOMAIN InitFilled
      PROVE  /\ Balance(o)' = Balance(o) - AmountOf(fills, o)
             /\ AmountOf(fills, o) =< Balance(o)
             /\ AmountOf(fills, o) \in Nat
  <2>1. /\ CommittedIn(tx', o) \in Nat /\ AmountOf(fills, o) \in Nat /\ InitFilled[o] \in Nat
    BY <1>2, <1>5, <1>9, CommittedType, AmountOfList, AccountTypes
  <2>2. Balance(o) = InitFilled[o] + CommittedIn(tx, o) /\ Balance(o)' = InitFilled[o] + CommittedIn(tx', o)
    BY DEF Balance
  <2> QED
    BY <1>8, <2>1, <2>2
<1> DEFINE now == GivenBack(fills)
<1>10. DOMAIN now = OrdersOf(fills) \cap DOMAIN filled
       /\ \A o \in DOMAIN now : now[o] = Decreased(filled[o], LastAmount(fills, o))
  BY DEF GivenBack
<1> HIDE DEF now
<1>11. ASSUME NEW o \in Kept' PROVE o \in DOMAIN InitFilled /\ filled'[o] = Balance(o)' /\ o \in Kept
  <2>1. /\ o \in Kept
        /\ o \in DOMAIN snap[m] => o \in DOMAIN now /\ filled'[o] = now[o]
        /\ o \notin DOMAIN snap[m] => filled'[o] = filled[o]
    BY <1>1, <1>10, <1>11, SavedNow DEF now
  <2>2. o \in DOMAIN InitFilled /\ filled[o] = Balance(o) /\ Balance(o) \in Nat
    BY <2>1, AccountTypes DEF AccountsInv, Balanced
  <2>3. CASE o \in DOMAIN snap[m]
    <3>1. o \in OrdersOf(fills) /\ filled'[o] = Decreased(filled[o], LastAmount(fills, o))
      BY <1>10, <2>1, <2>3
    <3>2. LastAmount(fills, o) = AmountOf(fills, o)
      BY <1>2, <3>1, LastAmountIsTheAmount
    <3>3. filled'[o] = Balance(o) - AmountOf(fills, o)
      BY <1>9, <2>2, <3>1, <3>2 DEF Decreased
    <3> QED
      BY <1>9, <2>1, <2>2, <3>3
  <2>4. CASE o \notin DOMAIN snap[m]
    <3>1. AmountOf(fills, o) = 0
      BY <1>2, <1>3, <2>1, <2>4, AmountOfList
    <3> QED
      BY <1>9, <2>1, <2>2, <2>4, <3>1
  <2> QED
    BY <2>3, <2>4
<1>12. Balanced'
  BY <1>5, <1>11 DEF Balanced
<1>13. ASSUME NEW n \in Messages PROVE RequestBalanced(n)'
  <2>1. RequestBalanced(n) /\ OrdersRead(n)' = OrdersRead(n)
    BY <1>1 DEF AccountsInv, OrdersRead
  <2> QED
    BY <1>1, <2>1 DEF RequestBalanced
<1>14. ASSUME NEW n \in Messages PROVE CancelBalanced(n)'
  <2> SUFFICES ASSUME cpc'[n] \in {"orders", "save"} PROVE CancelBalanced(n)'
    BY DEF CancelBalanced
  <2>1. n # m /\ cpc'[n] = cpc[n] /\ CancelBalanced(n)
    BY <1>1 DEF AccountsInv
  <2>2. TradeOf(n) # TradeOf(m)
    BY <1>1, <2>1 DEF AccountsInv, CancelsInv, CancelIsLast, Cancelling
  <2>3. TradeOf(n) \in PendingIn(tx) /\ seen[n].orders = tx[TradeOf(n)].orders
    BY <2>1 DEF CancelBalanced
  <2>4. TradeOf(n) \in PendingIn(tx') /\ tx'[TradeOf(n)] = tx[TradeOf(n)]
    BY <1>4, <2>2, <2>3 DEF PendingIn, t
  <2>5. TradeOf(n)' = TradeOf(n)
    BY <1>1 DEF TradeOf
  <2>6. cpc[n] = "save" => OrdersOf(seen[n].orders) \cap Kept' \subseteq DOMAIN snap[n]
    BY <1>11, <2>1 DEF CancelBalanced
  <2> QED
    BY <1>1, <2>1, <2>3, <2>4, <2>5, <2>6 DEF CancelBalanced, OrdersOf
<1> QED
  BY <1>12, <1>13, <1>14 DEF AccountsInv

(* The row is inserted: the promise and the fills come together.           *)
LEMMA InsertBalanced ==
  ASSUME AccountsInv, CancelsInv', NEW m \in Messages, InsertTransaction(m)
  PROVE  AccountsInv'
<1>0. /\ pc \in [Messages -> Pcs] /\ DOMAIN msg = Messages /\ DOMAIN snap = Messages
      /\ IsBook(tx)
  BY AccountTypes
<1> DEFINE t == TradeOf(m)
           fills == msg[m].orders
<1>1. /\ UNCHANGED <<msg, cpc, next, snap, seen>> /\ pc[m] = "insert" /\ pc'[m] = "publish"
      /\ \A n \in Messages \ {m} : pc'[n] = pc[n]
      /\ t \notin DOMAIN tx
      /\ filled' = Saved(filled, snap[m])
      /\ tx' = Saved(tx, Entry(t, NewTransaction(m)))
      /\ Overwrites(snap[m], TakenMore(fills))
  BY <1>0 DEF InsertTransaction, memory, locals, Goto
<1>2. /\ DOMAIN tx' = DOMAIN tx \cup {t} /\ tx'[t] = NewTransaction(m)
      /\ \A k \in DOMAIN tx : tx'[k] = tx[k]
  BY <1>1 DEF Saved, Entry
<1>3. NewTransaction(m).orders = fills /\ NewTransaction(m).status = "pending"
  BY DEF NewTransaction
<1>4. IsPlain(fills) /\ OrdersOf(fills) \subseteq DOMAIN snap[m]
  <2>1. OrdersRead(m) = DOMAIN fills
    BY <1>1 DEF OrdersRead
  <2> QED
    BY <1>1, <2>1 DEF AccountsInv, RequestBalanced, BeforeInsert, OrdersOf
<1> HIDE DEF t, fills
<1>5. IsBook(tx')
  <2>1. IsFiniteSet(DOMAIN tx')
    BY <1>0, <1>2, FS_AddElement DEF IsBook
  <2> QED
    BY <1>0, <1>2, <1>3, <1>4, <2>1 DEF IsBook
<1>6. /\ PendingIn(tx') = PendingIn(tx) \cup {t} /\ t \notin PendingIn(tx)
  BY <1>1, <1>2, <1>3 DEF PendingIn
<1>7. \A k \in PendingIn(tx) : tx'[k].orders = tx[k].orders
  BY <1>2 DEF PendingIn
<1>8. \A o : CommittedIn(tx', o) = CommittedIn(tx, o) + AmountOf(fills, o)
  BY <1>0, <1>2, <1>3, <1>5, <1>6, <1>7, CommittedMore
<1>9. ASSUME NEW o \in DOMAIN InitFilled
      PROVE  Balance(o)' = Balance(o) + AmountOf(fills, o) /\ AmountOf(fills, o) \in Nat
  <2>1. /\ CommittedIn(tx, o) \in Nat /\ AmountOf(fills, o) \in Nat /\ InitFilled[o] \in Nat
    BY <1>0, <1>4, <1>9, CommittedType, AmountOfList, AccountTypes
  <2>2. Balance(o) = InitFilled[o] + CommittedIn(tx, o) /\ Balance(o)' = InitFilled[o] + CommittedIn(tx', o)
    BY DEF Balance
  <2> QED
    BY <1>8, <2>1, <2>2
<1> DEFINE now == TakenMore(fills)
<1>10. DOMAIN now = OrdersOf(fills) \cap DOMAIN filled
       /\ \A o \in DOMAIN now : now[o] = filled[o] + LastAmount(fills, o)
  BY DEF TakenMore
<1> HIDE DEF now
<1>11. ASSUME NEW o \in Kept' PROVE o \in DOMAIN InitFilled /\ filled'[o] = Balance(o)' /\ o \in Kept
  <2>1. /\ o \in Kept
        /\ o \in DOMAIN snap[m] => o \in DOMAIN now /\ filled'[o] = now[o]
        /\ o \notin DOMAIN snap[m] => filled'[o] = filled[o]
    BY <1>1, <1>10, <1>11, SavedNow DEF now
  <2>2. o \in DOMAIN InitFilled /\ filled[o] = Balance(o) /\ Balance(o) \in Nat
    BY <2>1, AccountTypes DEF AccountsInv, Balanced
  <2>3. CASE o \in DOMAIN snap[m]
    <3>1. o \in OrdersOf(fills) /\ filled'[o] = filled[o] + LastAmount(fills, o)
      BY <1>10, <2>1, <2>3
    <3>2. LastAmount(fills, o) = AmountOf(fills, o)
      BY <1>4, <3>1, LastAmountIsTheAmount
    <3> QED
      BY <1>9, <2>1, <2>2, <3>1, <3>2
  <2>4. CASE o \notin DOMAIN snap[m]
    <3>1. AmountOf(fills, o) = 0
      BY <1>4, <2>4, AmountOfList
    <3> QED
      BY <1>9, <2>1, <2>2, <2>4, <3>1
  <2> QED
    BY <2>3, <2>4
<1>12. Balanced'
  BY <1>5, <1>11 DEF Balanced
<1>13. ASSUME NEW n \in Messages PROVE RequestBalanced(n)'
  <2>1. CASE n = m
    BY <1>1, <2>1 DEF RequestBalanced, BeforeInsert
  <2>2. CASE n # m
    <3>1. RequestBalanced(n) /\ OrdersRead(n)' = OrdersRead(n) /\ pc'[n] = pc[n]
      BY <1>1, <2>2 DEF AccountsInv, OrdersRead
    <3> QED
      BY <1>1, <3>1 DEF RequestBalanced
  <2> QED
    BY <2>1, <2>2
<1>14. ASSUME NEW n \in Messages PROVE CancelBalanced(n)'
  <2> SUFFICES ASSUME cpc'[n] \in {"orders", "save"} PROVE CancelBalanced(n)'
    BY DEF CancelBalanced
  <2>1. cpc'[n] = cpc[n] /\ CancelBalanced(n)
    BY <1>1 DEF AccountsInv
  <2>2. TradeOf(n) \in PendingIn(tx) /\ seen[n].orders = tx[TradeOf(n)].orders
    BY <2>1 DEF CancelBalanced
  <2>3. TradeOf(n) \in PendingIn(tx') /\ tx'[TradeOf(n)] = tx[TradeOf(n)]
    BY <1>2, <2>2 DEF PendingIn
  <2>4. TradeOf(n)' = TradeOf(n)
    BY <1>1 DEF TradeOf
  <2>5. cpc[n] = "save" => OrdersOf(seen[n].orders) \cap Kept' \subseteq DOMAIN snap[n]
    BY <1>11, <2>1 DEF CancelBalanced
  <2> QED
    BY <1>1, <2>1, <2>2, <2>3, <2>4, <2>5 DEF CancelBalanced, OrdersOf
<1> QED
  BY <1>12, <1>13, <1>14 DEF AccountsInv

(* The clock, the timer, a restart, the operator and the chain.            *)
LEMMA OutsideBalanced ==
  ASSUME AccountsInv, CancelsInv',
         \/ Tick \/ CleanupExpiredReservations \/ Restart \/ Broadcast
         \/ (\E o \in Orders : DeleteOrder(o)) \/ UNCHANGED vars
  PROVE  AccountsInv'
<1>0. /\ pc \in [Messages -> Pcs]
      /\ cpc \in [Messages -> {"none", "tx", "orders", "save", "done"}]
      /\ \A t \in DOMAIN tx : IsTransaction(tx[t])
  BY AccountTypes
<1> USE DEF memory, database, locals, world, history, vars
<1>1. /\ UNCHANGED <<msg, next, snap, seen, overwritten>>
      /\ \A n \in Messages : pc'[n] = pc[n] \/ pc'[n] = "done"
      /\ \A n \in Messages : cpc'[n] = cpc[n] \/ cpc'[n] \in {"none", "done"}
  BY <1>0 DEF Tick, CleanupExpiredReservations, Restart, Broadcast, DeleteOrder
<1>2. /\ DOMAIN tx' = DOMAIN tx
      /\ \A t \in DOMAIN tx : tx'[t].status = tx[t].status /\ tx'[t].orders = tx[t].orders
  <2>1. CASE Tick
    <3>1. DOMAIN tx' = DOMAIN tx
      BY <2>1 DEF Tick
    <3> SUFFICES ASSUME NEW t \in DOMAIN tx
                 PROVE  tx'[t].status = tx[t].status /\ tx'[t].orders = tx[t].orders
      BY <3>1
    <3>2. tx'[t] = [tx[t] EXCEPT !.age = Older(@, PROPAGATION)]
      BY <2>1 DEF Tick
    <3>3. DOMAIN tx[t] = {"status", "type", "orders", "amount", "satsAmount", "reservedUtxos", "age"}
      BY <1>0 DEF IsTransaction
    <3> QED
      BY <3>2, <3>3
  <2>2. CASE UNCHANGED tx
    BY <2>2
  <2> QED
    BY <2>1, <2>2 DEF Broadcast, DeleteOrder, CleanupExpiredReservations, Restart
<1>3. DOMAIN filled' \subseteq DOMAIN filled /\ \A o \in DOMAIN filled' : filled'[o] = filled[o]
  BY DEF Tick, CleanupExpiredReservations, Restart, Broadcast, DeleteOrder, Restrict
<1>4. \A n \in Messages :
        pc'[n] \in BeforeInsert =>
          /\ pc[n] \in BeforeInsert /\ msg'[n] = msg[n] /\ snap'[n] = snap[n]
          /\ pc[n] = "read" => pc'[n] = "read" /\ next'[n] = next[n]
  BY <1>1 DEF BeforeInsert
<1>5. \A n \in Messages :
        cpc'[n] \in {"orders", "save"} =>
          /\ cpc'[n] = cpc[n] /\ seen'[n] = seen[n] /\ msg'[n] = msg[n]
          /\ snap'[n] = snap[n]
  BY <1>1
<1> QED
  BY <1>1, <1>2, <1>3, <1>4, <1>5, QuietBalanced

(* Every step, and the start.                                              *)
LEMMA AccountsStep ==
  ASSUME TradesReserveOnce, PlainRequests
  PROVE  AccountsInv /\ [Next]_vars => AccountsInv'
<1> SUFFICES ASSUME AccountsInv, [Next]_vars
             PROVE  AccountsInv'
  OBVIOUS
<1>1. CancelsInv'
  BY CancelsStep DEF AccountsInv
<1>2. ASSUME NEW m \in Messages, UpdateTransaction(m)
      PROVE  FALSE
  BY <1>2, AccountTypes DEF UpdateTransaction, CoverInv, RequestsAreFresh
<1>3. ASSUME NEW m \in Messages, ReserveStep(m)
      PROVE  AccountsInv'
  BY <1>1, <1>2, <1>3, ReadBalanced, WorkBalanced, InsertBalanced, Zenon DEF ReserveStep
<1>4. ASSUME NEW m \in Messages, CancelStep(m) \/ SignStep(m)
      PROVE  AccountsInv'
  BY <1>1, <1>4, FoundBalanced, SaveBalanced, WorkBalanced, Zenon DEF CancelStep
<1>5. ASSUME NEW m \in Messages, ReceiveReserve(m) \/ ReceiveCancel(m) \/ ReceiveSign(m)
      PROVE  AccountsInv'
  BY <1>1, <1>5, ArrivalBalanced, Zenon
<1> QED
  BY <1>1, <1>3, <1>4, <1>5, OutsideBalanced, Zenon DEF Next

(* At the start every order is filled by what it starts with.              *)
LEMMA AccountsInit == Init => AccountsInv
<1> SUFFICES ASSUME Init PROVE AccountsInv
  OBVIOUS
<1>1. CoverInv
  BY CoverInit
<1>2. /\ DOMAIN tx = {} /\ filled = InitFilled
      /\ pc = [m \in Messages |-> "idle"] /\ cpc = [m \in Messages |-> "none"]
  BY DEF Init
<1>3. CancelsInv
  BY <1>1, <1>2 DEF CancelsInv, CancelIsLast, Cancelling
<1>4. PendingIn(tx) = {} /\ IsBook(tx)
  BY <1>2, FS_EmptySet DEF PendingIn, IsBook
<1>5. \A o : CommittedIn(tx, o) = 0
  BY <1>4, SumEmpty DEF CommittedIn
<1>6. \A o \in Kept : o \in DOMAIN InitFilled /\ filled[o] = Balance(o)
  <2>1. \A o \in DOMAIN InitFilled : InitFilled[o] \in Int
    BY ExecutionAssumption
  <2> QED
    BY <1>2, <1>5, <2>1 DEF Balance, Kept
<1> QED
  BY <1>2, <1>3, <1>4, <1>6 DEF AccountsInv, Balanced, RequestBalanced, CancelBalanced, BeforeInsert

(* However handlers, cancels, failures, restarts and deletions interleave, *)
(* the fills of every order of which no change is lost by a save of an     *)
(* older row are what the pending transactions have promised out of it,    *)
(* where a trade reserves once and a request names an order once, for no   *)
(* negative amount (event-handler.service.ts:108-151, 208-300).            *)
THEOREM FillsAreAccounted ==
  ASSUME TradesReserveOnce, PlainRequests
  PROVE  Spec => []FillsAccounted
<1>1. AccountsInv /\ [Next]_vars => AccountsInv'
  BY AccountsStep
<1>2. AccountsInv => FillsAccounted
  BY DEF AccountsInv, Balanced, Kept, Balance, CommittedIn, PendingIn, FillsAccounted, Committed
<1> QED
  BY <1>1, <1>2, AccountsInit, PTL DEF Spec

(* An order is promised beyond its quantity only if a save of an older row *)
(* has lost a change of it (event-handler.service.ts:220-222, 266-290).    *)
THEOREM OnlyLostChangesOverCommit ==
  ASSUME TradesReserveOnce, PlainRequests
  PROVE  Spec => [](\A o \in DOMAIN filled \ overwritten : InitFilled[o] + Committed(o) =< Quantity[o])
<1> DEFINE Within == \A o \in DOMAIN filled \ overwritten : InitFilled[o] + Committed(o) =< Quantity[o]
<1>1. AccountsInv /\ [Next]_vars => AccountsInv'
  BY AccountsStep
<1>2. AccountsInv => NoNegativeAmount
  <2> SUFFICES ASSUME AccountsInv, NEW m \in Messages, pc[m] # "idle"
               PROVE  \A i \in DOMAIN msg[m].orders : msg[m].orders[i].amount >= 0
    BY DEF NoNegativeAmount
  <2>1. msg[m] \in Content[m]
    BY AccountTypes DEF CoverInv, RequestsComeFirst
  <2> QED
    BY <2>1, PlainRequests DEF PlainRequests, IsPlain
<1>3. AccountsInv /\ FillBounds => Within
  <2> SUFFICES ASSUME AccountsInv, FillBounds, NEW o \in DOMAIN filled \ overwritten
               PROVE  InitFilled[o] + Committed(o) =< Quantity[o]
    OBVIOUS
  <2>1. filled[o] = InitFilled[o] + Committed(o)
    BY DEF AccountsInv, Balanced, Kept, Balance, CommittedIn, PendingIn, Committed
  <2>2. filled[o] \in 0..Quantity[o] /\ o \in Orders
    BY <1>2, AccountTypes DEF FillBounds, TypeOK, DatabaseTypeOK
  <2>3. Quantity[o] \in Nat
    BY <2>2, ExecutionAssumption
  <2> QED
    BY <2>1, <2>2, <2>3
<1> QED
  BY <1>1, <1>3, AccountsInit, FillsInBounds, PTL DEF Spec
===============================================================================
