-------------------------- MODULE PendingTransactions --------------------------
(***************************************************************************)
(* The job that settles trades (apps/hotwallet/src/pending-transactions/   *)
(* pending-transactions.service.ts).  Every 30 seconds it looks at the     *)
(* unsettled transactions: one whose first output is unspent is deleted    *)
(* and its amounts are given back to the orders, one whose output is spent *)
(* is confirming or confirmed, and a confirmed one is rebalanced: counter  *)
(* orders are created at the spread of the operator's rebalance strategy   *)
(* (apps/hotwallet/src/rebalance/).  The job gives way at every await, so  *)
(* reservations, cancels, splits, the strategy and the chain move on       *)
(* between its steps; a step of the event handler is one step here         *)
(* (Execution has its interleaving).                                       *)
(***************************************************************************)
EXTENDS Integers, FiniteSets, Sequences, SequencesExt

CONSTANTS
  Trades,       \* trade identifiers
  Utxos,        \* the wallet's outputs
  InitOrders,   \* the rows of the order table at the start
  Spares,       \* identifiers for the orders that will be created
  Offers,       \* Offers[t]: what trade t may ask for: sequences of [orderId, amount]
  Strategies,   \* rebalance configurations there may be at the start
  Settings,     \* what the operator may set: None leaves a field as it is
  None,
  MaxFailures,  \* bound: awaited calls of the job that fail
  QueryFails,   \* TRUE: the first two of them may fail as well
  CanRestart,   \* TRUE: the process may stop and start again
  CanEvict,     \* TRUE: the network may drop a transaction (bound: once for each output)
  CanSplit,     \* TRUE: the operator may split the wallet's outputs
  Deletable     \* orders and trades whose rows the operator may delete

OrderRow == [type : {"ask", "bid"}, price : Nat, quantity : Nat, filled : Nat,
             status : {"open", "closed"}]

(* A configuration row; NoStrategy stands for a rune that has none.        *)
Strategy == [enabled : BOOLEAN, spread : 0..100]
NoStrategy == [enabled |-> FALSE, spread |-> None]
Setting == [enabled : BOOLEAN \cup {None}, spread : 0..100 \cup {None}]

ASSUME PendingAssumption ==
  /\ DOMAIN InitOrders \cap Spares = {}
  /\ \A o \in DOMAIN InitOrders : InitOrders[o] \in OrderRow
  /\ \A t \in Trades : \A s \in Offers[t] :
       /\ s \in Seq([orderId : DOMAIN InitOrders, amount : Nat \ {0}]) /\ s # <<>>
       /\ \A i, j \in DOMAIN s : s[i].orderId = s[j].orderId => i = j
  /\ Strategies \subseteq Strategy \cup {NoStrategy}
  /\ Settings \subseteq Setting
  /\ None \notin 0..100 /\ None \notin BOOLEAN
  /\ MaxFailures \in Nat
  /\ {QueryFails, CanRestart, CanEvict, CanSplit} \subseteq BOOLEAN

VARIABLES
  orders,      \* the order table
  tx,          \* the transaction table, by trade
  strategy,    \* the rebalance configuration of the rune
  held,        \* the event handler's reservations: output -> trade
  asked,       \* trades that have reserved (bound: each does so once)
  old,         \* trades whose row was created at least 60 s ago
  signed,      \* outputs whose spending the wallet has signed
  chain,       \* where each output stands: unspent, spent in the mempool, confirmed
  dropped,     \* outputs whose spend the network has dropped
  processing,  \* this.isProcessing
  pc,          \* where the job is
  rows,        \* pendingTransactions: the rows as they were loaded
  todo,        \* those the loop has not come to
  tip,         \* outputs whose spend was confirmed when the tip was read
  current,     \* the transaction being worked on
  entry,       \* index of its order being worked on
  spread,      \* config.spread, None unless it is enabled
  book,        \* existingOrders
  toUpdate,    \* ordersToUpdate, by id
  txUpdate,    \* transactionsToUpdate, by trade
  txDelete,    \* transactionsToDelete
  newOrders,   \* newOrders, before those with the same price are merged
  credited,    \* entries of transactions whose counter orders were created
  failures,    \* calls that have failed
  disturbed    \* TRUE: a row was changed while the job ran, or deleted by the operator

database == <<orders, tx, strategy>>
handler == <<held, asked>>
network == <<old, signed, chain, dropped>>
work == <<rows, todo, tip, current, entry, spread, book, toUpdate, txUpdate, txDelete, newOrders>>
history == <<credited, failures, disturbed>>
vars == <<database, handler, network, processing, pc, work, history>>

NoRows == [k \in {} |-> None]

(* What save does: rows replace those in the table or are inserted.        *)
Saved(table, new) ==
  [k \in DOMAIN table \cup DOMAIN new |-> IF k \in DOMAIN new THEN new[k] ELSE table[k]]
Row(key, value) == [k \in {key} |-> value]
Without(table, keys) == Restrict(table, DOMAIN table \ keys)

AmountOf(fills, o) ==
  SumFunction([i \in DOMAIN fills |-> IF fills[i].orderId = o THEN fills[i].amount ELSE 0])

Init ==
  /\ orders = InitOrders
  /\ tx = NoRows /\ held = NoRows
  /\ strategy \in Strategies
  /\ asked = {} /\ old = {} /\ signed = {} /\ dropped = {}
  /\ chain = [u \in Utxos |-> "unspent"]
  /\ processing = FALSE /\ pc = "idle"
  /\ rows = NoRows /\ todo = {} /\ tip = {} /\ current = None /\ entry = 1
  /\ spread = None /\ book = NoRows
  /\ toUpdate = NoRows /\ txUpdate = NoRows /\ txDelete = {} /\ newOrders = {}
  /\ credited = {} /\ failures = 0 /\ disturbed = FALSE

-------------------------------------------------------------------------------
(* The event handler, the operator and the chain.                          *)

(* A row that changes while the job runs may be one it has loaded.         *)
Disturbs == disturbed' = (disturbed \/ pc # "idle")

(* A reserve request succeeds (EventHandlerService.reserveOrders).         *)
Reserve(t) ==
  /\ t \notin asked /\ asked' = asked \cup {t}
  /\ \E s \in Offers[t], u \in Utxos :
       /\ u \notin DOMAIN held /\ chain[u] = "unspent"
       /\ \A i \in DOMAIN s :
            /\ s[i].orderId \in DOMAIN orders
            /\ orders[s[i].orderId].filled + s[i].amount =< orders[s[i].orderId].quantity
       /\ orders' = [o \in DOMAIN orders |->
                       [orders[o] EXCEPT !.filled = @ + AmountOf(s, o)]]
       /\ held' = Saved(held, Row(u, t))
       /\ tx' = Saved(tx, Row(t,
            [status |-> "pending",
             type   |-> IF orders[s[1].orderId].type = "bid" THEN "buy" ELSE "sell",
             fills  |-> [i \in DOMAIN s |-> [orderId |-> s[i].orderId, amount |-> s[i].amount,
                                             price |-> orders[s[i].orderId].price]],
             utxo   |-> u]))
  /\ Disturbs
  /\ UNCHANGED <<strategy, network, processing, pc, work, credited, failures>>

HeldBy(t) == {u \in DOMAIN held : held[u] = t}

WrongGivenBack(row, amount) ==                 \* wrong: it may go below zero
  [row EXCEPT !.filled = @ - amount]

GivenBack(row, amount) ==
  [row EXCEPT !.filled = IF @ < amount THEN 0 ELSE @ - amount]

(* A cancel reaches a trade that holds outputs (handleReserveCancel).      *)
Cancel(t) ==
  /\ HeldBy(t) # {}
  /\ held' = Without(held, HeldBy(t))
  /\ IF t \in DOMAIN tx /\ tx[t].status = "pending"
     THEN /\ tx' = [tx EXCEPT ![t].status = "errored"]
          /\ orders' = [o \in DOMAIN orders |->
                          GivenBack(orders[o], AmountOf(tx[t].fills, o))]
     ELSE UNCHANGED <<orders, tx>>
  /\ Disturbs
  /\ UNCHANGED <<strategy, asked, network, processing, pc, work, credited, failures>>

(* The reservation times out (cleanupExpiredReservations).                 *)
Expire(u) ==
  /\ u \in DOMAIN held
  /\ held' = Without(held, {u})
  /\ UNCHANGED <<database, asked, network, processing, pc, work, history>>

(* A minute passes, twice the timeout of a reservation.                    *)
GrowOld(t) ==
  /\ t \in asked \ old
  /\ HeldBy(t) = {}
  /\ old' = old \cup {t}
  /\ UNCHANGED <<database, handler, signed, chain, dropped, processing, pc, work, history>>

(* A sign request of a pending transaction (handleSignRequest).            *)
Sign(t) ==
  /\ t \in DOMAIN tx
  /\ tx[t].status = "pending"
  /\ signed' = signed \cup {tx[t].utxo}
  /\ UNCHANGED <<database, handler, old, chain, dropped, processing, pc, work, history>>

Spend(u) ==
  /\ chain[u] = "unspent"
  /\ chain' = [chain EXCEPT ![u] = "mempool"]
  /\ UNCHANGED <<database, handler, old, signed, dropped, processing, pc, work, history>>

Broadcast == \E u \in signed : Spend(u)

(* AccountService.splitAsset signs and broadcasts at once; it takes what   *)
(* the indexer lists, whether it is reserved or not.                       *)
SplitAsset(u) == CanSplit /\ Spend(u)

Mine(u) ==
  /\ chain[u] = "mempool"
  /\ chain' = [chain EXCEPT ![u] = "confirmed"]
  /\ UNCHANGED <<database, handler, old, signed, dropped, processing, pc, work, history>>

Evict(u) ==
  /\ CanEvict
  /\ u \notin dropped /\ dropped' = dropped \cup {u}
  /\ chain[u] = "mempool"
  /\ chain' = [chain EXCEPT ![u] = "unspent"]
  /\ UNCHANGED <<database, handler, old, signed, processing, pc, work, history>>

-------------------------------------------------------------------------------
(* The operator (rune-orders, transactions and rebalance controllers).     *)

(* RuneOrdersService.deleteOrder and the controller's deleteById.          *)
DeleteOrder(o) ==
  /\ o \in Deletable \cap DOMAIN orders
  /\ orders' = Without(orders, {o})
  /\ disturbed' = TRUE
  /\ UNCHANGED <<tx, strategy, handler, network, processing, pc, work, credited, failures>>

DeleteTransaction(t) ==
  /\ t \in Deletable \cap DOMAIN tx
  /\ tx' = Without(tx, {t})
  /\ disturbed' = TRUE
  /\ UNCHANGED <<orders, strategy, handler, network, processing, pc, work, credited, failures>>

(* RebalanceService.set and remove.  A field the request leaves out keeps  *)
(* its value; the columns of a new row default to FALSE and 0.5, of which  *)
(* 1 stands for the latter.                                                *)
Given(value, otherwise) == IF value = None THEN otherwise ELSE value

SetStrategy ==
  /\ \E s \in Settings :
       LET row == IF strategy = NoStrategy THEN [enabled |-> FALSE, spread |-> 1] ELSE strategy
       IN strategy' = [enabled |-> Given(s.enabled, row.enabled),
                       spread  |-> Given(s.spread, row.spread)]
  /\ UNCHANGED <<orders, tx, handler, network, processing, pc, work, history>>

RemoveStrategy ==
  /\ Settings # {}
  /\ strategy # NoStrategy
  /\ strategy' = NoStrategy
  /\ UNCHANGED <<orders, tx, handler, network, processing, pc, work, history>>

-------------------------------------------------------------------------------
(* handlePendingTransactions.                                              *)

Goto(label) == pc' = label

(* The handler returns, and its variables are gone.                        *)
Returns ==
  /\ Goto("idle")
  /\ rows' = NoRows /\ todo' = {} /\ tip' = {} /\ current' = None /\ entry' = 1
  /\ spread' = None /\ book' = NoRows
  /\ toUpdate' = NoRows /\ txUpdate' = NoRows /\ txDelete' = {} /\ newOrders' = {}

Fail == failures < MaxFailures /\ failures' = failures + 1

(* The timer fires; while the flag is set it does nothing.                 *)
Start ==
  /\ pc = "idle"
  /\ ~processing
  /\ processing' = TRUE
  /\ Goto("find")
  /\ UNCHANGED <<database, handler, network, work, history>>

WrongUnsettled(t) ==                           \* wrong: confirmed rows are loaded as well
  t \in DOMAIN tx /\ tx[t].status # "errored"
Unsettled(t) == t \in DOMAIN tx /\ tx[t].status \in {"pending", "confirming"}

FindPendingAndConfirming ==
  /\ pc = "find"
  /\ rows' = Restrict(tx, {t \in Trades : Unsettled(t)})
  /\ todo' = DOMAIN rows'
  /\ Goto("tip")
  /\ UNCHANGED <<database, handler, network, processing, tip, current, entry, spread, book,
                 toUpdate, txUpdate, txDelete, newOrders, history>>

GetTipHeight ==
  /\ pc = "tip"
  /\ tip' = {u \in Utxos : chain[u] = "confirmed"}
  /\ Goto("next")
  /\ UNCHANGED <<database, handler, network, processing, rows, todo, current, entry, spread, book,
                 toUpdate, txUpdate, txDelete, newOrders, history>>

(* These two calls are outside of any try: the flag stays set.             *)
QueryFailure ==
  /\ QueryFails
  /\ pc \in {"find", "tip"}
  /\ Fail
  /\ Returns
  /\ UNCHANGED <<database, handler, network, processing, credited, disturbed>>

(* The loop comes to a transaction that is old enough.                     *)
NextTransaction(t) ==
  /\ pc = "next"
  /\ t \in todo /\ todo' = todo \ {t}
  /\ IF t \in old
     THEN current' = t /\ entry' = 1 /\ Goto("outspend")
     ELSE UNCHANGED <<current, entry>> /\ Goto("next")
  /\ UNCHANGED <<database, handler, network, processing, rows, tip, spread, book,
                 toUpdate, txUpdate, txDelete, newOrders, history>>

Abandon == txDelete' = txDelete \cup {current} /\ Goto("next") /\ UNCHANGED txUpdate

(* getOutspend of the first reserved output.  An unspent one starts the    *)
(* reset; a spent one has a confirmation if it was mined when the tip was  *)
(* read.                                                                   *)
Spent(status) == [rows[current] EXCEPT !.status = status]

WrongHasConfirmation(u) == TRUE                \* wrong: no confirmation will do
HasConfirmation(u) == u \in tip

GetOutspend ==
  /\ pc = "outspend"
  /\ LET u == rows[current].utxo
     IN IF chain[u] = "unspent"
        THEN Goto("reset") /\ UNCHANGED <<rows, txUpdate>>
        ELSE /\ rows' = [rows EXCEPT ![current] =
                            Spent(IF HasConfirmation(u) THEN "confirmed" ELSE "confirming")]
             /\ IF HasConfirmation(u)
                THEN Goto("config") /\ UNCHANGED txUpdate
                ELSE txUpdate' = Saved(txUpdate, Row(current, rows'[current])) /\ Goto("next")
  /\ UNCHANGED <<database, handler, network, processing, todo, tip, current, entry, spread, book,
                 toUpdate, txDelete, newOrders, history>>

(* An error of getOutspend becomes null; reading its status throws and the *)
(* transaction is deleted.  So it is when a call of the reset or of the    *)
(* rebalance rejects, or an order is missing.                              *)
TransactionFails ==
  /\ \/ pc \in {"outspend", "config", "book"} /\ Fail
     \/ /\ pc \in {"reset", "rebalance"}
        /\ LET o == rows[current].fills[entry].orderId
           IN /\ pc = "reset" => o \notin DOMAIN toUpdate
              /\ Fail \/ (o \notin DOMAIN orders /\ UNCHANGED failures)
  /\ Abandon
  /\ spread' = None
  /\ UNCHANGED <<database, handler, network, processing, rows, todo, tip, current, entry,
                 book, toUpdate, newOrders, credited, disturbed>>

WrongLoaded(o) == orders[o]                    \* wrong: earlier resets are forgotten
Loaded(o) == IF o \in DOMAIN toUpdate THEN toUpdate[o] ELSE orders[o]

(* One order of a transaction that did not go through.                     *)
ResetOrder ==
  /\ pc = "reset"
  /\ LET fill == rows[current].fills[entry]
         o == fill.orderId
     IN /\ o \in DOMAIN orders \cup DOMAIN toUpdate
        /\ toUpdate' = Saved(toUpdate, Row(o, GivenBack(Loaded(o), fill.amount)))
  /\ IF entry < Len(rows[current].fills)
     THEN entry' = entry + 1 /\ UNCHANGED <<pc, txDelete>>
     ELSE txDelete' = txDelete \cup {current} /\ Goto("next") /\ UNCHANGED entry
  /\ UNCHANGED <<database, handler, network, processing, rows, todo, tip, current, spread, book,
                 txUpdate, newOrders, history>>

(* autoRebalanceConfigService.get: without a strategy that is enabled the  *)
(* transaction is done.                                                    *)
GetConfig ==
  /\ pc = "config"
  /\ IF strategy.enabled
     THEN spread' = strategy.spread /\ Goto("book") /\ UNCHANGED txUpdate
     ELSE /\ txUpdate' = Saved(txUpdate, Row(current, rows[current]))
          /\ Goto("next") /\ UNCHANGED spread
  /\ UNCHANGED <<database, handler, network, processing, rows, todo, tip, current, entry,
                 book, toUpdate, txDelete, newOrders, history>>

(* getOrders(rune, 'OPEN') compares the status with another spelling than  *)
(* the one that is stored.                                                 *)
ReadBook ==
  /\ pc = "book"
  /\ book' = Restrict(orders, {o \in DOMAIN orders : orders[o].status = "OPEN"})
  /\ Goto("rebalance")
  /\ UNCHANGED <<database, handler, network, processing, rows, todo, tip, current, entry,
                 spread, toUpdate, txUpdate, txDelete, newOrders, history>>

CounterType(type) == IF type = "buy" THEN "ask" ELSE "bid"

PricesOf(type) == {book[o].price : o \in {k \in DOMAIN book : book[k].type = type}}

Ceil(hundredths) == (hundredths + 99) \div 100

(* Prices are in hundredths until they are rounded up.                     *)
WrongCounterPrice(type, price) ==              \* wrong: the spread has the wrong sign
  IF type = "ask" THEN Ceil(price * (100 - spread)) ELSE Ceil(price * (100 + spread))

CounterPrice(type, price) ==
  LET asks == PricesOf("ask")
      bids == PricesOf("bid")
      ask == price * (100 + spread)
      bid == price * (100 - spread)
  IN IF type = "ask"
     THEN Ceil(IF asks # {} /\ ask >= 100 * Min(asks) THEN 100 * (Min(asks) - 1) ELSE ask)
     ELSE Ceil(IF bids # {} /\ bid =< 100 * Max(bids) THEN 100 * (Max(bids) + 1) ELSE bid)

(* Orders of the book that a counter order is merged with.                 *)
Mergeable(new) ==
  {o \in DOMAIN book : /\ book[o].type = new.type /\ book[o].price = new.price
                       /\ book[o].status = "open"
                       /\ \A n \in newOrders : n.type # new.type \/ n.price # new.price}

(* An order is judged full by the table, where trades that may still fall  *)
(* through count as well.                                                  *)
WrongIsFull(o) == orders[o].filled + 1 >= orders[o].quantity  \* wrong: one is left
IsFull(o) == orders[o].filled = orders[o].quantity

(* One order of a confirmed transaction: closed when it is full, and its   *)
(* counter order is prepared.                                              *)
RebalanceOrder ==
  /\ pc = "rebalance"
  /\ LET fill == rows[current].fills[entry]
         o == fill.orderId
         type == CounterType(rows[current].type)
         new == [tradeId |-> current, entry |-> entry, type |-> type,
                 price |-> CounterPrice(type, fill.price), amount |-> fill.amount]
         closed == IF IsFull(o) THEN Row(o, [Loaded(o) EXCEPT !.status = "closed"]) ELSE NoRows
         merged == [k \in Mergeable(new) |-> [book[k] EXCEPT !.quantity = @ + new.amount]]
     IN /\ o \in DOMAIN orders
        /\ toUpdate' = Saved(Saved(toUpdate, closed), merged)
        /\ newOrders' = IF merged = NoRows THEN newOrders \cup {new} ELSE newOrders
  /\ IF entry < Len(rows[current].fills)
     THEN entry' = entry + 1 /\ UNCHANGED <<pc, txUpdate, spread>>
     ELSE /\ txUpdate' = Saved(txUpdate, Row(current, rows[current]))
          /\ spread' = None /\ Goto("next") /\ UNCHANGED entry
  /\ UNCHANGED <<database, handler, network, processing, rows, todo, tip, current, book,
                 txDelete, history>>

(* The saves at the end, each one a transaction of the database.           *)
WrongSaves == <<"new", "orders", "transactions", "delete">>  \* wrong: another order
Saves == <<"orders", "transactions", "delete", "new">>

LoopEnds ==
  /\ pc = "next"
  /\ todo = {}
  /\ Goto(Saves[1])
  /\ UNCHANGED <<database, handler, network, processing, work, history>>

(* After the last save the flag is reset.                                  *)
WrongSaveDone(label) ==                        \* wrong: it is not
  LET i == CHOOSE k \in DOMAIN Saves : Saves[k] = label
  IN /\ IF i < Len(Saves) THEN Goto(Saves[i + 1]) /\ UNCHANGED work ELSE Returns
     /\ UNCHANGED processing

SaveDone(label) ==
  LET i == CHOOSE k \in DOMAIN Saves : Saves[k] = label
  IN IF i < Len(Saves)
     THEN Goto(Saves[i + 1]) /\ UNCHANGED <<processing, work>>
     ELSE Returns /\ processing' = FALSE

SaveOrders ==
  /\ pc = "orders"
  /\ orders' = Saved(orders, toUpdate)
  /\ SaveDone("orders")
  /\ UNCHANGED <<tx, strategy, handler, network, history>>

SaveTransactions ==
  /\ pc = "transactions"
  /\ tx' = Saved(tx, txUpdate)
  /\ SaveDone("transactions")
  /\ UNCHANGED <<orders, strategy, handler, network, history>>

DeleteTransactions ==
  /\ pc = "delete"
  /\ tx' = Without(tx, txDelete)
  /\ SaveDone("delete")
  /\ UNCHANGED <<orders, strategy, handler, network, history>>

(* Counter orders at one price have become one order.                      *)
Kinds == {[type |-> n.type, price |-> n.price] : n \in newOrders}
QuantityOf(kind) ==
  SumFunctionOnSet([n \in newOrders |-> n.amount],
                   {n \in newOrders : n.type = kind.type /\ n.price = kind.price})

SaveNewOrders ==
  /\ pc = "new"
  /\ \E ids \in kSubset(Cardinality(Kinds), Spares \ DOMAIN orders) :
       \E kindOf \in Bijection(ids, Kinds) :
         orders' = Saved(orders, [o \in ids |->
                     [type |-> kindOf[o].type, price |-> kindOf[o].price,
                      quantity |-> QuantityOf(kindOf[o]), filled |-> 0, status |-> "open"]])
  /\ credited' = credited \cup {<<n.tradeId, n.entry>> : n \in newOrders}
  /\ SaveDone("new")
  /\ UNCHANGED <<tx, strategy, handler, network, failures, disturbed>>

(* A save that fails ends the job; the flag is reset.                      *)
SaveFails ==
  /\ pc \in {"orders", "transactions", "delete", "new"}
  /\ Fail
  /\ processing' = FALSE
  /\ Returns
  /\ UNCHANGED <<database, handler, network, credited, disturbed>>

Restart ==
  /\ CanRestart
  /\ held' = NoRows
  /\ processing' = FALSE
  /\ Returns
  /\ UNCHANGED <<database, asked, network, history>>

-------------------------------------------------------------------------------
JobStep ==
  \/ FindPendingAndConfirming \/ GetTipHeight \/ (\E t \in Trades : NextTransaction(t))
  \/ GetOutspend \/ TransactionFails \/ ResetOrder
  \/ GetConfig \/ ReadBook \/ RebalanceOrder
  \/ LoopEnds \/ SaveOrders \/ SaveTransactions \/ DeleteTransactions \/ SaveNewOrders
  \/ SaveFails

Next ==
  \/ Start \/ JobStep \/ QueryFailure \/ Restart
  \/ \E t \in Trades : \/ Reserve(t) \/ Cancel(t) \/ GrowOld(t) \/ Sign(t)
                       \/ DeleteTransaction(t)
  \/ \E u \in Utxos : Expire(u) \/ SplitAsset(u) \/ Mine(u) \/ Evict(u)
  \/ \E o \in DOMAIN InitOrders : DeleteOrder(o)
  \/ SetStrategy \/ RemoveStrategy
  \/ Broadcast

Spec == Init /\ [][Next]_vars

(* The cron fires again and again and its calls settle; reservations time  *)
(* out and minutes pass; what is in the mempool is mined.                  *)
FairSpec ==
  /\ Spec
  /\ WF_vars(Start) /\ WF_vars(JobStep)
  /\ \A t \in Trades : WF_vars(GrowOld(t))
  /\ \A u \in Utxos : WF_vars(Expire(u)) /\ WF_vars(Mine(u))

-------------------------------------------------------------------------------
(* Types.                                                                  *)

Statuses == {"pending", "confirming", "confirmed", "errored"}
Fill == [orderId : DOMAIN InitOrders, amount : Nat \ {0}, price : Nat]

IsTransaction(row) ==
  /\ DOMAIN row = {"status", "type", "fills", "utxo"}
  /\ row.status \in Statuses /\ row.type \in {"buy", "sell"} /\ row.utxo \in Utxos
  /\ row.fills \in Seq(Fill) /\ row.fills # <<>>

IsTable(table) == \A t \in DOMAIN table : t \in Trades /\ IsTransaction(table[t])
IsOrderTable(table) ==
  \A o \in DOMAIN table : o \in DOMAIN InitOrders \cup Spares /\ table[o] \in OrderRow

(* Every variable holds what the code can put there; while the job is at a *)
(* transaction, that transaction is one it loaded                          *)
(* (pending-transactions.service.ts:14, 37-58).                            *)
TypeOK ==
  /\ IsOrderTable(orders) /\ IsOrderTable(toUpdate) /\ IsOrderTable(book)
  /\ IsTable(tx) /\ IsTable(rows) /\ IsTable(txUpdate)
  /\ DOMAIN held \subseteq Utxos /\ (\A u \in DOMAIN held : held[u] \in Trades)
  /\ asked \subseteq Trades /\ old \subseteq Trades
  /\ signed \subseteq Utxos /\ dropped \subseteq Utxos
  /\ strategy \in Strategy \cup {NoStrategy} /\ spread \in 0..100 \cup {None}
  /\ chain \in [Utxos -> {"unspent", "mempool", "confirmed"}]
  /\ processing \in BOOLEAN
  /\ pc \in {"idle", "find", "tip", "next", "outspend", "reset", "config", "book",
             "rebalance"} \cup Range(Saves)
  /\ todo \subseteq DOMAIN rows /\ tip \subseteq Utxos
  /\ pc \in {"outspend", "reset", "config", "book", "rebalance"} =>
       current \in DOMAIN rows /\ entry \in DOMAIN rows[current].fills
  /\ txDelete \subseteq Trades
  /\ failures \in 0..MaxFailures /\ disturbed \in BOOLEAN

-------------------------------------------------------------------------------
(* Properties.                                                             *)

(* What transactions that may still go through, or did, take of an order.  *)
Taken(o) ==
  SumFunctionOnSet([t \in DOMAIN tx |-> AmountOf(tx[t].fills, o)],
                   {t \in DOMAIN tx : tx[t].status # "errored"})

(* Between two runs of the job the filled quantity of an order is what its *)
(* transactions take, if no call failed, no run was cut short and nothing  *)
(* was reserved or cancelled during one: of several transactions that fell *)
(* through at once, each amount is given back, and none twice              *)
(* (pending-transactions.service.ts:64-98, 226-240).                       *)
FillsAccounted ==
  pc = "idle" /\ failures = 0 /\ ~disturbed =>
    \A o \in DOMAIN orders \cap DOMAIN InitOrders :
      orders[o].filled = InitOrders[o].filled + Taken(o)

(* No order of a transaction is rebalanced twice, wherever the process     *)
(* stops and whichever call fails (pending-transactions.service.ts:226-245)*)
RebalancedOnce ==
  [][(DOMAIN orders' \ DOMAIN orders) \cap Spares # {} =>
       \A n \in newOrders : <<n.tradeId, n.entry>> \notin credited]_vars

(* A round trip does not lose: what was bought is offered at no less, and  *)
(* what was sold is bid for at no more                                     *)
(* (pending-transactions.service.ts:135-157, 173).                         *)
NoLoss ==
  \A n \in newOrders :
    LET paid == rows[n.tradeId].fills[n.entry].price
    IN IF n.type = "ask" THEN n.price >= paid ELSE n.price =< paid

(* A trade is confirmed only when the spend of its output is mined, though *)
(* the tip was read before the output and rows are saved last              *)
(* (pending-transactions.service.ts:43, 59, 100-107).                      *)
ConfirmedIsMined ==
  \A t \in DOMAIN tx : tx[t].status = "confirmed" => chain[tx[t].utxo] = "confirmed"

(* Unless reservations, cancels or deletions come between, an order is     *)
(* closed only when the transactions that have not failed take all of it,  *)
(* so that nothing on offer is withdrawn                                   *)
(* (pending-transactions.service.ts:160-170).                              *)
Closes(o) == orders[o].status = "open" /\ o \in DOMAIN orders' /\ orders'[o].status = "closed"
ClosedOnlyWhenFull ==
  [][\A o \in DOMAIN orders \cap DOMAIN InitOrders :
       Closes(o) /\ failures = 0 /\ ~disturbed =>
         InitOrders[o].filled + Taken(o) = orders[o].quantity]_vars

(* A confirmed transaction is final (pending-transactions.service.ts:37,   *)
(* 105-107).                                                               *)
ConfirmedIsFinal ==
  [][\A t \in DOMAIN tx : tx[t].status = "confirmed" =>
       t \in DOMAIN tx' /\ tx'[t] = tx[t]]_vars

(* Every trade is settled: it is confirmed, cancelled or deleted; the      *)
(* "Cron job to process pending transactions every minute" sees to it      *)
(* (pending-transactions.service.ts:27).                                   *)
EveryTradeSettles == \A t \in Trades : Unsettled(t) ~> ~Unsettled(t)

(* That is so unless one of the two calls before the loop rejects: it is   *)
(* outside of any try, the flag stays set and every later run returns at   *)
(* once.  Every other failure lets the next run settle the trade           *)
(* (pending-transactions.service.ts:31-44, 219-223, 248-253).              *)
Stuck == pc = "idle" /\ processing /\ failures > 0
SettledUnlessStuck == \A t \in Trades : Unsettled(t) ~> (~Unsettled(t) \/ Stuck)
===============================================================================
