------------------------------ MODULE Execution -------------------------------
(***************************************************************************)
(* The event handler of the market maker                                   *)
(* (libs/execution/src/event-handler/event-handler.service.ts).  Messages  *)
(* of the exchange arrive over the websocket and each starts one handler;  *)
(* the handlers run interleaved, giving way to each other at every await   *)
(* of the database, of an HTTP service or of the websocket.  They share    *)
(* the in-memory map reservedUtxos and the locks, which die with the       *)
(* process, and two tables of the database, the orders and the             *)
(* transactions.  A handler is named by its message: message m is handled  *)
(* once, and a message the exchange repeats is another m.                  *)
(***************************************************************************)
EXTENDS Integers, FiniteSets, Sequences, SequencesExt

CONSTANTS
  Messages,         \* identities of the messages the exchange may send
  Content,          \* Content[m]: what message m may say
  Trades,           \* trade identifiers
  Orders,           \* identifiers of rune orders
  Utxos,            \* locations of the wallet's outputs
  OrderType,        \* OrderType[o]: "ask" or "bid"
  Quantity,         \* Quantity[o]: size of the order
  Price,            \* Price[o]: sats per rune
  Scale,            \* Scale[o]: 10 ** decimals of the order's rune
  Value,            \* Value[u]: runes (for an ask) or sats (for a bid) in the output
  Source,           \* Source["ask"]: the rune outputs; Source["bid"]: the funding outputs
  InitFilled,       \* the rows of the order table at the start: its domain is their ids
  Deletable,        \* orders the operator may delete meanwhile
  TIMEOUT,          \* RESERVATION_TIMEOUT, in clock ticks
  CLEANUP_INTERVAL, \* period of the cleanup timer, in clock ticks
  PROPAGATION,      \* age from which the cron looks at a transaction, in clock ticks
  ClockRuns,        \* FALSE: everything happens within one clock tick
  CanRestart,       \* TRUE: the process may stop and start again
  Conversations,    \* bound: the messages that may come together, and how many at once
  HonestExchange,   \* TRUE: PSBTs are built from the outputs a success reply named
  None              \* undefined

(* The amount is whatever number the exchange wrote: nobody looks at its   *)
(* sign.                                                                   *)
OrderFill == [orderId : Orders, amount : Int]

MessageTypes == {"reserve_request", "reserve_cancel", "sign_request"}

(* orders is the request's list; inputs and pays stand for the PSBT of a   *)
(* sign request: the wallet outputs it asks to sign, and what it pays the  *)
(* maker (sats for a sale, runes for a purchase).                          *)
Message == [type : MessageTypes, tradeId : Trades, orders : Seq(OrderFill),
            inputs : SUBSET Utxos, pays : Nat]

ASSUME ExecutionAssumption ==
  /\ \A m \in Messages : Content[m] \subseteq Message
  /\ \A m \in Messages : \A c \in Content[m] :
        c.type = "reserve_request" => c.orders # <<>>
  /\ OrderType \in [Orders -> {"ask", "bid"}]
  /\ Quantity \in [Orders -> Nat]
  /\ Price \in [Orders -> Nat \ {0}]
  /\ Scale \in [Orders -> Nat \ {0}]
  /\ IsFiniteSet(Utxos)
  /\ Value \in [Utxos -> Nat \ {0}]
  /\ Source \in [{"ask", "bid"} -> SUBSET Utxos]
  /\ DOMAIN InitFilled \subseteq Orders
  /\ InitFilled = [o \in DOMAIN InitFilled |-> InitFilled[o]]
  /\ \A o \in DOMAIN InitFilled : InitFilled[o] \in 0..Quantity[o]
  /\ Deletable \subseteq Orders
  /\ TIMEOUT \in Nat \ {0}
  /\ CLEANUP_INTERVAL \in Nat \ {0}
  /\ PROPAGATION \in Nat
  /\ ClockRuns \in BOOLEAN
  /\ CanRestart \in BOOLEAN
  /\ Conversations \subseteq [messages : SUBSET Messages, atOnce : Nat]
  /\ HonestExchange \in BOOLEAN

VARIABLES
  reserved,     \* this.reservedUtxos: its domain is the set of reserved locations
  locks,        \* this.locks: the trades whose lock is set
  filled,       \* the order table: filledQuantity of the rows that exist
  tx,           \* the transaction table: the row of each trade that has one
  msg,          \* the message each handler works on
  pc,           \* where each handler is
  cpc,          \* where the cancel run by the handler is (handleReserveCancel)
  next,         \* index of the order being read
  snap,         \* order rows as the handler means to save them
  listed,       \* unspent outputs as the indexer answered
  taken,        \* reservedUtxos, the result of reserveOrders
  seen,         \* the transaction row the handler loaded
  reply,        \* what the exchange was told
  signed,       \* the signatures that left the wallet
  spent,        \* outputs spent on the chain
  sinceCleanup, \* clock ticks since the cleanup timer last fired
  overwritten,  \* history: orders whose row was saved over a change made since it was read
  lapsed        \* history: the outputs each trade has held and given up

memory == <<reserved, locks>>
database == <<filled, tx>>
locals == <<next, snap, listed, taken, seen>>
history == <<overwritten, lapsed>>
world == <<signed, spent, sinceCleanup, history>>
vars == <<memory, database, msg, pc, cpc, locals, reply, world>>

-------------------------------------------------------------------------------
(* Rows, fills and reservations.                                           *)

(* What the repository's save does to a table: rows loaded earlier replace *)
(* the current ones, and a row deleted meanwhile is inserted again.        *)
Saved(table, rows) ==
  [k \in DOMAIN table \cup DOMAIN rows |->
     IF k \in DOMAIN rows THEN rows[k] ELSE table[k]]

Entry(key, value) == [k \in {key} |-> value]

(* A transaction row as it is saved: createdAt never changes, so the age   *)
(* is that of the row in the table (a row deleted meanwhile was old).      *)
Dated(t, row) ==
  Entry(t, [row EXCEPT !.age = IF t \in DOMAIN tx THEN tx[t].age ELSE PROPAGATION])

TradeOf(m) == msg[m].tradeId

HeldBy(t) == {u \in DOMAIN reserved : reserved[u].tradeId = t}

WrongWithoutTrade(t) == <<>>                   \* wrong: forgets the other trades too
WithoutTrade(t) == Restrict(reserved, DOMAIN reserved \ HeldBy(t))

RuneAmount(fills) == SumFunction([i \in DOMAIN fills |-> fills[i].amount])

(* Division of BigInts drops the fraction, towards zero.                   *)
Quotient(n, d) == IF n >= 0 THEN n \div d ELSE -((-n) \div d)
SatsAmount(fills) ==
  Quotient(SumFunction([i \in DOMAIN fills |-> fills[i].amount * Price[fills[i].orderId]]),
           Scale[fills[1].orderId])

(* The type of a request is the type of its first order.                   *)
TypeOf(fills) == OrderType[fills[1].orderId]

(* What the UTXOs of a request have to add up to.                          *)
Required(fills) ==
  IF TypeOf(fills) = "ask" THEN RuneAmount(fills) ELSE SatsAmount(fills)

ValueOf(S) == SumFunctionOnSet(Value, S)

(* The ways the loops of reserverAskUTXOs and reserveBidUTXOs can pick     *)
(* outputs out of those available: the largest first for an ask (shift)    *)
(* and the smallest first for a bid (pop), until the amount is reached,    *)
(* which is at once when it is not positive.                               *)
WrongPicksOne(available, amount, type) ==      \* wrong: one output is thought enough
  {<<u>> : u \in available}

Picks(available, amount, type) ==
  {s \in UNION {[1..n -> available] : n \in 0..Cardinality(available)} :
     /\ IsInjective(s)
     /\ ValueOf(Range(s)) >= amount
     /\ s # <<>> => ValueOf(Range(Front(s))) < amount
     /\ \A i \in DOMAIN s :
          \A u \in available \ Range(SubSeq(s, 1, i)) :
             IF type = "ask" THEN Value[s[i]] >= Value[u] ELSE Value[s[i]] =< Value[u]}

(* Position of the entries of a trade in the insertion order of the map.   *)
LastPosition(t) == Max({reserved[u].position : u \in HeldBy(t)} \cup {0})

(* The map after the trade t has taken the outputs of s, in that order.    *)
(* orderAmount is what is still missing once the output is counted.        *)
WithPick(t, s, amount) ==
  [u \in DOMAIN reserved \cup Range(s) |->
     IF u \in Range(s)
     THEN LET i == CHOOSE j \in DOMAIN s : s[j] = u
          IN [tradeId     |-> t,
              age         |-> 0,
              orderAmount |-> amount - ValueOf(Range(SubSeq(s, 1, i))),
              position    |-> LastPosition(t) + i]
     ELSE reserved[u]]

(* The one listing of S in the order given by rank, as a set of one.       *)
Listings(S, rank) ==
  {s \in [1..Cardinality(S) -> S] :
     \A i, j \in 1..Cardinality(S) : i < j => rank[s[i]] < rank[s[j]]}

(* The outputs of a trade in the order in which they were reserved.        *)
HeldInOrder(t) ==
  Listings(HeldBy(t), [u \in HeldBy(t) |-> reserved[u].position])

(* What reserveBidUTXOs takes for the surplus of the trade's earlier       *)
(* reservations: everything reserved less the orderAmount of the first.    *)
Residual(t) ==
  IF HeldBy(t) = {} THEN 0
  ELSE LET first == CHOOSE u \in HeldBy(t) :
                      \A v \in HeldBy(t) : reserved[u].position =< reserved[v].position
       IN ValueOf(HeldBy(t)) - reserved[first].orderAmount

(* The outputs of more that the row does not name yet, in their order.     *)
WrongNewOutputs(old, more) == {<<>>}           \* wrong: new outputs are not written down
NewOutputs(old, more) ==
  LET S == Range(more) \ Range(old)
  IN Listings(S, [u \in S |-> CHOOSE i \in DOMAIN more : more[i] = u])

-------------------------------------------------------------------------------
(* The initial state: a process that has just started, with the orders of  *)
(* the database and no transaction.                                        *)

Init ==
  /\ reserved = <<>>
  /\ locks = {}
  /\ filled = InitFilled
  /\ tx = <<>>
  /\ msg = [m \in Messages |-> None]
  /\ pc = [m \in Messages |-> "idle"]
  /\ cpc = [m \in Messages |-> "none"]
  /\ next = [m \in Messages |-> 1]
  /\ snap = [m \in Messages |-> <<>>]
  /\ listed = [m \in Messages |-> {}]
  /\ taken = [m \in Messages |-> <<>>]
  /\ seen = [m \in Messages |-> None]
  /\ reply = [m \in Messages |-> "none"]
  /\ signed = {}
  /\ spent = {}
  /\ sinceCleanup = 0
  /\ overwritten = {}
  /\ lapsed = {}

Goto(m, label) == pc' = [pc EXCEPT ![m] = label]
CancelGoto(m, label) == cpc' = [cpc EXCEPT ![m] = label]

InFlight == {m \in Messages : pc[m] \notin {"idle", "done"} \/ cpc[m] \notin {"none", "done"}}

(* A message is delivered to its handler (ExecutionService.onModuleInit).  *)
Receive(m, type) ==
  /\ pc[m] = "idle"
  /\ \E c \in Conversations :
       /\ {m} \cup {n \in Messages : pc[n] # "idle"} \subseteq c.messages
       /\ Cardinality(InFlight) < c.atOnce
  /\ \E c \in Content[m] : c.type = type /\ msg' = [msg EXCEPT ![m] = c]

-------------------------------------------------------------------------------
(* handleReserveCancel.  The first part runs to the end without yielding;  *)
(* the part after the first await corrects the database.                   *)

(* What the history remembers of reservations that are dropped.            *)
Lapses(S) == lapsed' = lapsed \cup {<<reserved[u].tradeId, u>> : u \in S}

CancelNow(m, t) ==
  /\ reserved' = WithoutTrade(t)
  /\ Lapses(HeldBy(t))
  /\ CancelGoto(m, IF HeldBy(t) = {} THEN "done" ELSE "tx")

ReceiveCancel(m) ==
  /\ Receive(m, "reserve_cancel")
  /\ LET t == msg'[m].tradeId
     IN /\ CancelNow(m, t)
        /\ locks' = IF HeldBy(t) = {} THEN locks ELSE locks \ {t}
  /\ Goto(m, "done")
  /\ UNCHANGED <<database, locals, reply, signed, spent, sinceCleanup, overwritten>>

(* Only a trade that is still pending is corrected.                        *)
CancelFindTransaction(m) ==
  /\ cpc[m] = "tx"
  /\ LET t == TradeOf(m)
     IN IF t \in DOMAIN tx /\ tx[t].status = "pending"
        THEN seen' = [seen EXCEPT ![m] = tx[t]] /\ CancelGoto(m, "orders")
        ELSE UNCHANGED seen /\ CancelGoto(m, "done")
  /\ UNCHANGED <<memory, database, msg, pc, next, snap, listed, taken, reply, world>>

WrongKept(f, amount) == f                      \* wrong: nothing is given back
WrongDecreased(f, amount) == f - amount        \* wrong: not clamped at zero
Decreased(f, amount) == IF f < amount THEN 0 ELSE f - amount

(* Each entry of the list is loaded as an instance of its own: of two      *)
(* entries with the same order the later one is saved last.                *)
LastAmount(fills, o) ==
  fills[SelectLastInSeq(fills, LAMBDA f : f.orderId = o)].amount

OrdersOf(fills) == {fills[i].orderId : i \in DOMAIN fills}

(* The rows that give back what fills took, and those that take it.        *)
GivenBack(fills) ==
  [o \in OrdersOf(fills) \cap DOMAIN filled |-> Decreased(filled[o], LastAmount(fills, o))]
TakenMore(fills) ==
  [o \in OrdersOf(fills) \cap DOMAIN filled |-> filled[o] + LastAmount(fills, o)]

(* What the history remembers of a save: the rows that would be others if  *)
(* they were read again now, and those of orders that were deleted.        *)
Overwrites(rows, now) ==
  overwritten' = overwritten \cup {o \in DOMAIN rows : o \notin DOMAIN now \/ rows[o] # now[o]}

CancelFindOrders(m) ==
  /\ cpc[m] = "orders"
  /\ snap' = [snap EXCEPT ![m] = GivenBack(seen[m].orders)]
  /\ CancelGoto(m, "save")
  /\ UNCHANGED <<memory, database, msg, pc, next, listed, taken, seen, reply, world>>

CancelSave(m) ==
  /\ cpc[m] = "save"
  /\ filled' = Saved(filled, snap[m])
  /\ tx' = Saved(tx, Dated(TradeOf(m), [seen[m] EXCEPT !.status = "errored"]))
  /\ Overwrites(snap[m], GivenBack(seen[m].orders))
  /\ CancelGoto(m, "done")
  /\ UNCHANGED <<memory, msg, pc, locals, reply, signed, spent, sinceCleanup, lapsed>>

(* A database error ends the cancel; it is logged and nothing is retried.  *)
CancelFails(m) ==
  /\ cpc[m] \in {"tx", "orders", "save"}
  /\ CancelGoto(m, "done")
  /\ UNCHANGED <<memory, database, msg, pc, locals, reply, world>>

-------------------------------------------------------------------------------
(* handleReserveRequest and reserveOrders.                                 *)

WrongLockFree(t) == TRUE                       \* wrong: the lock is not looked at
LockFree(t) == t \notin locks

ReceiveReserve(m) ==
  /\ Receive(m, "reserve_request")
  /\ LET t == msg'[m].tradeId
     IN IF LockFree(t)
        THEN /\ locks' = locks \cup {t}
             /\ next' = [next EXCEPT ![m] = 1]
             /\ Goto(m, "read")
        ELSE UNCHANGED <<locks, next>> /\ Goto(m, "reply_error")
  /\ UNCHANGED <<reserved, database, cpc, snap, listed, taken, seen, reply, world>>

WrongWithin(o, amount) == filled[o] =< Quantity[o]  \* wrong: the new amount is not counted
WithinQuantity(o, amount) == filled[o] + amount =< Quantity[o]

WrongMoreOrders(m) == next[m] =< Len(msg[m].orders)  \* wrong: one round too many
MoreOrders(m) == next[m] < Len(msg[m].orders)

(* One round of the loop over the request's orders; after the last one the *)
(* handler asks for the rune (HTTP).                                       *)
ReadOrder(m) ==
  /\ pc[m] = "read"
  /\ LET fills == msg[m].orders
         fill == fills[next[m]]
         o == fill.orderId
     IN /\ o \in DOMAIN filled
        /\ WithinQuantity(o, fill.amount)
        /\ snap' = [snap EXCEPT ![m] = Saved(@, Entry(o, filled[o] + fill.amount))]
        /\ IF MoreOrders(m)
           THEN next' = [next EXCEPT ![m] = @ + 1] /\ UNCHANGED pc
           ELSE Goto(m, "rune") /\ UNCHANGED next
  /\ UNCHANGED <<memory, database, msg, cpc, listed, taken, seen, reply, world>>

(* The rune is known.  A bid is served from the surplus of the trade's     *)
(* earlier reservations when that is thought to be enough.                 *)
UseSurplus(m) ==
  /\ pc[m] = "rune"
  /\ TypeOf(msg[m].orders) = "bid"
  /\ Residual(TradeOf(m)) >= Required(msg[m].orders)
  /\ \E s \in HeldInOrder(TradeOf(m)) : taken' = [taken EXCEPT ![m] = s]
  /\ Goto(m, "lookup")
  /\ UNCHANGED <<memory, database, msg, cpc, next, snap, listed, seen, reply, world>>

(* Otherwise the wallet's unspent outputs are listed (HTTP): the answer is *)
(* a picture of the chain at this moment, delivered later.                 *)
ListUtxos(m) ==
  /\ pc[m] = "rune"
  /\ ~ /\ TypeOf(msg[m].orders) = "bid"
       /\ Residual(TradeOf(m)) >= Required(msg[m].orders)
  /\ listed' = [listed EXCEPT ![m] = Source[TypeOf(msg[m].orders)] \ spent]
  /\ Goto(m, "take")
  /\ UNCHANGED <<memory, database, msg, cpc, next, snap, taken, seen, reply, world>>

(* The listing arrives: reserved outputs are filtered out and the missing  *)
(* amount is taken in the same turn of the event loop.                     *)
WrongAvailable(m) == listed[m]                 \* wrong: reserved outputs are not filtered
Available(m) == {u \in listed[m] : u \notin DOMAIN reserved}

TakeUtxos(m) ==
  /\ pc[m] = "take"
  /\ LET amount == Required(msg[m].orders)
     IN /\ ValueOf(Available(m)) >= amount
        /\ \E s \in Picks(Available(m), amount, TypeOf(msg[m].orders)) :
              /\ reserved' = WithPick(TradeOf(m), s, amount)
              /\ taken' = [taken EXCEPT ![m] = s]
  /\ Goto(m, "lookup")
  /\ UNCHANGED <<locks, database, msg, cpc, next, snap, listed, seen, reply, world>>

(* Another HTTP call (the rune's decimals), then the transaction is looked *)
(* up.                                                                     *)
FindTransaction(m) ==
  /\ pc[m] = "lookup"
  /\ IF TradeOf(m) \in DOMAIN tx
     THEN seen' = [seen EXCEPT ![m] = tx[TradeOf(m)]] /\ Goto(m, "update")
     ELSE UNCHANGED seen /\ Goto(m, "insert")
  /\ UNCHANGED <<memory, database, msg, cpc, next, snap, listed, taken, reply, world>>

NewTransaction(m) ==
  LET fills == msg[m].orders
  IN [status        |-> "pending",
      type          |-> IF TypeOf(fills) = "bid" THEN "buy" ELSE "sell",
      orders        |-> fills,
      amount        |-> RuneAmount(fills),
      satsAmount    |-> SatsAmount(fills),
      reservedUtxos |-> taken[m],
      age           |-> 0]

(* tradeId is unique: the insertion fails when a row has appeared.         *)
InsertTransaction(m) ==
  /\ pc[m] = "insert"
  /\ TradeOf(m) \notin DOMAIN tx
  /\ filled' = Saved(filled, snap[m])
  /\ tx' = Saved(tx, Entry(TradeOf(m), NewTransaction(m)))
  /\ Overwrites(snap[m], TakenMore(msg[m].orders))
  /\ Goto(m, "publish")
  /\ UNCHANGED <<memory, msg, cpc, locals, reply, signed, spent, sinceCleanup, lapsed>>

(* The row as it was loaded, with the new orders appended; status and      *)
(* createdAt are kept.                                                     *)
ExtendedTransaction(m, new) ==
  LET fills == msg[m].orders
  IN [seen[m] EXCEPT !.orders        = @ \o fills,
                     !.amount        = @ + RuneAmount(fills),
                     !.satsAmount    = @ + SatsAmount(fills),
                     !.reservedUtxos = @ \o new]

UpdateTransaction(m) ==
  /\ pc[m] = "update"
  /\ filled' = Saved(filled, snap[m])
  /\ \E new \in NewOutputs(seen[m].reservedUtxos, taken[m]) :
       tx' = Saved(tx, Dated(TradeOf(m), ExtendedTransaction(m, new)))
  /\ Overwrites(snap[m], TakenMore(msg[m].orders))
  /\ Goto(m, "publish")
  /\ UNCHANGED <<memory, msg, cpc, locals, reply, signed, spent, sinceCleanup, lapsed>>

(* The finally block.                                                      *)
WrongUnlock(t) == UNCHANGED locks              \* wrong: no finally block
Unlock(t) == locks' = locks \ {t}

PublishSuccess(m) ==
  /\ pc[m] = "publish"
  /\ reply' = [reply EXCEPT ![m] = "success"]
  /\ Unlock(TradeOf(m))
  /\ Goto(m, "done")
  /\ UNCHANGED <<reserved, database, msg, cpc, locals, world>>

(* The websocket is down: the reservation stays and an error is reported.  *)
PublishFails(m) ==
  /\ pc[m] = "publish"
  /\ Unlock(TradeOf(m))
  /\ Goto(m, "reply_error")
  /\ UNCHANGED <<reserved, database, msg, cpc, locals, reply, world>>

(* Any awaited call of reserveOrders may reject; an order that is missing  *)
(* or exceeded, and missing funds, end here too.  The cancel starts, is    *)
(* not awaited, and the lock is released.                                  *)
WrongReserveFails(m) ==                        \* wrong: a missing order raises no error
  /\ pc[m] \in {"rune", "take", "lookup", "insert", "update"}
  /\ CancelNow(m, TradeOf(m))
  /\ Unlock(TradeOf(m))
  /\ Goto(m, "reply_error")
  /\ UNCHANGED <<database, msg, locals, reply, signed, spent, sinceCleanup, overwritten>>

ReserveFails(m) ==
  /\ pc[m] \in {"read", "rune", "take", "lookup", "insert", "update"}
  /\ CancelNow(m, TradeOf(m))
  /\ Unlock(TradeOf(m))
  /\ Goto(m, "reply_error")
  /\ UNCHANGED <<database, msg, locals, reply, signed, spent, sinceCleanup, overwritten>>

(* The error is reported; when that fails too it is only logged.           *)
PublishError(m) ==
  /\ pc[m] = "reply_error"
  /\ \E r \in {"none", "error"} : reply' = [reply EXCEPT ![m] = r]
  /\ Goto(m, "done")
  /\ UNCHANGED <<memory, database, msg, cpc, locals, world>>

-------------------------------------------------------------------------------
(* handleSignRequest and validatePsbt.                                     *)

(* The outputs the exchange was told to build a PSBT from.                 *)
Promised(t) ==
  {taken[n] : n \in {k \in Messages : reply[k] = "success" /\ TradeOf(k) = t}}

ReceiveSign(m) ==
  /\ Receive(m, "sign_request")
  /\ HonestExchange =>
       \E s \in Promised(msg'[m].tradeId) : msg'[m].inputs = Range(s)
  /\ Goto(m, "validate")
  /\ UNCHANGED <<memory, database, cpc, locals, reply, world>>

Signable(m) ==
  LET t == TradeOf(m)
  IN /\ t \in DOMAIN tx
     /\ tx[t].status = "pending"
     /\ msg[m].pays = IF tx[t].type = "sell" THEN tx[t].satsAmount ELSE tx[t].amount

ValidatePsbt(m) ==
  /\ pc[m] = "validate"
  /\ Goto(m, IF Signable(m) THEN "sign" ELSE "done")
  /\ UNCHANGED <<memory, database, msg, cpc, locals, reply, world>>

SendSignature(m) ==
  /\ pc[m] = "sign"
  /\ signed' = signed \cup {[tradeId |-> TradeOf(m), inputs |-> msg[m].inputs]}
  /\ reply' = [reply EXCEPT ![m] = "success"]
  /\ Goto(m, "done")
  /\ UNCHANGED <<memory, database, msg, cpc, locals, spent, sinceCleanup, history>>

(* A database, signing or publishing error ends in the catch of            *)
(* ExecutionService: no answer is sent.                                    *)
SignFails(m) ==
  /\ pc[m] \in {"validate", "sign"}
  /\ Goto(m, "done")
  /\ UNCHANGED <<memory, database, msg, cpc, locals, reply, world>>

-------------------------------------------------------------------------------
(* The clock, the cleanup timer, the operator and the chain.               *)

Older(age, cap) == IF age < cap THEN age + 1 ELSE age

(* Ages saturate where nothing depends on them any more.                   *)
Tick ==
  /\ ClockRuns
  /\ sinceCleanup < CLEANUP_INTERVAL
  /\ sinceCleanup' = sinceCleanup + 1
  /\ reserved' = [u \in DOMAIN reserved |->
        [reserved[u] EXCEPT !.age = Older(@, TIMEOUT + CLEANUP_INTERVAL)]]
  /\ tx' = [t \in DOMAIN tx |-> [tx[t] EXCEPT !.age = Older(@, PROPAGATION)]]
  /\ UNCHANGED <<locks, filled, msg, pc, cpc, locals, reply, signed, spent, history>>

WrongExpired(age) == age > TIMEOUT             \* wrong: off by one
WrongJustExpired(age) == age = TIMEOUT         \* wrong: misses what is older
Expired(age) == age >= TIMEOUT

CleanupExpiredReservations ==
  /\ sinceCleanup = CLEANUP_INTERVAL
  /\ sinceCleanup' = 0
  /\ reserved' = RestrictDomain(reserved, LAMBDA u : ~Expired(reserved[u].age))
  /\ Lapses({u \in DOMAIN reserved : Expired(reserved[u].age)})
  /\ UNCHANGED <<locks, database, msg, pc, cpc, locals, reply, signed, spent, overwritten>>

(* The process stops and starts again: the map, the locks and everything   *)
(* that was being handled are gone, the database is not.                   *)
Restart ==
  /\ CanRestart
  /\ reserved' = <<>>
  /\ locks' = {}
  /\ Lapses(DOMAIN reserved)
  /\ pc' = [m \in Messages |-> IF pc[m] = "idle" THEN "idle" ELSE "done"]
  /\ cpc' = [m \in Messages |-> IF cpc[m] = "none" THEN "none" ELSE "done"]
  /\ sinceCleanup' = 0
  /\ UNCHANGED <<database, msg, locals, reply, signed, spent, overwritten>>

(* The operator deletes an order (RuneOrdersService.deleteOrder).          *)
DeleteOrder(o) ==
  /\ o \in Deletable \cap DOMAIN filled
  /\ filled' = Restrict(filled, DOMAIN filled \ {o})
  /\ UNCHANGED <<memory, tx, msg, pc, cpc, locals, reply, world>>

(* The taker's transaction enters the chain with inputs the wallet signed. *)
Broadcast ==
  /\ \E g \in signed :
       /\ g.inputs # {}
       /\ g.inputs \cap spent = {}
       /\ spent' = spent \cup g.inputs
  /\ UNCHANGED <<memory, database, msg, pc, cpc, locals, reply, signed, sinceCleanup, history>>

-------------------------------------------------------------------------------
ReserveStep(m) ==
  \/ ReadOrder(m) \/ UseSurplus(m) \/ ListUtxos(m) \/ TakeUtxos(m)
  \/ FindTransaction(m) \/ InsertTransaction(m) \/ UpdateTransaction(m)
  \/ PublishSuccess(m) \/ PublishFails(m) \/ ReserveFails(m) \/ PublishError(m)

CancelStep(m) ==
  \/ CancelFindTransaction(m) \/ CancelFindOrders(m) \/ CancelSave(m) \/ CancelFails(m)

SignStep(m) == ValidatePsbt(m) \/ SendSignature(m) \/ SignFails(m)

Next ==
  \/ \E m \in Messages :
       \/ ReceiveReserve(m) \/ ReceiveCancel(m) \/ ReceiveSign(m)
       \/ ReserveStep(m) \/ CancelStep(m) \/ SignStep(m)
  \/ Tick
  \/ CleanupExpiredReservations
  \/ Restart
  \/ \E o \in Orders : DeleteOrder(o)
  \/ Broadcast

Spec == Init /\ [][Next]_vars

(* Awaited calls settle: every connection ends in an answer or an error,   *)
(* and the event loop runs every timer and every settled promise.          *)
FairSpec ==
  /\ Spec
  /\ \A m \in Messages : /\ WF_vars(ReserveStep(m))
                         /\ WF_vars(CancelStep(m))
                         /\ WF_vars(SignStep(m))
  /\ WF_vars(Tick)
  /\ WF_vars(CleanupExpiredReservations)

-------------------------------------------------------------------------------
(* Types.                                                                  *)

ReservePcs == {"read", "rune", "take", "lookup", "insert", "update", "publish"}
Pcs == {"idle", "done", "reply_error", "validate", "sign"} \cup ReservePcs

Statuses == {"pending", "confirming", "confirmed", "errored"}

IsTransaction(row) ==
  /\ DOMAIN row =
       {"status", "type", "orders", "amount", "satsAmount", "reservedUtxos", "age"}
  /\ row.status \in Statuses
  /\ row.orders \in Seq(OrderFill)
  /\ row.reservedUtxos \in Seq(Utxos)
  /\ row.age \in 0..PROPAGATION

IsReservation(entry) ==
  /\ DOMAIN entry = {"tradeId", "age", "orderAmount", "position"}
  /\ entry.tradeId \in Trades
  /\ entry.age \in 0..(TIMEOUT + CLEANUP_INTERVAL)

MemoryTypeOK ==
  /\ DOMAIN reserved \subseteq Utxos
  /\ \A u \in DOMAIN reserved : IsReservation(reserved[u])
  /\ locks \subseteq Trades

DatabaseTypeOK ==
  /\ DOMAIN filled \subseteq Orders
  /\ \A o \in DOMAIN filled : filled[o] \in Int
  /\ DOMAIN tx \subseteq Trades
  /\ \A t \in DOMAIN tx : IsTransaction(tx[t])

ControlTypeOK ==
  /\ msg \in [Messages -> Message \cup {None}]
  /\ pc \in [Messages -> Pcs]
  /\ cpc \in [Messages -> {"none", "tx", "orders", "save", "done"}]
  /\ \A m \in Messages :
       /\ pc[m] # "idle" => msg[m] \in Message
       /\ cpc[m] # "none" => pc[m] # "idle"

LocalsTypeOK ==
  /\ DOMAIN next = Messages /\ DOMAIN snap = Messages /\ DOMAIN listed = Messages
  /\ DOMAIN taken = Messages /\ DOMAIN seen = Messages
  /\ \A m \in Messages :
       /\ pc[m] \in ReservePcs => msg[m].orders # <<>>
       /\ pc[m] = "read" => next[m] \in DOMAIN msg[m].orders
       /\ DOMAIN snap[m] \subseteq Orders
       /\ \A o \in DOMAIN snap[m] : snap[m][o] \in Int
       /\ listed[m] \subseteq Utxos
       /\ taken[m] \in Seq(Utxos)
       /\ pc[m] = "update" => IsTransaction(seen[m])
       /\ cpc[m] \in {"orders", "save"} => IsTransaction(seen[m])

WorldTypeOK ==
  /\ reply \in [Messages -> {"none", "success", "error"}]
  /\ signed \subseteq [tradeId : Trades, inputs : SUBSET Utxos]
  /\ spent \subseteq Utxos
  /\ sinceCleanup \in 0..CLEANUP_INTERVAL
  /\ overwritten \subseteq Orders
  /\ lapsed \subseteq Trades \X Utxos

(* Every variable holds what the code can put there; a handler's locals    *)
(* are those of the place where it is (event-handler.service.ts:19-28,     *)
(* 208-300; entities transaction.entity.ts and rune-order.entity.ts).      *)
TypeOK == MemoryTypeOK /\ DatabaseTypeOK /\ ControlTypeOK /\ LocalsTypeOK /\ WorldTypeOK

-------------------------------------------------------------------------------
(* Properties.                                                             *)

(* While the exchange has asked for no negative amount, no interleaving of *)
(* reserves and cancels, with rows saved from stale snapshots, stores a    *)
(* filled quantity below zero or above the size of the order               *)
(* (event-handler.service.ts:126-129 and :220-222).                        *)
NoNegativeAmount ==
  \A m \in Messages : pc[m] # "idle" =>
    \A i \in DOMAIN msg[m].orders : msg[m].orders[i].amount >= 0
FillBounds ==
  NoNegativeAmount => \A o \in DOMAIN filled : filled[o] \in 0..Quantity[o]

(* The filled quantity of an order is never negative: the documentation    *)
(* wonders why it is (src/README.md:24-27), and a cancel sets it to zero   *)
(* (event-handler.service.ts:126-129).                                     *)
NeverNegative == \A o \in DOMAIN filled : filled[o] >= 0

(* The map is the abstract table: a UTXO is held by one trade at a time,   *)
(* is free before it is taken and is given up with its trade               *)
(* (event-handler.service.ts:47-61, 87-100, 320-333, 346-370).             *)
Table == INSTANCE ReservationTable
           WITH holder <- [u \in DOMAIN reserved |-> reserved[u].tradeId]
ImplementsReservationTable == Table!Spec

(* The trades that a message cancels, and those that reserve repeatedly.   *)
Cancelled(t) ==
  \E m \in Messages : pc[m] # "idle" /\ msg[m].type = "reserve_cancel" /\ TradeOf(m) = t
Reserves(m, t) == pc[m] # "idle" /\ msg[m].type = "reserve_request" /\ TradeOf(m) = t
Repeated(t) == \E m, n \in Messages : m # n /\ Reserves(m, t) /\ Reserves(n, t)

(* The lock of a trade is exclusive: no two reserve requests of one trade  *)
(* are being worked on at the same time, unless a message cancels it,      *)
(* which deletes the lock of whoever has it                                *)
(* (event-handler.service.ts:103-106, 165-171).                            *)
Reserving(m) == pc[m] \in ReservePcs
OneReservePerTrade ==
  \A m, n \in Messages :
    Reserving(m) /\ Reserving(n) /\ TradeOf(m) = TradeOf(n) =>
      m = n \/ Cancelled(TradeOf(m))

(* No reservation is orphaned: an output is held for a request that is     *)
(* about to write it down or for a transaction that lists it, so that      *)
(* somebody will still give it up.  Only of a trade that has errored is it *)
(* left to the timeout: the cancel of an earlier request saves the row as  *)
(* it was before a retry extended it (event-handler.service.ts:137, 266,   *)
(* 287).  A trade that a message cancels is left out.                      *)
ReservationBacked ==
  \A u \in DOMAIN reserved :
    LET t == reserved[u].tradeId
    IN \/ Cancelled(t)
       \/ t \in DOMAIN tx /\ (u \in Range(tx[t].reservedUtxos) \/ tx[t].status = "errored")
       \/ \E m \in Messages : /\ pc[m] \in {"lookup", "insert", "update"}
                              /\ TradeOf(m) = t
                              /\ u \in Range(taken[m])

(* What pending transactions have promised out of an order.                *)
AmountOf(fills, o) ==
  SumFunction([i \in DOMAIN fills |-> IF fills[i].orderId = o THEN fills[i].amount ELSE 0])
Committed(o) ==
  SumFunctionOnSet([t \in DOMAIN tx |-> AmountOf(tx[t].orders, o)],
                   {t \in DOMAIN tx : tx[t].status = "pending"})

(* The filled quantity of an order is what the pending transactions have   *)
(* promised out of it, at every moment, as long as no row of the order is  *)
(* saved over a change made since it was read: failures at any await,      *)
(* cancels and restarts leak nothing of any other order that the trades    *)
(* which reserve it reserve once, naming an order once and for no negative *)
(* amount (event-handler.service.ts:108-151, 208-300).                     *)
FillsAccounted ==
  \A o \in DOMAIN filled \ overwritten :
    \/ filled[o] = InitFilled[o] + Committed(o)
    \/ \E m \in Messages :
         pc[m] # "idle" /\ o \in OrdersOf(msg[m].orders) /\ Repeated(TradeOf(m))

(* Pending transactions never promise more of an order than its quantity   *)
(* (event-handler.service.ts:220-222).                                     *)
NoOverCommitment ==
  \A o \in DOMAIN filled : InitFilled[o] + Committed(o) =< Quantity[o]

(* When success is reported, the trade holds every output it was promised, *)
(* where no reservation times out and no message cancels the trade         *)
(* (event-handler.service.ts:174-185).                                     *)
SuccessIsBacked ==
  [][\A m \in Messages :
       pc[m] = "publish" /\ reply'[m] = "success" /\ ~Cancelled(TradeOf(m)) =>
         Range(taken[m]) \subseteq HeldBy(TradeOf(m))]_vars

(* The outputs promised for a pending trade that reserved once are worth   *)
(* what it sells in runes or pays in sats                                  *)
(* (event-handler.service.ts:302-336, 339-372).                            *)
TradesAreCovered ==
  \A t \in DOMAIN tx :
    tx[t].status = "pending" /\ ~Repeated(t) =>
      ValueOf(Range(tx[t].reservedUtxos)) >=
        IF tx[t].type = "sell" THEN tx[t].amount ELSE tx[t].satsAmount

(* An output is signed away in two trades only if one of them has given it *)
(* up, by a cancel, a failed retry, the timeout or a restart: what a trade *)
(* still holds is signed for no other, however handlers interleave, as     *)
(* long as the exchange builds PSBTs from the outputs it was told of       *)
(* (event-handler.service.ts:320, 346, 391-393).                           *)
SignedTwiceIsGivenUp ==
  \A g, h \in signed : g.tradeId # h.tradeId =>
    \A u \in g.inputs \cap h.inputs : {<<g.tradeId, u>>, <<h.tradeId, u>>} \cap lapsed # {}

(* A reservation outlives its timeout by less than one period of the       *)
(* cleanup (event-handler.service.ts:30-31, 41, 50).                       *)
ReservationExpires ==
  \A u \in DOMAIN reserved : reserved[u].age < TIMEOUT + CLEANUP_INTERVAL

(* Whatever fails, a lock is given back (event-handler.service.ts:186-189).*)
LocksAreReleased == \A t \in Trades : t \in locks ~> t \notin locks

(* Every output becomes available again, whatever happens to its trade     *)
(* (event-handler.service.ts:47-61).                                       *)
OutputsAreReleased == \A u \in Utxos : u \in DOMAIN reserved ~> u \notin DOMAIN reserved

(* Every message is dealt with to the end, the un-awaited cancel included. *)
HandlersFinish == \A m \in Messages : m \in InFlight ~> m \notin InFlight
===============================================================================
