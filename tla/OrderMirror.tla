------------------------------ MODULE OrderMirror -------------------------------
(***************************************************************************)
(* The order book of the market maker and its copy on the exchange         *)
(* (apps/hotwallet/src/rune-orders/rune-orders.service.ts).  A call of the *)
(* operator writes the local table first and then tells the exchange,      *)
(* whose refusal leaves the two apart; every 30 seconds a sync sends the   *)
(* whole local table and deletes what the exchange has besides.  Calls and *)
(* syncs give way at every await, and nothing keeps two syncs from running *)
(* at the same time.  Every request to the exchange is signed with the key *)
(* of the wallet, and rejects while the wallet is locked                   *)
(* (apps/hotwallet/src/clients/exchange.client.ts).  The job for pending   *)
(* transactions and the event handler write the same table: they save      *)
(* whole rows as they have loaded them, and know nothing of the exchange.  *)
(***************************************************************************)
EXTENDS Integers, FiniteSets, Sequences, SequencesExt

CONSTANTS
  Calls,       \* calls of the operator (bound: each is made at most once)
  Syncs,       \* bound: syncs that may run at the same time
  Ids,         \* identifiers of orders
  Kinds,       \* an order's rune, type and price
  Requests,    \* what a call may ask for
  Writers,     \* runs of the job and handlers of messages that save order rows
               \* (bound: each does so at most once)
  Traded,      \* bound: orders whose rows they load
  Counters,    \* bound: counter orders a run of the job may insert
  AtOnce,      \* bound: calls handled at the same time
  MaxFailures  \* bound: calls of the database or the exchange that fail, and restarts

(* A new order says its kind and quantity; only "create" merges.           *)
NewOrder == [kind : Kinds, quantity : Nat \ {0}]
Request == [op : {"create", "batch", "delete"}, orders : Seq(NewOrder), ids : SUBSET Ids]

ASSUME MirrorAssumption ==
  /\ IsFiniteSet(Calls)
  /\ Requests \subseteq Request
  /\ \A r \in Requests : r.op = "create" => Len(r.orders) = 1
  /\ Traded \subseteq Ids
  /\ Counters \subseteq Seq(NewOrder)
  /\ AtOnce \in Nat
  /\ MaxFailures \in Nat

VARIABLES
  local,     \* the order table: kind, quantity and whether it is open
  exchange,  \* the quantities of the maker's orders on the exchange
  unlocked,  \* whether the wallet can sign
  pc,        \* where each call is
  request,   \* what it asks for
  sent,      \* the orders it mirrors, with their quantities
  spc,       \* where each sync is
  listed,    \* localOrders of the sync
  stale,     \* ordersToDelete of the sync
  wpc,       \* where each writer is
  loaded,    \* the rows it means to save
  balance,   \* quantity added at each kind, less what was deleted
  deleted,   \* identifiers of deleted orders, which are not given out again
  overwritten, \* history: kinds with a quantity written over a change made meanwhile
  failures   \* calls that failed, and restarts

callVars == <<pc, request, sent>>
syncVars == <<spc, listed, stale>>
writerVars == <<wpc, loaded>>
history == <<balance, deleted, overwritten>>
vars == <<local, exchange, unlocked, callVars, syncVars, writerVars, history, failures>>

NoRows == [k \in {} |-> 0]
NoRequest == [op |-> "none", orders |-> <<>>, ids |-> {}]

Saved(table, rows) ==
  [k \in DOMAIN table \cup DOMAIN rows |-> IF k \in DOMAIN rows THEN rows[k] ELSE table[k]]
Row(key, value) == [k \in {key} |-> value]
Without(table, keys) == Restrict(table, DOMAIN table \ keys)

Init ==
  /\ local = NoRows
  /\ exchange = NoRows
  /\ unlocked = FALSE
  /\ pc = [c \in Calls |-> "idle"]
  /\ request = [c \in Calls |-> NoRequest]
  /\ sent = [c \in Calls |-> NoRows]
  /\ spc = [s \in Syncs |-> "idle"]
  /\ listed = [s \in Syncs |-> NoRows]
  /\ stale = [s \in Syncs |-> {}]
  /\ wpc = [w \in Writers |-> "load"]
  /\ loaded = [w \in Writers |-> NoRows]
  /\ balance = [k \in Kinds |-> 0]
  /\ deleted = {}
  /\ overwritten = {}
  /\ failures = 0

InProgress == {c \in Calls : pc[c] \notin {"idle", "done"}}

Goto(c, label) == pc' = [pc EXCEPT ![c] = label]

(* The call returns, and its variables are gone.                           *)
Returns(c) ==
  /\ Goto(c, "done")
  /\ request' = [request EXCEPT ![c] = NoRequest]
  /\ sent' = [sent EXCEPT ![c] = NoRows]

Fail == failures < MaxFailures /\ failures' = failures + 1

-------------------------------------------------------------------------------
(* The calls of the operator (rune-orders.controller.ts).                  *)

FirstStep == [create |-> "read", batch |-> "insert", delete |-> "remove"]

Receive(c) ==
  /\ pc[c] = "idle"
  /\ Cardinality(InProgress) < AtOnce
  /\ \E r \in Requests :
       /\ request' = [request EXCEPT ![c] = r]
       /\ Goto(c, FirstStep[r.op])
  /\ UNCHANGED <<local, exchange, unlocked, sent, syncVars, writerVars, history, failures>>

(* createOrder looks for an open order of the same kind and remembers its  *)
(* quantity; an order it finds is the one it will mirror.                  *)
Mergeable(kind) == {o \in DOMAIN local : local[o].kind = kind /\ local[o].open}

ReadBook(c) ==
  /\ pc[c] = "read"
  /\ LET kind == request[c].orders[1].kind
     IN IF Mergeable(kind) = {}
        THEN Goto(c, "insert") /\ UNCHANGED sent
        ELSE /\ \E o \in Mergeable(kind) :
                  sent' = [sent EXCEPT ![c] = Row(o, local[o].quantity)]
             /\ Goto(c, "merge")
  /\ UNCHANGED <<local, exchange, unlocked, request, syncVars, writerVars, history, failures>>

Amount(new, kind) ==
  SumFunction([i \in DOMAIN new |-> IF new[i].kind = kind THEN new[i].quantity ELSE 0])
Adds(new) == balance' = [k \in Kinds |-> balance[k] + Amount(new, k)]

(* What the history remembers of a write to order o by someone who has     *)
(* read its quantity before.                                               *)
Overwrites(o, quantity) == o \notin DOMAIN local \/ local[o].quantity # quantity

(* update writes the sum of what was read and what is asked; it does       *)
(* nothing to an order that was deleted meanwhile.                         *)
WrongMerged(c, o) == request[c].orders[1].quantity  \* wrong: replaces the quantity
Merged(c, o) == sent[c][o] + request[c].orders[1].quantity

WrongUpdated(table, o, quantity) == table      \* wrong: sent and not stored
Updated(table, o, quantity) ==
  [k \in DOMAIN table |->
     IF k = o THEN [table[k] EXCEPT !.quantity = quantity] ELSE table[k]]

Merge(c) ==
  /\ pc[c] = "merge"
  /\ \E o \in DOMAIN sent[c] :
       /\ local' = Updated(local, o, Merged(c, o))
       /\ sent' = [sent EXCEPT ![c] = Row(o, Merged(c, o))]
       /\ overwritten' =
            IF Overwrites(o, sent[c][o])
            THEN overwritten \cup {request[c].orders[1].kind} ELSE overwritten
  /\ Adds(request[c].orders)
  /\ Goto(c, "mirror")
  /\ UNCHANGED <<exchange, unlocked, request, syncVars, writerVars, deleted, failures>>

(* New rows, each with a new identifier (which one does not matter).       *)
FreshIds(n) ==
  {ids \in [1..n -> Ids \ (DOMAIN local \cup deleted)] : IsInjective(ids)}

NewRows(ids, new) ==
  [o \in Range(ids) |->
     LET order == new[CHOOSE i \in DOMAIN new : ids[i] = o]
     IN [kind |-> order.kind, quantity |-> order.quantity, open |-> TRUE]]

Quantities(rows) == [o \in DOMAIN rows |-> rows[o].quantity]

(* createBatchOrders comes here without looking for a merge.               *)
Insert(c) ==
  /\ pc[c] = "insert"
  /\ FreshIds(Len(request[c].orders)) # {}
  /\ LET new == request[c].orders
         ids == CHOOSE i \in FreshIds(Len(new)) : TRUE
     IN /\ local' = Saved(local, NewRows(ids, new))
        /\ sent' = [sent EXCEPT ![c] = Quantities(NewRows(ids, new))]
        /\ Adds(new)
  /\ Goto(c, "mirror")
  /\ UNCHANGED <<exchange, unlocked, request, syncVars, writerVars, deleted, overwritten, failures>>

(* ExchangeClient.makeAuthenticatedRequest.                                *)
Authenticated == unlocked

(* The exchange replaces an order it already has.                          *)
Mirror(c) ==
  /\ pc[c] = "mirror"
  /\ Authenticated
  /\ exchange' = Saved(exchange, sent[c])
  /\ Returns(c)
  /\ UNCHANGED <<local, unlocked, syncVars, writerVars, history, failures>>

(* deleteOrder and deleteBatchOrders.                                      *)
QuantityAt(kind, ids) ==
  SumFunctionOnSet(Quantities(local),
                   {o \in ids \cap DOMAIN local : local[o].kind = kind})

DeleteLocal(c) ==
  /\ pc[c] = "remove"
  /\ local' = Without(local, request[c].ids)
  /\ deleted' = deleted \cup (request[c].ids \cap DOMAIN local)
  /\ balance' = [k \in Kinds |-> balance[k] - QuantityAt(k, request[c].ids)]
  /\ Goto(c, "unmirror")
  /\ UNCHANGED <<exchange, unlocked, request, sent, syncVars, writerVars, overwritten, failures>>

MirrorDelete(c) ==
  /\ pc[c] = "unmirror"
  /\ Authenticated
  /\ exchange' = Without(exchange, request[c].ids)
  /\ Returns(c)
  /\ UNCHANGED <<local, unlocked, syncVars, writerVars, history, failures>>

(* A call of the database or of the exchange rejects: whatever was done    *)
(* before stays done.                                                      *)
CallFails(c) ==
  /\ c \in InProgress
  /\ \/ Fail
     \/ pc[c] \in {"mirror", "unmirror"} /\ ~Authenticated /\ UNCHANGED failures
  /\ Returns(c)
  /\ UNCHANGED <<local, exchange, unlocked, syncVars, writerVars, history>>

-------------------------------------------------------------------------------
(* syncOrders.                                                             *)

SyncGoto(s, label) == spc' = [spc EXCEPT ![s] = label]

ListLocal(s) ==
  /\ spc[s] = "idle"
  /\ listed' = [listed EXCEPT ![s] = Quantities(local)]
  /\ SyncGoto(s, "exchange")
  /\ UNCHANGED <<local, exchange, unlocked, callVars, stale, writerVars, history, failures>>

WrongToDelete(s) == {}                         \* wrong: nothing is ever deleted
WrongMissing(s) == DOMAIN listed[s] \ DOMAIN exchange  \* wrong: "not in exchange"
ToDelete(s) == DOMAIN exchange \ DOMAIN listed[s]

(* The sync is over, and its lists are gone.                               *)
SyncReturns(s) ==
  /\ SyncGoto(s, "idle")
  /\ listed' = [listed EXCEPT ![s] = NoRows]
  /\ stale' = [stale EXCEPT ![s] = {}]

(* An empty list is not sent.                                              *)
ListExchange(s) ==
  /\ spc[s] = "exchange"
  /\ Authenticated
  /\ IF DOMAIN listed[s] = {} /\ ToDelete(s) = {}
     THEN SyncReturns(s)
     ELSE /\ stale' = [stale EXCEPT ![s] = ToDelete(s)]
          /\ SyncGoto(s, IF DOMAIN listed[s] = {} THEN "delete" ELSE "create")
          /\ UNCHANGED listed
  /\ UNCHANGED <<local, exchange, unlocked, callVars, writerVars, history, failures>>

SyncCreate(s) ==
  /\ spc[s] = "create"
  /\ Authenticated
  /\ exchange' = Saved(exchange, listed[s])
  /\ IF stale[s] = {} THEN SyncReturns(s) ELSE SyncGoto(s, "delete") /\ UNCHANGED <<listed, stale>>
  /\ UNCHANGED <<local, unlocked, callVars, writerVars, history, failures>>

SyncDelete(s) ==
  /\ spc[s] = "delete"
  /\ Authenticated
  /\ exchange' = Without(exchange, stale[s])
  /\ SyncReturns(s)
  /\ UNCHANGED <<local, unlocked, callVars, writerVars, history, failures>>

(* Any of the four calls rejects; the next sync starts over.               *)
SyncFails(s) ==
  /\ spc[s] # "idle"
  /\ Fail \/ (~Authenticated /\ UNCHANGED failures)
  /\ SyncReturns(s)
  /\ UNCHANGED <<local, exchange, unlocked, callVars, writerVars, history>>

-------------------------------------------------------------------------------
(* The job (pending-transactions.service.ts) and the event handler (event- *)
(* handler.service.ts) load the rows of orders that are traded, one after  *)
(* the other.                                                              *)
Load(w, o) ==
  /\ wpc[w] = "load"
  /\ o \in Traded \cap DOMAIN local
  /\ loaded' = [loaded EXCEPT ![w] = Saved(@, Row(o, local[o]))]
  /\ UNCHANGED <<local, exchange, unlocked, callVars, syncVars, wpc, history, failures>>

(* They save them whole, the job with the status of some set to closed.  A *)
(* quantity that was merged into meanwhile is what it was, and an order    *)
(* deleted meanwhile is there again.                                       *)
Close(row) == [row EXCEPT !.open = FALSE]

Save(w) ==
  /\ wpc[w] = "load"
  /\ loaded[w] # NoRows
  /\ \E full \in SUBSET DOMAIN loaded[w] :
       local' = Saved(local, [o \in DOMAIN loaded[w] |->
                  IF o \in full THEN Close(loaded[w][o]) ELSE loaded[w][o]])
  /\ overwritten' = overwritten \cup
       {loaded[w][o].kind : o \in {k \in DOMAIN loaded[w] : Overwrites(k, loaded[w][k].quantity)}}
  /\ loaded' = [loaded EXCEPT ![w] = NoRows]
  /\ wpc' = [wpc EXCEPT ![w] = "saved"]
  /\ UNCHANGED <<exchange, unlocked, callVars, syncVars, balance, deleted, failures>>

(* The job saves the counter orders last; the next sync mirrors them.  It  *)
(* merges none into an order of the book, because it looks for orders in   *)
(* status 'OPEN', which is stored as 'open'.                               *)
SaveNewOrders(w) ==
  /\ wpc[w] = "saved"
  /\ \E new \in Counters :
       /\ FreshIds(Len(new)) # {}
       /\ local' = Saved(local, NewRows(CHOOSE i \in FreshIds(Len(new)) : TRUE, new))
       /\ Adds(new)
  /\ wpc' = [wpc EXCEPT ![w] = "done"]
  /\ UNCHANGED <<exchange, unlocked, callVars, syncVars, loaded, deleted, overwritten, failures>>

(* A call rejects, or nothing is left to save.                             *)
WriterReturns(w) ==
  /\ wpc[w] # "done"
  /\ wpc' = [wpc EXCEPT ![w] = "done"]
  /\ loaded' = [loaded EXCEPT ![w] = NoRows]
  /\ UNCHANGED <<local, exchange, unlocked, callVars, syncVars, history, failures>>

WriterStep(w) == (\E o \in Ids : Load(w, o)) \/ Save(w) \/ SaveNewOrders(w) \/ WriterReturns(w)

(* The operator unlocks the wallet, or logs out.                           *)
Unlock ==
  /\ ~unlocked /\ unlocked' = TRUE
  /\ UNCHANGED <<local, exchange, callVars, syncVars, writerVars, history, failures>>

Logout ==
  /\ unlocked /\ unlocked' = FALSE
  /\ UNCHANGED <<local, exchange, callVars, syncVars, writerVars, history, failures>>

(* The process stops and starts again, locked; requests under way are      *)
(* abandoned.                                                              *)
Restart ==
  /\ Fail
  /\ unlocked' = FALSE
  /\ pc' = [c \in Calls |-> IF pc[c] = "idle" THEN "idle" ELSE "done"]
  /\ request' = [c \in Calls |-> NoRequest]
  /\ sent' = [c \in Calls |-> NoRows]
  /\ spc' = [s \in Syncs |-> "idle"]
  /\ listed' = [s \in Syncs |-> NoRows]
  /\ stale' = [s \in Syncs |-> {}]
  /\ wpc' = [w \in Writers |-> IF wpc[w] = "load" /\ loaded[w] = NoRows THEN "load" ELSE "done"]
  /\ loaded' = [w \in Writers |-> NoRows]
  /\ UNCHANGED <<local, exchange, history>>

CallStep(c) ==
  \/ ReadBook(c) \/ Merge(c) \/ Insert(c) \/ Mirror(c)
  \/ DeleteLocal(c) \/ MirrorDelete(c) \/ CallFails(c)

SyncStep(s) ==
  \/ ListLocal(s) \/ ListExchange(s) \/ SyncCreate(s) \/ SyncDelete(s) \/ SyncFails(s)

Next ==
  \/ \E c \in Calls : Receive(c) \/ CallStep(c)
  \/ \E s \in Syncs : SyncStep(s)
  \/ \E w \in Writers : WriterStep(w)
  \/ Unlock \/ Logout \/ Restart

Spec == Init /\ [][Next]_vars

(* Awaited calls settle, and the cron fires again and again.               *)
FairSpec ==
  /\ Spec
  /\ \A c \in Calls : WF_vars(CallStep(c))
  /\ \A s \in Syncs : WF_vars(SyncStep(s))

-------------------------------------------------------------------------------
OrderRow == [kind : Kinds, quantity : Nat \ {0}, open : BOOLEAN]
IsRows(f) == DOMAIN f \subseteq Ids /\ \A o \in DOMAIN f : f[o] \in OrderRow
IsQuantities(f) == DOMAIN f \subseteq Ids /\ \A o \in DOMAIN f : f[o] \in Nat \ {0}

(* Every variable holds what the code can put there; what a call sends is  *)
(* there when it is needed (rune-orders.service.ts:33-58, 217-233).        *)
TypeOK ==
  /\ IsRows(local)
  /\ IsQuantities(exchange)
  /\ request \in [Calls -> Request \cup {NoRequest}]
  /\ \A c \in Calls :
       /\ pc[c] \in {"idle", "read", "merge", "insert", "mirror", "remove", "unmirror", "done"}
       /\ IsQuantities(sent[c])
       /\ pc[c] \in {"read", "merge"} => request[c].op = "create"
       /\ pc[c] = "merge" => \E o \in Ids : DOMAIN sent[c] = {o}
  /\ \A s \in Syncs :
       /\ spc[s] \in {"idle", "exchange", "create", "delete"}
       /\ IsQuantities(listed[s])
       /\ stale[s] \subseteq Ids
       /\ spc[s] \in {"create", "delete"} => DOMAIN listed[s] \cap stale[s] = {}
  /\ \A w \in Writers : wpc[w] \in {"load", "saved", "done"} /\ IsRows(loaded[w])
  /\ overwritten \subseteq Kinds
  /\ unlocked \in BOOLEAN /\ failures \in 0..MaxFailures

(* What was added at a price is there or was deleted, as long as nobody    *)
(* writes a quantity of that price over a change made since he read it:    *)
(* merging, batches, counter orders and the writers' saves of whole rows   *)
(* lose and double nothing else, whatever the exchange refuses and         *)
(* wherever the process stops (rune-orders.service.ts:37-48, 74, 106;      *)
(* pending-transactions.service.ts:226-245).                               *)
QuantitiesAddUp ==
  \A k \in Kinds \ overwritten : QuantityAt(k, Ids) = balance[k]

(* The exchange is never told of more than the quantity of such an order,  *)
(* although calls and syncs send what they read earlier, in any order      *)
(* (rune-orders.service.ts:46-58, 229).                                    *)
NeverOffersMore ==
  \A o \in DOMAIN exchange \cap DOMAIN local :
    local[o].kind \notin overwritten => exchange[o] =< local[o].quantity

(* Once the wallet stays unlocked and the operator has made his last call, *)
(* the two books become the same and stay so: what was created, merged or  *)
(* deleted while the wallet was locked, and what overlapping syncs         *)
(* recreated or deleted, is made good by later ones                        *)
(* (rune-orders.service.ts:212-241; exchange.client.ts:54-59).             *)
Agree == exchange = Quantities(local)
BooksConverge == <>[]unlocked => <>[]Agree
===============================================================================
