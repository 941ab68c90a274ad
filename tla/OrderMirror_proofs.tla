--------------------------- MODULE OrderMirror_proofs ---------------------------
(***************************************************************************)
(* For every number of calls, syncs, writers and orders: every variable    *)
(* holds what the code can put there; and at every price where no quantity *)
(* was written over a change made meanwhile, the exchange is never told of *)
(* more than an order's quantity and the table has what was put there.     *)
(***************************************************************************)
EXTENDS OrderMirror, Sums_proofs

USE DEF Goto, SyncGoto, FirstStep

(* The quantities of a row, and of the orders a call asks for.             *)
LEMMA RowApply == \A k, v : DOMAIN Row(k, v) = {k} /\ Row(k, v)[k] = v
BY DEF Row

-------------------------------------------------------------------------------
(* What the variables hold, for any number of calls at a time.  Beyond     *)
(* their types: a call in progress asks for one of the requests, and what  *)
(* each process sends are quantities of identifiers.                       *)
LocalTyped == IsRows(local) /\ IsFiniteSet(DOMAIN local)

CallPlaces == {"idle", "read", "merge", "insert", "mirror", "remove", "unmirror", "done"}
CallsTyped ==
  /\ DOMAIN pc = Calls /\ DOMAIN sent = Calls
  /\ request \in [Calls -> Request \cup {NoRequest}]
  /\ \A c \in Calls :
       /\ pc[c] \in CallPlaces
       /\ IsQuantities(sent[c])
       /\ pc[c] \notin {"idle", "done"} => request[c] \in Requests
       /\ pc[c] \in {"read", "merge"} => request[c].op = "create"
       /\ pc[c] = "merge" => \E o \in Ids : DOMAIN sent[c] = {o}

SyncsTyped ==
  /\ DOMAIN spc = Syncs /\ DOMAIN listed = Syncs /\ DOMAIN stale = Syncs
  /\ \A s \in Syncs :
       /\ spc[s] \in {"idle", "exchange", "create", "delete"}
       /\ IsQuantities(listed[s])
       /\ stale[s] \subseteq Ids
       /\ spc[s] \in {"create", "delete"} => DOMAIN listed[s] \cap stale[s] = {}

WritersTyped ==
  /\ DOMAIN wpc = Writers /\ DOMAIN loaded = Writers
  /\ \A w \in Writers :
       wpc[w] \in {"load", "saved", "done"} /\ IsRows(loaded[w]) /\ IsFiniteSet(DOMAIN loaded[w])
  /\ overwritten \subseteq Kinds

RestTyped == IsQuantities(exchange) /\ unlocked \in BOOLEAN /\ failures \in 0..MaxFailures

TypesInv == LocalTyped /\ CallsTyped /\ SyncsTyped /\ WritersTyped /\ RestTyped

LEMMA TypesInit == Init => TypesInv
<1>1. MaxFailures \in Nat
  BY MirrorAssumption, Zenon
<1> SUFFICES ASSUME Init PROVE TypesInv
  OBVIOUS
<1>2. DOMAIN NoRows = {} /\ IsQuantities(NoRows)
  BY DEF NoRows, IsQuantities
<1>3. LocalTyped
  BY <1>2, FS_EmptySet DEF Init, LocalTyped, IsRows
<1>4. CallsTyped
  <2>1. request \in [Calls -> Request \cup {NoRequest}]
    BY DEF Init
  <2> QED
    BY <1>2, <2>1 DEF Init, CallsTyped, CallPlaces
<1>5. SyncsTyped
  BY <1>2 DEF Init, SyncsTyped
<1>7. WritersTyped
  BY <1>2, FS_EmptySet DEF Init, WritersTyped, IsRows
<1>6. RestTyped
  <2>1. exchange = NoRows /\ unlocked \in BOOLEAN /\ failures = 0
    BY DEF Init
  <2>2. failures \in 0..MaxFailures
    BY <1>1, <2>1
  <2>3. IsQuantities(exchange)
    BY <1>2, <2>1, Zenon
  <2> QED
    BY <2>1, <2>2, <2>3 DEF RestTyped
<1> QED
  BY <1>3, <1>4, <1>5, <1>6, <1>7 DEF TypesInv

LEMMA FailCounts == RestTyped /\ Fail => failures' \in 0..MaxFailures
<1>1. MaxFailures \in Nat
  BY MirrorAssumption, Zenon
<1> QED
  BY <1>1 DEF RestTyped, Fail

LEMMA NoQuantities ==
  IsQuantities(NoRows) /\ IsRows(NoRows) /\ DOMAIN NoRows = {} /\ IsFiniteSet(DOMAIN NoRows)
BY FS_EmptySet DEF IsQuantities, IsRows, NoRows

(* Saving rows keeps quantities natural.                                   *)
LEMMA SavedQuantities ==
  ASSUME NEW f, IsQuantities(f), NEW g, IsQuantities(g)
  PROVE  IsQuantities(Saved(f, g))
BY DEF IsQuantities, Saved

(* So does deleting.                                                       *)
LEMMA WithoutQuantities ==
  ASSUME NEW f, IsQuantities(f), NEW S
  PROVE  IsQuantities(Without(f, S))
BY DEF IsQuantities, Without, Restrict

(* What a request that may be made looks like.                             *)
LEMMA RequestTyped ==
  ASSUME NEW r \in Requests
  PROVE  /\ r \in Request /\ r.op \in {"create", "batch", "delete"} /\ r.ids \subseteq Ids
         /\ r.op = "create" => Len(r.orders) = 1
         /\ r.orders \in Seq(NewOrder) /\ DOMAIN r.orders = 1..Len(r.orders)
         /\ Len(r.orders) \in Nat
         /\ \A i \in DOMAIN r.orders : r.orders[i] \in NewOrder
<1>1. r \in Request /\ (r.op = "create" => Len(r.orders) = 1)
  BY MirrorAssumption, Zenon
<1>2. r.orders \in Seq(NewOrder) /\ r.op \in {"create", "batch", "delete"} /\ r.ids \subseteq Ids
  BY <1>1 DEF Request
<1>3. \A i \in DOMAIN r.orders : r.orders[i] \in NewOrder
  BY <1>2
<1> QED
  BY <1>1, <1>2, <1>3

(* New rows: each order asked for has one, with an identifier that neither *)
(* a row of the table nor a deleted one has.                               *)
LEMMA NewRowsTyped ==
  ASSUME NEW new \in Seq(NewOrder), NEW ids \in FreshIds(Len(new))
  PROVE  /\ ids \in [1..Len(new) -> Ids \ (DOMAIN local \cup deleted)]
         /\ \A i, j \in 1..Len(new) : ids[i] = ids[j] => i = j
         /\ DOMAIN NewRows(ids, new) = {ids[i] : i \in 1..Len(new)}
         /\ \A i \in 1..Len(new) :
              /\ NewRows(ids, new)[ids[i]].kind = new[i].kind
              /\ NewRows(ids, new)[ids[i]].quantity = new[i].quantity
         /\ IsRows(NewRows(ids, new)) /\ IsFiniteSet(DOMAIN NewRows(ids, new))
<1> DEFINE n == Len(new)
           index(o) == CHOOSE i \in DOMAIN new : ids[i] = o
           rows == NewRows(ids, new)
<1>1. n \in Nat /\ DOMAIN new = 1..n /\ \A i \in 1..n : new[i] \in NewOrder
  OBVIOUS
<1>2. ids \in [1..n -> Ids \ (DOMAIN local \cup deleted)] /\ IsInjective(ids)
  BY DEF FreshIds
<1>3. \A i, j \in 1..n : ids[i] = ids[j] => i = j
  BY <1>2 DEF IsInjective
<1>4. Range(ids) = {ids[i] : i \in 1..n}
  BY <1>2 DEF Range
<1>5. /\ DOMAIN rows = Range(ids)
      /\ \A o \in Range(ids) : rows[o] = [kind |-> new[index(o)].kind,
                                         quantity |-> new[index(o)].quantity, open |-> TRUE]
  BY DEF NewRows
<1> HIDE DEF rows
<1>6. ASSUME NEW i \in 1..n PROVE index(ids[i]) = i
  <2>1. i \in DOMAIN new /\ \A j \in DOMAIN new : ids[j] = ids[i] => j = i
    BY <1>1, <1>3
  <2> QED
    BY <2>1
<1> HIDE DEF index, n
<1>7. ASSUME NEW i \in 1..n
      PROVE  rows[ids[i]] = [kind |-> new[i].kind, quantity |-> new[i].quantity, open |-> TRUE]
  <2>1. ids[i] \in Range(ids)
    BY <1>4
  <2> QED
    BY <1>5, <1>6, <2>1
<1>8. ASSUME NEW i \in 1..n
      PROVE  /\ rows[ids[i]].kind = new[i].kind /\ rows[ids[i]].quantity = new[i].quantity
             /\ rows[ids[i]] \in OrderRow
  <2>1. new[i].kind \in Kinds /\ new[i].quantity \in Nat \ {0}
    BY <1>1 DEF NewOrder
  <2> DEFINE r == [kind |-> new[i].kind, quantity |-> new[i].quantity, open |-> TRUE]
  <2>2. r \in OrderRow /\ r.kind = new[i].kind /\ r.quantity = new[i].quantity
    BY <2>1 DEF OrderRow
  <2>3. rows[ids[i]] = r
    BY <1>7
  <2> HIDE DEF r
  <2> QED
    BY <2>2, <2>3
<1>9. IsFiniteSet(Range(ids))
  <2>1. 1 \in Int /\ n \in Int
    BY <1>1
  <2>2. IsFiniteSet(1..n)
    BY <2>1, FS_Interval, Zenon
  <2>3. ids \in Surjection(1..n, Range(ids))
    BY <1>2, <1>4 DEF Surjection
  <2> QED
    BY <2>2, <2>3, FS_Surjection
<1>10. IsRows(rows)
  BY <1>2, <1>4, <1>5, <1>8 DEF IsRows
<1> QED
  BY <1>2, <1>3, <1>4, <1>5, <1>8, <1>9, <1>10 DEF rows, n

(* The rows a call inserts, and what it mirrors of them.                   *)
LEMMA InsertedRows ==
  ASSUME CallsTyped, NEW c \in Calls, Insert(c)
  PROVE  /\ request[c].orders \in Seq(NewOrder)
         /\ \E ids \in FreshIds(Len(request[c].orders)) :
              /\ local' = Saved(local, NewRows(ids, request[c].orders))
              /\ sent' = [sent EXCEPT ![c] = Quantities(NewRows(ids, request[c].orders))]
              /\ Adds(request[c].orders)
<1> DEFINE new == request[c].orders
           ids == CHOOSE i \in FreshIds(Len(new)) : TRUE
<1>1. /\ local' = Saved(local, NewRows(ids, new)) /\ Adds(new)
      /\ sent' = [sent EXCEPT ![c] = Quantities(NewRows(ids, new))]
  BY DEF Insert
<1>2. ids \in FreshIds(Len(new))
  BY DEF Insert
<1>3. request[c] \in Requests
  BY DEF Insert, CallsTyped
<1>4. new \in Seq(NewOrder)
  BY <1>3, RequestTyped
<1> HIDE DEF ids
<1> QED
  BY <1>1, <1>2, <1>4

(* The rows of the counter orders of a run of the job.                     *)
LEMMA CounterRows ==
  ASSUME NEW w \in Writers, SaveNewOrders(w)
  PROVE  \E new \in Seq(NewOrder) : \E ids \in FreshIds(Len(new)) :
           local' = Saved(local, NewRows(ids, new)) /\ Adds(new)
<1>1. PICK new \in Counters :
         /\ FreshIds(Len(new)) # {} /\ Adds(new)
         /\ local' = Saved(local, NewRows(CHOOSE i \in FreshIds(Len(new)) : TRUE, new))
  BY DEF SaveNewOrders
<1>2. new \in Seq(NewOrder)
  BY MirrorAssumption
<1>3. (CHOOSE i \in FreshIds(Len(new)) : TRUE) \in FreshIds(Len(new))
  BY <1>1
<1> QED
  BY <1>1, <1>2, <1>3

(* Saving rows, and the quantities of rows.                                *)
LEMMA SavedRows ==
  ASSUME NEW f, IsRows(f), IsFiniteSet(DOMAIN f), NEW g, IsRows(g), IsFiniteSet(DOMAIN g)
  PROVE  IsRows(Saved(f, g)) /\ IsFiniteSet(DOMAIN Saved(f, g))
<1>1. DOMAIN Saved(f, g) = DOMAIN f \cup DOMAIN g
  BY DEF Saved
<1>2. IsFiniteSet(DOMAIN Saved(f, g))
  BY <1>1, FS_Union
<1> QED
  BY <1>1, <1>2 DEF IsRows, Saved

LEMMA QuantitiesTyped ==
  ASSUME NEW f, IsRows(f)
  PROVE  /\ IsQuantities(Quantities(f)) /\ DOMAIN Quantities(f) = DOMAIN f
         /\ \A o \in DOMAIN f : Quantities(f)[o] = f[o].quantity
BY DEF IsRows, IsQuantities, Quantities, OrderRow

LEMMA CallsKeepTypes ==
  ASSUME TypesInv, NEW c \in Calls, Receive(c) \/ CallStep(c)
  PROVE  TypesInv'
<1> USE DEF TypesInv
<1>0. ASSUME UNCHANGED syncVars PROVE SyncsTyped'
  BY <1>0 DEF SyncsTyped, syncVars
<1>w. ASSUME UNCHANGED <<writerVars, overwritten>> PROVE WritersTyped'
  BY <1>w DEF WritersTyped, writerVars
<1>r. ASSUME UNCHANGED <<exchange, unlocked, failures>> PROVE RestTyped'
  BY <1>r DEF RestTyped
<1>n. ASSUME Returns(c) PROVE CallsTyped'
  BY <1>n, NoQuantities DEF Returns, CallsTyped, CallPlaces
<1>1. CASE Receive(c)
  <2>1. PICK r \in Requests : request' = [request EXCEPT ![c] = r] /\ pc' = [pc EXCEPT ![c] = FirstStep[r.op]]
    BY <1>1 DEF Receive
  <2>2. r \in Request /\ r.op \in {"create", "batch", "delete"}
    BY RequestTyped
  <2>3. FirstStep[r.op] \in {"read", "insert", "remove"} /\ (FirstStep[r.op] = "read" => r.op = "create")
    BY <2>2
  <2>4. UNCHANGED <<local, exchange, unlocked, sent, syncVars, writerVars, overwritten, failures>>
    BY <1>1 DEF Receive, history
  <2>5. CallsTyped'
    BY <2>1, <2>2, <2>3, <2>4 DEF CallsTyped, CallPlaces
  <2> QED
    BY <1>0, <1>r, <1>w, <2>4, <2>5 DEF LocalTyped, history
<1>2. CASE ReadBook(c)
  <2>1. UNCHANGED <<local, exchange, unlocked, request, syncVars, writerVars, overwritten, failures>> /\ pc[c] = "read"
    BY <1>2 DEF ReadBook, history
  <2>2. CASE pc' = [pc EXCEPT ![c] = "insert"] /\ UNCHANGED sent
    <3>1. CallsTyped'
      BY <2>1, <2>2 DEF CallsTyped, CallPlaces
    <3> QED
      BY <1>0, <1>r, <1>w, <2>1, <3>1 DEF LocalTyped, history
  <2>3. CASE pc' = [pc EXCEPT ![c] = "merge"]
             /\ \E o \in DOMAIN local : sent' = [sent EXCEPT ![c] = Row(o, local[o].quantity)]
    <3>1. PICK o \in DOMAIN local : sent' = [sent EXCEPT ![c] = Row(o, local[o].quantity)]
      BY <2>3
    <3>2. o \in Ids /\ local[o].quantity \in Nat \ {0}
      BY DEF LocalTyped, IsRows, OrderRow
    <3>3. IsQuantities(Row(o, local[o].quantity)) /\ DOMAIN Row(o, local[o].quantity) = {o}
      BY <3>2 DEF IsQuantities, Row
    <3>4. CallsTyped'
      BY <2>1, <2>3, <3>1, <3>2, <3>3 DEF CallsTyped, CallPlaces
    <3> QED
      BY <1>0, <1>r, <1>w, <2>1, <3>4 DEF LocalTyped, history
  <2> QED
    BY <1>2, <2>2, <2>3 DEF ReadBook, Mergeable
<1>3. CASE Merge(c)
  <2>1. /\ pc[c] = "merge" /\ pc' = [pc EXCEPT ![c] = "mirror"]
        /\ UNCHANGED <<exchange, unlocked, request, syncVars, writerVars, failures>>
    BY <1>3 DEF Merge
  <2>2. PICK o \in DOMAIN sent[c] : /\ local' = Updated(local, o, Merged(c, o))
                                   /\ sent' = [sent EXCEPT ![c] = Row(o, Merged(c, o))]
    BY <1>3 DEF Merge
  <2>3. request[c] \in Requests /\ request[c].op = "create" /\ sent[c][o] \in Nat \ {0} /\ o \in Ids
    BY <2>1 DEF CallsTyped, IsQuantities
  <2>4. request[c].orders[1] \in NewOrder
    BY <2>3, RequestTyped
  <2>5. Merged(c, o) \in Nat \ {0}
    BY <2>3, <2>4 DEF Merged, NewOrder
  <2>6. LocalTyped'
    BY <2>2, <2>5 DEF LocalTyped, IsRows, Updated, OrderRow
  <2>7. IsQuantities(Row(o, Merged(c, o)))
    BY <2>3, <2>5 DEF IsQuantities, Row
  <2>8. CallsTyped'
    BY <2>1, <2>2, <2>7 DEF CallsTyped, CallPlaces
  <2>9. WritersTyped'
    <3>1. request[c].orders[1].kind \in Kinds
      BY <2>4 DEF NewOrder
    <3>2. overwritten' \subseteq overwritten \cup {request[c].orders[1].kind} /\ UNCHANGED writerVars
      BY <1>3 DEF Merge
    <3> QED
      BY <3>1, <3>2 DEF WritersTyped, writerVars
  <2> QED
    BY <1>0, <1>r, <2>1, <2>6, <2>8, <2>9
<1>4. CASE Insert(c)
  <2> DEFINE new == request[c].orders
  <2>1. PICK ids \in FreshIds(Len(new)) :
           /\ local' = Saved(local, NewRows(ids, new))
           /\ sent' = [sent EXCEPT ![c] = Quantities(NewRows(ids, new))]
    BY <1>4, InsertedRows
  <2>2. new \in Seq(NewOrder)
    BY <1>4, InsertedRows
  <2>3. IsRows(NewRows(ids, new)) /\ IsFiniteSet(DOMAIN NewRows(ids, new))
    BY <2>2, NewRowsTyped
  <2> HIDE DEF new
  <2>4. LocalTyped'
    BY <2>1, <2>3, SavedRows DEF LocalTyped, history
  <2>5. IsQuantities(Quantities(NewRows(ids, new)))
    BY <2>3, QuantitiesTyped
  <2>6. pc[c] = "insert" /\ pc' = [pc EXCEPT ![c] = "mirror"]
         /\ UNCHANGED <<exchange, unlocked, request, syncVars, writerVars, overwritten, failures>>
    BY <1>4 DEF Insert
  <2>7. CallsTyped'
    BY <2>1, <2>5, <2>6 DEF CallsTyped, CallPlaces
  <2> QED
    BY <1>0, <1>r, <1>w, <2>4, <2>6, <2>7
<1>5. CASE Mirror(c)
  <2>1. IsQuantities(sent[c]) /\ IsQuantities(exchange)
    BY DEF CallsTyped, RestTyped
  <2>2. RestTyped'
    BY <1>5, <2>1, SavedQuantities DEF Mirror, RestTyped
  <2> QED
    BY <1>0, <1>n, <1>w, <1>5, <2>2 DEF Mirror, LocalTyped, history
<1>6. CASE DeleteLocal(c)
  <2>1. pc[c] = "remove" /\ pc' = [pc EXCEPT ![c] = "unmirror"] /\ local' = Without(local, request[c].ids)
        /\ UNCHANGED <<exchange, unlocked, request, sent, syncVars, writerVars, overwritten, failures>>
    BY <1>6 DEF DeleteLocal
  <2>2. LocalTyped'
    BY <2>1, FS_Subset DEF LocalTyped, IsRows, Without, Restrict
  <2>3. CallsTyped'
    BY <2>1 DEF CallsTyped, CallPlaces
  <2> QED
    BY <1>0, <1>r, <1>w, <2>1, <2>2, <2>3
<1>7. CASE MirrorDelete(c)
  <2>1. RestTyped'
    BY <1>7, WithoutQuantities DEF MirrorDelete, RestTyped
  <2> QED
    BY <1>0, <1>n, <1>w, <1>7, <2>1 DEF MirrorDelete, LocalTyped, history
<1>8. CASE CallFails(c)
  <2>1. RestTyped'
    BY <1>8, FailCounts DEF CallFails, RestTyped
  <2> QED
    BY <1>0, <1>n, <1>w, <1>8, <2>1 DEF CallFails, LocalTyped, history
<1> QED
  BY <1>1, <1>2, <1>3, <1>4, <1>5, <1>6, <1>7, <1>8 DEF CallStep

LEMMA SyncsKeepTypes ==
  ASSUME TypesInv, NEW s \in Syncs, SyncStep(s)
  PROVE  TypesInv'
<1> USE DEF TypesInv
<1>0. ASSUME UNCHANGED callVars PROVE CallsTyped'
  BY <1>0 DEF CallsTyped, callVars
<1>w. ASSUME UNCHANGED <<writerVars, overwritten>> PROVE WritersTyped'
  BY <1>w DEF WritersTyped, writerVars
<1>r. ASSUME UNCHANGED <<exchange, unlocked, failures>> PROVE RestTyped'
  BY <1>r DEF RestTyped
<1>n. ASSUME SyncReturns(s) PROVE SyncsTyped'
  BY <1>n, NoQuantities DEF SyncReturns, SyncsTyped
<1>1. CASE ListLocal(s)
  <2>1. IsQuantities(Quantities(local))
    BY QuantitiesTyped DEF LocalTyped
  <2>2. SyncsTyped'
    BY <1>1, <2>1 DEF ListLocal, SyncsTyped
  <2> QED
    BY <1>0, <1>r, <1>w, <1>1, <2>2 DEF ListLocal, LocalTyped, history
<1>2. CASE ListExchange(s)
  <2>1. UNCHANGED <<local, exchange, unlocked, callVars, writerVars, overwritten, failures>>
    BY <1>2 DEF ListExchange, history
  <2>2. CASE SyncReturns(s)
    BY <1>0, <1>r, <1>w, <1>n, <2>1, <2>2 DEF LocalTyped, history
  <2>3. CASE ~SyncReturns(s)
    <3>1. /\ stale' = [stale EXCEPT ![s] = ToDelete(s)] /\ UNCHANGED listed
          /\ spc' = [spc EXCEPT ![s] = IF DOMAIN listed[s] = {} THEN "delete" ELSE "create"]
      BY <1>2, <2>3 DEF ListExchange
    <3>2. ToDelete(s) \subseteq Ids /\ DOMAIN listed[s] \cap ToDelete(s) = {}
      BY DEF ToDelete, RestTyped, IsQuantities
    <3>3. SyncsTyped'
      BY <3>1, <3>2 DEF SyncsTyped
    <3> QED
      BY <1>0, <1>r, <1>w, <2>1, <3>3 DEF LocalTyped, history
  <2> QED
    BY <2>2, <2>3
<1>3. CASE SyncCreate(s)
  <2>1. IsQuantities(exchange) /\ IsQuantities(listed[s])
    BY DEF SyncsTyped, RestTyped
  <2>2. RestTyped'
    BY <1>3, <2>1, SavedQuantities DEF SyncCreate, RestTyped
  <2>3. SyncReturns(s) \/ (spc[s] = "create" /\ spc' = [spc EXCEPT ![s] = "delete"] /\ UNCHANGED <<listed, stale>>)
    BY <1>3 DEF SyncCreate
  <2>4. SyncsTyped'
    BY <1>n, <2>3 DEF SyncsTyped
  <2> QED
    BY <1>0, <1>w, <1>3, <2>2, <2>4 DEF SyncCreate, LocalTyped, history
<1>4. CASE SyncDelete(s)
  <2>1. RestTyped'
    BY <1>4, WithoutQuantities DEF SyncDelete, RestTyped
  <2> QED
    BY <1>0, <1>n, <1>w, <1>4, <2>1 DEF SyncDelete, LocalTyped, history
<1>5. CASE SyncFails(s)
  <2>1. RestTyped'
    BY <1>5, FailCounts DEF SyncFails, RestTyped
  <2> QED
    BY <1>0, <1>n, <1>w, <1>5, <2>1 DEF SyncFails, LocalTyped, history
<1> QED
  BY <1>1, <1>2, <1>3, <1>4, <1>5 DEF SyncStep

LEMMA WritersKeepTypes ==
  ASSUME TypesInv, NEW w \in Writers, WriterStep(w)
  PROVE  TypesInv'
<1> USE DEF TypesInv
<1>0. UNCHANGED <<exchange, unlocked, callVars, syncVars, failures>>
  BY DEF WriterStep, Load, Save, SaveNewOrders, WriterReturns
<1>1. CallsTyped' /\ SyncsTyped' /\ RestTyped'
  BY <1>0 DEF CallsTyped, SyncsTyped, RestTyped, callVars, syncVars
<1>2. CASE \E o \in Ids : Load(w, o)
  <2>1. PICK o \in Ids : Load(w, o)
    BY <1>2
  <2>2. o \in DOMAIN local /\ loaded' = [loaded EXCEPT ![w] = Saved(@, Row(o, local[o]))]
    BY <2>1 DEF Load
  <2>3. IsRows(Row(o, local[o])) /\ IsFiniteSet(DOMAIN Row(o, local[o]))
    <3>1. DOMAIN Row(o, local[o]) = {o} /\ Row(o, local[o])[o] = local[o]
      BY RowApply
    <3>2. local[o] \in OrderRow /\ o \in Ids /\ IsFiniteSet({o})
      BY <2>2, FS_Singleton DEF IsRows, LocalTyped
    <3> QED
      BY <3>1, <3>2 DEF IsRows
  <2>4. IsRows(Saved(loaded[w], Row(o, local[o]))) /\ IsFiniteSet(DOMAIN Saved(loaded[w], Row(o, local[o])))
    BY <2>3, SavedRows DEF WritersTyped
  <2>5. WritersTyped'
    BY <2>1, <2>2, <2>4 DEF Load, WritersTyped, history
  <2> QED
    BY <1>1, <2>1, <2>5 DEF Load, LocalTyped
<1>3. CASE Save(w)
  <2>1. PICK full \in SUBSET DOMAIN loaded[w] :
          local' = Saved(local, [o \in DOMAIN loaded[w] |->
                     IF o \in full THEN Close(loaded[w][o]) ELSE loaded[w][o]])
    BY <1>3 DEF Save
  <2> DEFINE rows == [o \in DOMAIN loaded[w] |->
                        IF o \in full THEN Close(loaded[w][o]) ELSE loaded[w][o]]
  <2>2. IsRows(rows) /\ IsFiniteSet(DOMAIN rows)
    BY DEF WritersTyped, IsRows, Close, OrderRow
  <2>3. local' = Saved(local, rows)
    BY <2>1
  <2> HIDE DEF rows
  <2>4. LocalTyped'
    BY <2>2, <2>3, SavedRows DEF LocalTyped
  <2>5. \A o \in DOMAIN loaded[w] : loaded[w][o].kind \in Kinds
    BY DEF WritersTyped, IsRows, OrderRow
  <2>6. overwritten' \subseteq Kinds
    BY <1>3, <2>5 DEF Save, WritersTyped
  <2>7. WritersTyped'
    BY <1>3, <2>6, NoQuantities DEF Save, WritersTyped
  <2> QED
    BY <1>1, <2>4, <2>7
<1>4. CASE SaveNewOrders(w)
  <2>1. PICK new \in Seq(NewOrder) : \E ids \in FreshIds(Len(new)) : local' = Saved(local, NewRows(ids, new))
    BY <1>4, CounterRows
  <2>2. PICK ids \in FreshIds(Len(new)) : local' = Saved(local, NewRows(ids, new))
    BY <2>1
  <2>3. LocalTyped'
    BY <2>2, NewRowsTyped, SavedRows DEF LocalTyped
  <2>4. WritersTyped'
    BY <1>4 DEF SaveNewOrders, WritersTyped
  <2> QED
    BY <1>1, <2>3, <2>4
<1>5. CASE WriterReturns(w)
  <2>1. WritersTyped'
    BY <1>5, NoQuantities DEF WriterReturns, WritersTyped, history
  <2> QED
    BY <1>1, <1>5, <2>1 DEF WriterReturns, LocalTyped
<1> QED
  BY <1>2, <1>3, <1>4, <1>5 DEF WriterStep

LEMMA TypesNext == TypesInv /\ [Next]_vars => TypesInv'
<1> SUFFICES ASSUME TypesInv, [Next]_vars PROVE TypesInv'
  OBVIOUS
<1> USE DEF TypesInv
<1>1. CASE \E c \in Calls : Receive(c) \/ CallStep(c)
  BY <1>1, CallsKeepTypes
<1>2. CASE \E s \in Syncs : SyncStep(s)
  BY <1>2, SyncsKeepTypes
<1>3. CASE \E w \in Writers : WriterStep(w)
  BY <1>3, WritersKeepTypes
<1>4. CASE Restart
  <2>1. RestTyped'
    BY <1>4, FailCounts DEF Restart, RestTyped
  <2>2. CallsTyped'
    BY <1>4, NoQuantities DEF Restart, CallsTyped, CallPlaces
  <2>3. SyncsTyped'
    BY <1>4, NoQuantities DEF Restart, SyncsTyped
  <2>4. WritersTyped'
    BY <1>4, NoQuantities DEF Restart, WritersTyped, history
  <2> QED
    BY <1>4, <2>1, <2>2, <2>3, <2>4 DEF Restart, LocalTyped, history
<1>5. CASE Unlock \/ Logout \/ UNCHANGED vars
  BY <1>5 DEF Unlock, Logout, vars, callVars, syncVars, writerVars, history, LocalTyped, CallsTyped,
     SyncsTyped, WritersTyped, RestTyped
<1> QED
  BY <1>1, <1>2, <1>3, <1>4, <1>5 DEF Next

LEMMA TypesInvariant == Spec => []TypesInv
BY TypesInit, TypesNext, PTL DEF Spec

(* Every variable holds what the code can put there, for any number of     *)
(* calls and syncs at a time (rune-orders.service.ts:33-58, 217-233).      *)
THEOREM MirrorTypeCorrect == Spec => []TypeOK
<1>1. TypesInv => TypeOK
  BY DEF TypesInv, LocalTyped, CallsTyped, SyncsTyped, WritersTyped, RestTyped, CallPlaces, TypeOK
<1> QED
  BY <1>1, TypesInvariant, PTL

-------------------------------------------------------------------------------
(* An identifier that is anywhere is in the table or was deleted, so that  *)
(* no new order inherits an old quantity.                                  *)
Known(f) == DOMAIN f \subseteq DOMAIN local \cup deleted

KnownInv ==
  /\ Known(exchange)
  /\ \A c \in Calls : Known(sent[c])
  /\ \A s \in Syncs : Known(listed[s])
  /\ \A w \in Writers : Known(loaded[w])

(* Everybody who knows an order knows it by the same kind: a row that is   *)
(* inserted again after its deletion is of the kind it was.                *)
HasKind(o, k) ==
  \/ o \in DOMAIN local /\ local[o].kind = k
  \/ \E w \in Writers : o \in DOMAIN loaded[w] /\ loaded[w][o].kind = k
  \/ \E c \in Calls : pc[c] = "merge" /\ o \in DOMAIN sent[c] /\ request[c].orders[1].kind = k

KindInv == \A o \in Ids : \A k, l : HasKind(o, k) /\ HasKind(o, l) => k = l

(* What is on its way to the exchange, and what is there, is no more than  *)
(* the table has.                                                          *)
AtMostLocal(f) ==
  \A o \in DOMAIN f \cap DOMAIN local :
    local[o].kind \notin overwritten => f[o] =< local[o].quantity

BoundInv ==
  /\ AtMostLocal(exchange)
  /\ \A s \in Syncs : AtMostLocal(listed[s])
  /\ \A c \in Calls : AtMostLocal(sent[c])

BookInv == KnownInv /\ KindInv /\ BoundInv

LEMMA InitBook == Init => BookInv
BY DEF Init, BookInv, KnownInv, KindInv, HasKind, BoundInv, Known, AtMostLocal, NoRows

New(o) == o \notin DOMAIN local \cup deleted

(* A step that gives orders no other kind than the one they have.          *)
LEMMA KindsKept ==
  ASSUME KnownInv, KindInv,
         \A o \in Ids : \A k : HasKind(o, k)' => HasKind(o, k) \/ (New(o) /\ k = local'[o].kind)
  PROVE  KindInv'
<1>1. ASSUME NEW o \in Ids, New(o), NEW k PROVE ~HasKind(o, k)
  BY <1>1 DEF New, KnownInv, Known, HasKind
<1> SUFFICES ASSUME NEW o \in Ids, NEW k, NEW l, HasKind(o, k)', HasKind(o, l)'
             PROVE  k = l
  BY DEF KindInv
<1>2. CASE New(o)
  BY <1>1, <1>2
<1>3. CASE ~New(o)
  BY <1>3 DEF KindInv
<1> QED
  BY <1>2, <1>3

(* A step after which an order has at least what it had, or is new, or is  *)
(* of a kind with a quantity that was written over.                        *)
Grows ==
  \A o \in DOMAIN local' : local'[o].kind \notin overwritten' =>
    \/ New(o)
    \/ /\ o \in DOMAIN local /\ local[o].kind \notin overwritten
       /\ local'[o].quantity >= local[o].quantity

Bounded(f) ==
  \A o \in DOMAIN f \cap DOMAIN local' :
    local'[o].kind \notin overwritten' => f[o] =< local'[o].quantity

LEMMA BoundKept ==
  ASSUME TypesInv, LocalTyped', Grows, NEW f, IsQuantities(f), Known(f), AtMostLocal(f)
  PROVE  Bounded(f)
<1> SUFFICES ASSUME NEW o \in DOMAIN f \cap DOMAIN local', local'[o].kind \notin overwritten'
             PROVE  f[o] =< local'[o].quantity
  BY DEF Bounded
<1>1. /\ o \in DOMAIN local /\ local[o].kind \notin overwritten
      /\ local'[o].quantity >= local[o].quantity
  BY DEF Grows, Known, New
<1>2. f[o] \in Nat /\ local[o].quantity \in Nat /\ local'[o].quantity \in Nat
  BY <1>1 DEF TypesInv, LocalTyped, IsRows, OrderRow, IsQuantities
<1>3. f[o] =< local[o].quantity
  BY <1>1 DEF AtMostLocal
<1> QED
  BY <1>1, <1>2, <1>3

LEMMA AllBounded ==
  ASSUME TypesInv, LocalTyped', BookInv, Grows
  PROVE  /\ Bounded(exchange)
         /\ \A s \in Syncs : Bounded(listed[s])
         /\ \A c \in Calls : Bounded(sent[c])
<1>1. Bounded(exchange)
  BY BoundKept DEF TypesInv, RestTyped, BookInv, KnownInv, BoundInv
<1>2. ASSUME NEW s \in Syncs PROVE Bounded(listed[s])
  BY BoundKept DEF TypesInv, SyncsTyped, BookInv, KnownInv, BoundInv
<1>3. ASSUME NEW c \in Calls PROVE Bounded(sent[c])
  BY BoundKept DEF TypesInv, CallsTyped, BookInv, KnownInv, BoundInv
<1> QED
  BY <1>1, <1>2, <1>3

(* A step that leaves the table alone.                                     *)
LEMMA SameGrows ==
  ASSUME TypesInv, UNCHANGED <<local, overwritten>>
  PROVE  Grows
<1>1. \A o \in DOMAIN local : local[o].quantity \in Nat
  BY DEF TypesInv, LocalTyped, IsRows, OrderRow
<1> QED
  BY <1>1 DEF Grows

(* New rows, saved beside the others.                                      *)
LEMMA NewRowsSaved ==
  ASSUME TypesInv, NEW new \in Seq(NewOrder), NEW ids \in FreshIds(Len(new)),
         local' = Saved(local, NewRows(ids, new)), UNCHANGED overwritten
  PROVE  /\ Grows
         /\ DOMAIN local' = DOMAIN local \cup DOMAIN NewRows(ids, new)
         /\ \A o \in DOMAIN local : local'[o] = local[o]
         /\ \A o \in DOMAIN NewRows(ids, new) : New(o) /\ local'[o] = NewRows(ids, new)[o]
<1> DEFINE rows == NewRows(ids, new)
<1>1. \A o \in DOMAIN rows : New(o)
  <2>1. DOMAIN rows = {ids[i] : i \in 1..Len(new)}
    BY NewRowsTyped
  <2>2. ids \in [1..Len(new) -> Ids \ (DOMAIN local \cup deleted)]
    BY NewRowsTyped
  <2> HIDE DEF rows
  <2> QED
    BY <2>1, <2>2 DEF New
<1> HIDE DEF rows
<1>2. local' = Saved(local, rows)
  BY DEF rows
<1>3. /\ DOMAIN local' = DOMAIN local \cup DOMAIN rows
      /\ \A o \in DOMAIN local : local'[o] = local[o]
      /\ \A o \in DOMAIN rows : local'[o] = rows[o]
  BY <1>1, <1>2 DEF Saved, New
<1>4. \A o \in DOMAIN local : local[o].quantity \in Nat
  BY DEF TypesInv, LocalTyped, IsRows, OrderRow
<1>5. Grows
  BY <1>1, <1>3, <1>4 DEF Grows
<1> QED
  BY <1>1, <1>3, <1>5 DEF rows

(* The kind of a row a merge finds, and of what it adds.                   *)
LEMMA MergeFacts ==
  ASSUME TypesInv, KindInv, NEW c \in Calls, Merge(c)
  PROVE  \E o \in DOMAIN sent[c] :
           /\ o \in Ids /\ sent[c][o] \in Nat
           /\ request[c] \in Requests /\ Len(request[c].orders) = 1
           /\ request[c].orders[1].kind \in Kinds /\ request[c].orders[1].quantity \in Nat
           /\ o \in DOMAIN local => local[o].kind = request[c].orders[1].kind
           /\ sent' = [sent EXCEPT ![c] = Row(o, Merged(c, o))]
           /\ DOMAIN local' = DOMAIN local
           /\ \A q \in DOMAIN local \ {o} : local'[q] = local[q]
           /\ o \in DOMAIN local => /\ local'[o].kind = local[o].kind
                                    /\ local'[o].quantity = Merged(c, o)
           /\ overwritten' = IF Overwrites(o, sent[c][o])
                             THEN overwritten \cup {request[c].orders[1].kind} ELSE overwritten
<1>1. PICK o \in DOMAIN sent[c] :
         /\ local' = Updated(local, o, Merged(c, o))
         /\ sent' = [sent EXCEPT ![c] = Row(o, Merged(c, o))]
         /\ overwritten' = IF Overwrites(o, sent[c][o])
                           THEN overwritten \cup {request[c].orders[1].kind} ELSE overwritten
  BY DEF Merge
<1>2. pc[c] = "merge" /\ o \in Ids /\ sent[c][o] \in Nat
      /\ request[c] \in Requests /\ request[c].op = "create"
  BY DEF Merge, TypesInv, CallsTyped, IsQuantities
<1>3. Len(request[c].orders) = 1 /\ request[c].orders[1] \in NewOrder
  BY <1>2, RequestTyped
<1>4. request[c].orders[1].kind \in Kinds /\ request[c].orders[1].quantity \in Nat
  BY <1>3 DEF NewOrder
<1>5. o \in DOMAIN local => local[o].kind = request[c].orders[1].kind
  BY <1>2 DEF KindInv, HasKind
<1>6. \A q \in DOMAIN local : local[q] \in OrderRow
  BY DEF TypesInv, LocalTyped, IsRows
<1>7. /\ DOMAIN local' = DOMAIN local
      /\ \A q \in DOMAIN local \ {o} : local'[q] = local[q]
      /\ o \in DOMAIN local => local'[o] = [local[o] EXCEPT !.quantity = Merged(c, o)]
  BY <1>1 DEF Updated
<1>8. o \in DOMAIN local => local'[o].kind = local[o].kind /\ local'[o].quantity = Merged(c, o)
  BY <1>6, <1>7 DEF OrderRow
<1> QED
  BY <1>1, <1>2, <1>3, <1>4, <1>5, <1>7, <1>8

LEMMA CallStepsKeepBook ==
  ASSUME TypesInv, TypesInv', BookInv, NEW c \in Calls, Receive(c) \/ CallStep(c)
  PROVE  BookInv'
<1> USE DEF BookInv
<1>t. LocalTyped' /\ DOMAIN sent = Calls /\ DOMAIN pc = Calls /\ DOMAIN request = Calls
  BY DEF TypesInv, CallsTyped
<1>l. ASSUME UNCHANGED <<local, overwritten>>
      PROVE  Bounded(exchange) /\ (\A s \in Syncs : Bounded(listed[s])) /\ (\A d \in Calls : Bounded(sent[d]))
  BY <1>l, <1>t, SameGrows, AllBounded
<1>n. DOMAIN NoRows = {}
  BY NoQuantities
<1>1. CASE Receive(c)
  <2>1. PICK r \in Requests : request' = [request EXCEPT ![c] = r] /\ pc' = [pc EXCEPT ![c] = FirstStep[r.op]]
    BY <1>1 DEF Receive
  <2>2. r.op \in {"create", "batch", "delete"}
    BY RequestTyped
  <2>3. pc'[c] # "merge" /\ \A d \in Calls \ {c} : pc'[d] = pc[d] /\ request'[d] = request[d]
    BY <2>1, <2>2, <1>t
  <2>4. UNCHANGED <<local, exchange, sent, listed, loaded, deleted, overwritten>>
    BY <1>1 DEF Receive, syncVars, writerVars, history
  <2>5. KindInv'
    BY <2>3, <2>4, KindsKept DEF HasKind
  <2>6. KnownInv' /\ BoundInv'
    BY <2>4 DEF KnownInv, Known, BoundInv, AtMostLocal
  <2> QED
    BY <2>5, <2>6
<1>2. CASE ReadBook(c)
  <2>1. UNCHANGED <<local, exchange, listed, loaded, deleted, overwritten, request>>
    BY <1>2 DEF ReadBook, syncVars, writerVars, history
  <2>2. \A d \in Calls \ {c} : pc'[d] = pc[d] /\ sent'[d] = sent[d]
    BY <1>2, <1>t DEF ReadBook
  <2>3. CASE UNCHANGED sent /\ pc'[c] # "merge"
    <3>1. KindInv'
      BY <2>1, <2>2, <2>3, KindsKept DEF HasKind
    <3>2. KnownInv' /\ BoundInv'
      BY <2>1, <2>3 DEF KnownInv, Known, BoundInv, AtMostLocal
    <3> QED
      BY <3>1, <3>2
  <2>4. CASE \E o \in Mergeable(request[c].orders[1].kind) :
               sent' = [sent EXCEPT ![c] = Row(o, local[o].quantity)]
    <3>1. PICK o \in Mergeable(request[c].orders[1].kind) :
               sent' = [sent EXCEPT ![c] = Row(o, local[o].quantity)]
      BY <2>4
    <3>2. DOMAIN sent'[c] = {o} /\ sent'[c][o] = local[o].quantity
      BY <3>1, <1>t, RowApply
    <3>3. o \in DOMAIN local /\ local[o].kind = request[c].orders[1].kind /\ local[o].quantity \in Nat
      BY DEF Mergeable, TypesInv, LocalTyped, IsRows, OrderRow
    <3>4. KindInv'
      BY <2>1, <2>2, <3>2, <3>3, KindsKept DEF HasKind
    <3>5. KnownInv'
      BY <2>1, <2>2, <3>2, <3>3 DEF KnownInv, Known
    <3>6. BoundInv'
      BY <2>1, <2>2, <3>2, <3>3 DEF BoundInv, AtMostLocal
    <3> QED
      BY <3>4, <3>5, <3>6
  <2> QED
    BY <1>2, <1>t, <2>3, <2>4 DEF ReadBook
<1>3. CASE Merge(c)
  <2>1. PICK o \in DOMAIN sent[c] :
           /\ o \in Ids /\ sent[c][o] \in Nat /\ request[c].orders[1].quantity \in Nat
           /\ o \in DOMAIN local => local[o].kind = request[c].orders[1].kind
           /\ sent' = [sent EXCEPT ![c] = Row(o, Merged(c, o))]
           /\ DOMAIN local' = DOMAIN local
           /\ \A q \in DOMAIN local \ {o} : local'[q] = local[q]
           /\ o \in DOMAIN local => /\ local'[o].kind = local[o].kind
                                    /\ local'[o].quantity = Merged(c, o)
           /\ overwritten' = IF Overwrites(o, sent[c][o])
                             THEN overwritten \cup {request[c].orders[1].kind} ELSE overwritten
    BY <1>3, MergeFacts
  <2>2. UNCHANGED <<exchange, listed, loaded, deleted, request>> /\ pc' = [pc EXCEPT ![c] = "mirror"]
    BY <1>3 DEF Merge, syncVars, writerVars
  <2>3. /\ DOMAIN sent'[c] = {o} /\ sent'[c][o] = Merged(c, o) /\ pc'[c] = "mirror"
        /\ \A d \in Calls \ {c} : sent'[d] = sent[d] /\ pc'[d] = pc[d]
    BY <1>t, <2>1, <2>2, RowApply
  <2>4. \A q \in DOMAIN local : local'[q].kind = local[q].kind
    BY <2>1
  <2>5. Grows
    <3> SUFFICES ASSUME NEW q \in DOMAIN local', local'[q].kind \notin overwritten'
                 PROVE  /\ q \in DOMAIN local /\ local[q].kind \notin overwritten
                        /\ local'[q].quantity >= local[q].quantity
      BY DEF Grows
    <3>1. q \in DOMAIN local /\ local[q].kind \notin overwritten /\ local[q].quantity \in Nat
      BY <2>1, <2>4 DEF TypesInv, LocalTyped, IsRows, OrderRow
    <3>2. CASE q = o
      <4>1. ~Overwrites(o, sent[c][o])
        BY <2>1, <3>1, <3>2
      <4>2. local[o].quantity = sent[c][o]
        BY <4>1 DEF Overwrites
      <4> QED
        BY <2>1, <3>1, <3>2, <4>2 DEF Merged
    <3>3. CASE q # o
      BY <2>1, <3>1, <3>3
    <3> QED
      BY <3>1, <3>2, <3>3
  <2>6. Bounded(exchange) /\ (\A s \in Syncs : Bounded(listed[s])) /\ \A d \in Calls : Bounded(sent[d])
    BY <1>t, <2>5, AllBounded
  <2>7. KindInv'
    BY <2>1, <2>2, <2>3, <2>4, KindsKept DEF HasKind
  <2>8. KnownInv'
    BY <2>1, <2>2, <2>3 DEF KnownInv, Known
  <2>9. BoundInv'
    <3>1. AtMostLocal(sent[c])'
      <4>1. Merged(c, o) \in Nat
        BY <2>1 DEF Merged
      <4> QED
        BY <2>1, <2>3, <4>1 DEF AtMostLocal
    <3> QED
      BY <2>2, <2>3, <2>6, <3>1 DEF BoundInv, AtMostLocal, Bounded
  <2> QED
    BY <2>7, <2>8, <2>9
<1>4. CASE Insert(c)
  <2> DEFINE new == request[c].orders
  <2>0. new \in Seq(NewOrder)
    BY <1>4, InsertedRows DEF TypesInv
  <2>1. PICK ids \in FreshIds(Len(new)) :
           /\ local' = Saved(local, NewRows(ids, new))
           /\ sent' = [sent EXCEPT ![c] = Quantities(NewRows(ids, new))]
    BY <1>4, InsertedRows DEF TypesInv
  <2>2. UNCHANGED <<exchange, listed, loaded, deleted, request, overwritten>> /\ pc' = [pc EXCEPT ![c] = "mirror"]
    BY <1>4 DEF Insert, syncVars, writerVars
  <2>3. IsRows(NewRows(ids, new))
    BY <2>0, NewRowsTyped
  <2>4. /\ Grows
        /\ DOMAIN local' = DOMAIN local \cup DOMAIN NewRows(ids, new)
        /\ \A o \in DOMAIN local : local'[o] = local[o]
        /\ \A o \in DOMAIN NewRows(ids, new) : New(o) /\ local'[o] = NewRows(ids, new)[o]
    BY <2>0, <2>1, <2>2, NewRowsSaved
  <2>5. /\ DOMAIN Quantities(NewRows(ids, new)) = DOMAIN NewRows(ids, new)
        /\ \A o \in DOMAIN NewRows(ids, new) :
             /\ Quantities(NewRows(ids, new))[o] = NewRows(ids, new)[o].quantity
             /\ NewRows(ids, new)[o].quantity \in Nat
    BY <2>3, QuantitiesTyped DEF IsRows, OrderRow
  <2> DEFINE rows == NewRows(ids, new)
             amounts == Quantities(NewRows(ids, new))
  <2>6. /\ sent'[c] = amounts /\ pc'[c] = "mirror"
        /\ \A d \in Calls \ {c} : sent'[d] = sent[d] /\ pc'[d] = pc[d]
    BY <1>t, <2>1, <2>2
  <2>7. Bounded(exchange) /\ (\A s \in Syncs : Bounded(listed[s])) /\ \A d \in Calls : Bounded(sent[d])
    BY <1>t, <2>4, AllBounded
  <2> HIDE DEF rows, amounts
  <2>8. /\ DOMAIN local' = DOMAIN local \cup DOMAIN rows /\ DOMAIN amounts = DOMAIN rows
        /\ \A o \in DOMAIN local : local'[o] = local[o]
        /\ \A o \in DOMAIN rows : /\ New(o) /\ amounts[o] = local'[o].quantity
                                  /\ local'[o].quantity \in Nat
    BY <2>4, <2>5 DEF rows, amounts
  <2>9. KindInv'
    <3>1. ASSUME NEW o \in Ids, NEW k, HasKind(o, k)' PROVE HasKind(o, k) \/ (New(o) /\ k = local'[o].kind)
      BY <2>2, <2>6, <2>8, <3>1 DEF HasKind
    <3> QED
      BY <3>1, KindsKept
  <2>10. KnownInv'
    BY <2>2, <2>6, <2>8 DEF KnownInv, Known
  <2>11. BoundInv'
    <3>1. AtMostLocal(sent[c])'
      BY <2>6, <2>8 DEF AtMostLocal
    <3> QED
      BY <2>2, <2>6, <2>7, <3>1 DEF BoundInv, AtMostLocal, Bounded
  <2> QED
    BY <2>9, <2>10, <2>11
<1>5. CASE Mirror(c) \/ MirrorDelete(c) \/ CallFails(c)
  <2>1. UNCHANGED <<local, listed, loaded, deleted, overwritten>> /\ Returns(c)
    BY <1>5 DEF Mirror, MirrorDelete, CallFails, syncVars, writerVars, history
  <2>2. /\ DOMAIN exchange' \subseteq DOMAIN exchange \cup DOMAIN sent[c]
        /\ \A o \in DOMAIN exchange' :
             \/ o \in DOMAIN sent[c] /\ exchange'[o] = sent[c][o]
             \/ o \in DOMAIN exchange /\ exchange'[o] = exchange[o]
    BY <1>5 DEF Mirror, MirrorDelete, CallFails, Saved, Without, Restrict
  <2>3. /\ sent'[c] = NoRows /\ pc'[c] = "done"
        /\ \A d \in Calls \ {c} : sent'[d] = sent[d] /\ pc'[d] = pc[d] /\ request'[d] = request[d]
    BY <1>t, <2>1 DEF Returns
  <2>4. KindInv'
    BY <2>1, <2>3, KindsKept DEF HasKind
  <2>5. KnownInv'
    BY <1>n, <2>1, <2>2, <2>3 DEF KnownInv, Known
  <2>6. BoundInv'
    <3>1. AtMostLocal(exchange)'
      BY <2>1, <2>2 DEF BoundInv, AtMostLocal
    <3>2. \A d \in Calls : AtMostLocal(sent[d])'
      BY <1>n, <2>1, <2>3 DEF BoundInv, AtMostLocal
    <3>3. \A s \in Syncs : AtMostLocal(listed[s])'
      BY <2>1 DEF BoundInv, AtMostLocal
    <3> QED
      BY <3>1, <3>2, <3>3 DEF BoundInv
  <2> QED
    BY <2>4, <2>5, <2>6
<1>6. CASE DeleteLocal(c)
  <2>1. /\ DOMAIN local' = DOMAIN local \ request[c].ids
        /\ \A o \in DOMAIN local' : local'[o] = local[o]
        /\ deleted' = deleted \cup (request[c].ids \cap DOMAIN local)
        /\ UNCHANGED <<exchange, sent, request, listed, loaded, overwritten>>
    BY <1>6 DEF DeleteLocal, Without, Restrict, syncVars, writerVars
  <2>2. pc'[c] # "merge" /\ \A d \in Calls \ {c} : pc'[d] = pc[d]
    BY <1>6, <1>t DEF DeleteLocal
  <2>3. Grows
    <3>1. \A o \in DOMAIN local : local[o].quantity \in Nat
      BY DEF TypesInv, LocalTyped, IsRows, OrderRow
    <3> QED
      BY <2>1, <3>1 DEF Grows
  <2>4. Bounded(exchange) /\ (\A s \in Syncs : Bounded(listed[s])) /\ \A d \in Calls : Bounded(sent[d])
    BY <1>t, <2>3, AllBounded
  <2>5. KindInv'
    BY <2>1, <2>2, KindsKept DEF HasKind
  <2>6. KnownInv'
    BY <2>1 DEF KnownInv, Known
  <2>7. BoundInv'
    BY <2>1, <2>4 DEF BoundInv, AtMostLocal, Bounded
  <2> QED
    BY <2>5, <2>6, <2>7
<1> QED
  BY <1>1, <1>2, <1>3, <1>4, <1>5, <1>6 DEF CallStep

LEMMA SyncStepsKeepBook ==
  ASSUME TypesInv, TypesInv', BookInv, NEW s \in Syncs, SyncStep(s)
  PROVE  BookInv'
<1> USE DEF BookInv
<1>t. DOMAIN listed = Syncs /\ DOMAIN NoRows = {}
  BY NoQuantities DEF TypesInv, SyncsTyped
<1>1. UNCHANGED <<local, pc, sent, request, loaded, deleted, overwritten>>
  BY DEF SyncStep, ListLocal, ListExchange, SyncCreate, SyncDelete, SyncFails, callVars, writerVars,
         history
<1>2. KindInv'
  BY <1>1, KindsKept DEF HasKind
<1>3. CASE ListLocal(s)
  <2>1. /\ listed'[s] = Quantities(local) /\ UNCHANGED exchange
        /\ \A t \in Syncs \ {s} : listed'[t] = listed[t]
    BY <1>3, <1>t DEF ListLocal
  <2>2. /\ DOMAIN Quantities(local) = DOMAIN local
        /\ \A o \in DOMAIN local : Quantities(local)[o] = local[o].quantity
    BY DEF Quantities
  <2>3. \A o \in DOMAIN local : local[o].quantity \in Nat
    BY DEF TypesInv, LocalTyped, IsRows, OrderRow
  <2>4. KnownInv'
    BY <1>1, <2>1, <2>2 DEF KnownInv, Known
  <2>5. BoundInv'
    BY <1>1, <2>1, <2>2, <2>3 DEF BoundInv, AtMostLocal
  <2> QED
    BY <1>2, <2>4, <2>5
<1>4. ASSUME SyncReturns(s) \/ UNCHANGED listed,
             /\ DOMAIN exchange' \subseteq DOMAIN exchange \cup DOMAIN listed[s]
             /\ \A o \in DOMAIN exchange' :
                  \/ o \in DOMAIN listed[s] /\ exchange'[o] = listed[s][o]
                  \/ o \in DOMAIN exchange /\ exchange'[o] = exchange[o]
      PROVE  BookInv'
  <2>1. /\ listed'[s] = listed[s] \/ DOMAIN listed'[s] = {}
        /\ \A t \in Syncs \ {s} : listed'[t] = listed[t]
    BY <1>t, <1>4 DEF SyncReturns
  <2>2. KnownInv'
    BY <1>1, <1>4, <2>1 DEF KnownInv, Known
  <2>3. BoundInv'
    <3>1. AtMostLocal(exchange)'
      BY <1>1, <1>4 DEF BoundInv, AtMostLocal
    <3>2. \A t \in Syncs : AtMostLocal(listed[t])'
      BY <1>1, <2>1 DEF BoundInv, AtMostLocal
    <3>3. \A d \in Calls : AtMostLocal(sent[d])'
      BY <1>1 DEF BoundInv, AtMostLocal
    <3> QED
      BY <3>1, <3>2, <3>3 DEF BoundInv
  <2> QED
    BY <1>2, <2>2, <2>3
<1>5. CASE ListExchange(s)
  BY <1>4, <1>5 DEF ListExchange
<1>6. CASE SyncCreate(s)
  BY <1>4, <1>6 DEF SyncCreate, Saved
<1>7. CASE SyncDelete(s)
  BY <1>4, <1>7 DEF SyncDelete, Without, Restrict
<1>8. CASE SyncFails(s)
  BY <1>4, <1>8 DEF SyncFails
<1> QED
  BY <1>3, <1>5, <1>6, <1>7, <1>8 DEF SyncStep

(* The rows a writer saves: the same kinds as before, and no other         *)
(* quantities, except for kinds that count as written over from then on.   *)
LEMMA SavedFacts ==
  ASSUME TypesInv, KindInv, NEW w \in Writers, Save(w)
  PROVE  /\ DOMAIN local' = DOMAIN local \cup DOMAIN loaded[w]
         /\ \A o \in DOMAIN local \ DOMAIN loaded[w] : local'[o] = local[o]
         /\ \A o \in DOMAIN loaded[w] : local'[o].kind = loaded[w][o].kind
         /\ \A o \in DOMAIN local : local'[o].kind = local[o].kind
         /\ overwritten \subseteq overwritten'
         /\ \A o \in DOMAIN loaded[w] : local'[o].kind \notin overwritten' =>
              o \in DOMAIN local /\ local'[o].quantity = local[o].quantity
<1>1. PICK full \in SUBSET DOMAIN loaded[w] :
        local' = Saved(local, [o \in DOMAIN loaded[w] |->
                   IF o \in full THEN Close(loaded[w][o]) ELSE loaded[w][o]])
  BY DEF Save
<1>2. \A o \in DOMAIN loaded[w] : loaded[w][o] \in OrderRow /\ o \in Ids
  BY DEF TypesInv, WritersTyped, IsRows
<1>3. ASSUME NEW o \in DOMAIN loaded[w]
      PROVE  local'[o].kind = loaded[w][o].kind /\ local'[o].quantity = loaded[w][o].quantity
  <2>1. local'[o] = Close(loaded[w][o]) \/ local'[o] = loaded[w][o]
    BY <1>1 DEF Saved
  <2> QED
    BY <1>2, <2>1 DEF Close, OrderRow
<1>4. /\ DOMAIN local' = DOMAIN local \cup DOMAIN loaded[w]
      /\ \A o \in DOMAIN local \ DOMAIN loaded[w] : local'[o] = local[o]
  BY <1>1 DEF Saved
<1>5. ASSUME NEW o \in DOMAIN local PROVE local'[o].kind = local[o].kind
  <2>1. CASE o \in DOMAIN loaded[w]
    BY <1>2, <1>3, <2>1 DEF KindInv, HasKind
  <2>2. CASE o \notin DOMAIN loaded[w]
    BY <1>4, <2>2
  <2> QED
    BY <2>1, <2>2
<1>6. overwritten' = overwritten \cup
       {loaded[w][o].kind : o \in {k \in DOMAIN loaded[w] : Overwrites(k, loaded[w][k].quantity)}}
  BY DEF Save
<1>7. ASSUME NEW o \in DOMAIN loaded[w], local'[o].kind \notin overwritten'
      PROVE  o \in DOMAIN local /\ local'[o].quantity = local[o].quantity
  BY <1>3, <1>6, <1>7 DEF Overwrites
<1> QED
  BY <1>3, <1>4, <1>5, <1>6, <1>7

LEMMA WriterStepsKeepBook ==
  ASSUME TypesInv, TypesInv', BookInv, NEW w \in Writers, WriterStep(w)
  PROVE  BookInv'
<1> USE DEF BookInv
<1>t. LocalTyped' /\ DOMAIN loaded = Writers /\ DOMAIN NoRows = {}
  BY NoQuantities DEF TypesInv, WritersTyped
<1>0. UNCHANGED <<exchange, pc, sent, request, listed, deleted>>
  BY DEF WriterStep, Load, Save, SaveNewOrders, WriterReturns, callVars, syncVars, history
<1>b. ASSUME Grows PROVE BoundInv'
  <2>1. Bounded(exchange) /\ (\A s \in Syncs : Bounded(listed[s])) /\ \A d \in Calls : Bounded(sent[d])
    BY <1>t, <1>b, AllBounded
  <2> QED
    BY <1>0, <2>1 DEF BoundInv, AtMostLocal, Bounded
<1>1. CASE \E o \in Ids : Load(w, o)
  <2>1. PICK o \in Ids : Load(w, o)
    BY <1>1
  <2>2. /\ UNCHANGED <<local, overwritten>> /\ o \in DOMAIN local
        /\ loaded' = [loaded EXCEPT ![w] = Saved(@, Row(o, local[o]))]
    BY <2>1 DEF Load, history
  <2>3. /\ DOMAIN loaded'[w] = DOMAIN loaded[w] \cup {o} /\ loaded'[w][o] = local[o]
        /\ \A q \in DOMAIN loaded[w] \ {o} : loaded'[w][q] = loaded[w][q]
        /\ \A v \in Writers \ {w} : loaded'[v] = loaded[v]
    <3>1. /\ loaded'[w] = Saved(loaded[w], Row(o, local[o]))
          /\ \A v \in Writers \ {w} : loaded'[v] = loaded[v]
      BY <1>t, <2>2
    <3>2. DOMAIN Row(o, local[o]) = {o} /\ Row(o, local[o])[o] = local[o]
      BY RowApply
    <3> QED
      BY <3>1, <3>2 DEF Saved
  <2>4. KindInv'
    <3>1. ASSUME NEW q \in Ids, NEW k, HasKind(q, k)' PROVE HasKind(q, k)
      BY <1>0, <2>2, <2>3, <3>1 DEF HasKind
    <3> QED
      BY <3>1, KindsKept
  <2>5. KnownInv'
    BY <1>0, <2>2, <2>3 DEF KnownInv, Known
  <2> QED
    BY <1>b, <2>2, <2>4, <2>5, SameGrows
<1>2. CASE Save(w)
  <2>1. /\ DOMAIN local' = DOMAIN local \cup DOMAIN loaded[w]
        /\ \A o \in DOMAIN local \ DOMAIN loaded[w] : local'[o] = local[o]
        /\ \A o \in DOMAIN loaded[w] : local'[o].kind = loaded[w][o].kind
        /\ \A o \in DOMAIN local : local'[o].kind = local[o].kind
        /\ overwritten \subseteq overwritten'
        /\ \A o \in DOMAIN loaded[w] : local'[o].kind \notin overwritten' =>
              o \in DOMAIN local /\ local'[o].quantity = local[o].quantity
    BY <1>2, SavedFacts
  <2>2. DOMAIN loaded'[w] = {} /\ \A v \in Writers \ {w} : loaded'[v] = loaded[v]
    BY <1>2, <1>t DEF Save
  <2>3. Grows
    <3>1. \A o \in DOMAIN local : local[o].quantity \in Nat
      BY DEF TypesInv, LocalTyped, IsRows, OrderRow
    <3> SUFFICES ASSUME NEW o \in DOMAIN local', local'[o].kind \notin overwritten'
                 PROVE  /\ o \in DOMAIN local /\ local[o].kind \notin overwritten
                        /\ local'[o].quantity >= local[o].quantity
      BY DEF Grows
    <3>2. CASE o \in DOMAIN loaded[w]
      BY <2>1, <3>1, <3>2
    <3>3. CASE o \notin DOMAIN loaded[w]
      BY <2>1, <3>1, <3>3
    <3> QED
      BY <3>2, <3>3
  <2>4. KindInv'
    <3>1. ASSUME NEW q \in Ids, NEW k, HasKind(q, k)' PROVE HasKind(q, k)
      BY <1>0, <2>1, <2>2, <3>1 DEF HasKind
    <3> QED
      BY <3>1, KindsKept
  <2>5. KnownInv'
    BY <1>0, <2>1, <2>2 DEF KnownInv, Known
  <2> QED
    BY <1>b, <2>3, <2>4, <2>5
<1>3. CASE SaveNewOrders(w)
  <2>1. UNCHANGED <<loaded, overwritten>>
    BY <1>3 DEF SaveNewOrders
  <2>2. PICK new \in Seq(NewOrder) : \E ids \in FreshIds(Len(new)) : local' = Saved(local, NewRows(ids, new))
    BY <1>3, CounterRows
  <2>3. PICK ids \in FreshIds(Len(new)) : local' = Saved(local, NewRows(ids, new))
    BY <2>2
  <2> DEFINE rows == NewRows(ids, new)
  <2>4. /\ Grows /\ DOMAIN local' = DOMAIN local \cup DOMAIN rows
        /\ \A o \in DOMAIN local : local'[o] = local[o]
        /\ \A o \in DOMAIN rows : New(o)
    BY <2>1, <2>3, NewRowsSaved
  <2> HIDE DEF rows
  <2>5. KindInv'
    <3>1. ASSUME NEW o \in Ids, NEW k, HasKind(o, k)' PROVE HasKind(o, k) \/ (New(o) /\ k = local'[o].kind)
      BY <1>0, <2>1, <2>4, <3>1 DEF HasKind
    <3> QED
      BY <3>1, KindsKept
  <2>6. KnownInv'
    BY <1>0, <2>1, <2>4 DEF KnownInv, Known
  <2> QED
    BY <1>b, <2>4, <2>5, <2>6
<1>4. CASE WriterReturns(w)
  <2>1. UNCHANGED <<local, overwritten>>
    BY <1>4 DEF WriterReturns, history
  <2>2. DOMAIN loaded'[w] = {} /\ \A v \in Writers \ {w} : loaded'[v] = loaded[v]
    BY <1>4, <1>t DEF WriterReturns
  <2>3. KindInv'
    <3>1. ASSUME NEW q \in Ids, NEW k, HasKind(q, k)' PROVE HasKind(q, k)
      BY <1>0, <2>1, <2>2, <3>1 DEF HasKind
    <3> QED
      BY <3>1, KindsKept
  <2>4. KnownInv'
    BY <1>0, <2>1, <2>2 DEF KnownInv, Known
  <2> QED
    BY <1>b, <2>1, <2>3, <2>4, SameGrows
<1> QED
  BY <1>1, <1>2, <1>3, <1>4 DEF WriterStep

LEMMA BookNext == TypesInv /\ TypesInv' /\ BookInv /\ [Next]_vars => BookInv'
<1> SUFFICES ASSUME TypesInv, TypesInv', BookInv, [Next]_vars
             PROVE  BookInv'
  OBVIOUS
<1>1. CASE \E c \in Calls : Receive(c) \/ CallStep(c)
  BY <1>1, CallStepsKeepBook
<1>2. CASE \E s \in Syncs : SyncStep(s)
  BY <1>2, SyncStepsKeepBook
<1>3. CASE \E w \in Writers : WriterStep(w)
  BY <1>3, WriterStepsKeepBook
<1>4. CASE Restart
  <2>1. DOMAIN NoRows = {}
    BY NoQuantities
  <2>2. /\ UNCHANGED <<local, exchange, deleted, overwritten>>
        /\ \A c \in Calls : pc'[c] # "merge" /\ sent'[c] = NoRows
        /\ \A s \in Syncs : listed'[s] = NoRows
        /\ \A w \in Writers : loaded'[w] = NoRows
    BY <1>4 DEF Restart, history
  <2>3. KindInv'
    <3>1. ASSUME NEW q \in Ids, NEW k, HasKind(q, k)' PROVE HasKind(q, k)
      BY <2>1, <2>2, <3>1 DEF HasKind
    <3> QED
      BY <3>1, KindsKept DEF BookInv
  <2>4. KnownInv' /\ BoundInv'
    BY <2>1, <2>2 DEF BookInv, KnownInv, Known, BoundInv, AtMostLocal
  <2> QED
    BY <2>3, <2>4 DEF BookInv
<1>5. CASE Unlock \/ Logout \/ UNCHANGED vars
  BY <1>5 DEF Unlock, Logout, vars, callVars, syncVars, writerVars, history, BookInv, KnownInv, KindInv,
              HasKind, Known, BoundInv, AtMostLocal
<1> QED
  BY <1>1, <1>2, <1>3, <1>4, <1>5 DEF Next

LEMMA BookInvariant == Spec => []BookInv
BY InitBook, BookNext, TypesInvariant, PTL DEF Spec

(* The exchange is never told of more than the quantity of an order of a   *)
(* kind at which nobody wrote a quantity over a change made meanwhile,     *)
(* whatever calls, syncs and saves of whole rows overlap and wherever the  *)
(* process stops (rune-orders.service.ts:46-58, 217-235;                   *)
(* pending-transactions.service.ts:226-245).                               *)
THEOREM BookNeverOversold == Spec => []NeverOffersMore
<1>1. BookInv => NeverOffersMore
  BY DEF BookInv, BoundInv, AtMostLocal, NeverOffersMore
<1> QED
  BY <1>1, BookInvariant, PTL

-------------------------------------------------------------------------------
(* What an order counts for at a kind, so that the sums at all kinds are   *)
(* over the same orders.                                                   *)
Weight(table, kind) ==
  [o \in DOMAIN table |-> IF table[o].kind = kind THEN table[o].quantity ELSE 0]
AtKind(table, kind) == SumFunctionOnSet(Weight(table, kind), DOMAIN table)

BalanceInv ==
  DOMAIN balance = Kinds /\ \A k \in Kinds \ overwritten : AtKind(local, k) = balance[k]

LEMMA WeightType ==
  ASSUME LocalTyped, NEW k
  PROVE  /\ DOMAIN Weight(local, k) = DOMAIN local
         /\ \A o \in DOMAIN local : Weight(local, k)[o] \in Nat
         /\ AtKind(local, k) \in Int
<1>1. DOMAIN Weight(local, k) = DOMAIN local
  BY DEF Weight
<1>2. \A o \in DOMAIN local : Weight(local, k)[o] \in Nat
  BY DEF Weight, LocalTyped, IsRows, OrderRow
<1>3. IsFiniteSet(DOMAIN local) /\ \A o \in DOMAIN local : Weight(local, k)[o] \in Int
  BY <1>2 DEF LocalTyped
<1> HIDE DEF Weight
<1>4. AtKind(local, k) \in Int
  BY <1>3, SumInteger DEF AtKind
<1> QED
  BY <1>1, <1>2, <1>4

(* What the orders of a set have at a kind is a sum of weights.            *)
LEMMA QuantityIsWeight ==
  ASSUME LocalTyped, NEW k, NEW ids
  PROVE  QuantityAt(k, ids) = SumFunctionOnSet(Weight(local, k), ids \cap DOMAIN local)
<1> DEFINE S == ids \cap DOMAIN local
           R == {o \in S : local[o].kind = k}
           F == Quantities(local)
           G == Weight(local, k)
<1>1. IsFiniteSet(S) /\ R \in SUBSET S
  BY FS_Subset DEF LocalTyped
<1>2. \A o \in R : F[o] \in Int /\ G[o] = F[o]
  BY DEF LocalTyped, IsRows, OrderRow, Weight, Quantities
<1>3. \A o \in S \ R : G[o] = 0
  BY DEF Weight
<1>4. QuantityAt(k, ids) = SumFunctionOnSet(F, R)
  BY DEF QuantityAt
<1> HIDE DEF S, R, F, G
<1>5. SumFunctionOnSet(G, S) = SumFunctionOnSet(F, R)
  BY <1>1, <1>2, <1>3, SumFilter
<1> QED
  BY <1>4, <1>5 DEF S, G

LEMMA BalanceAddsUp == LocalTyped /\ BalanceInv => QuantitiesAddUp
<1> SUFFICES ASSUME LocalTyped, BalanceInv, NEW k \in Kinds \ overwritten
             PROVE  QuantityAt(k, Ids) = balance[k]
  BY DEF QuantitiesAddUp
<1>1. Ids \cap DOMAIN local = DOMAIN local
  BY DEF LocalTyped, IsRows
<1> QED
  BY <1>1, QuantityIsWeight DEF BalanceInv, AtKind

(* What new orders add at a kind.                                          *)
AmountOf(new, k) ==
  [i \in DOMAIN new |-> IF new[i].kind = k THEN new[i].quantity ELSE 0]

(* What is asked for at a price is the sum over the orders.                *)
LEMMA AmountIsSum ==
  ASSUME NEW new \in Seq(NewOrder), NEW k
  PROVE  /\ Amount(new, k) = SumFunctionOnSet(AmountOf(new, k), 1..Len(new))
         /\ Amount(new, k) \in Nat
         /\ \A i \in 1..Len(new) : AmountOf(new, k)[i] \in Nat
<1> DEFINE n == Len(new)
           s == AmountOf(new, k)
<1>1. n \in Nat /\ DOMAIN new = 1..n /\ \A i \in 1..n : new[i] \in NewOrder
  OBVIOUS
<1>2. \A i \in 1..n : s[i] \in Nat
  BY <1>1 DEF NewOrder, AmountOf
<1>3. s = [i \in 1..n |-> s[i]]
  BY <1>1 DEF AmountOf
<1>4. Amount(new, k) = SumFunction(s)
  BY DEF Amount, AmountOf
<1> HIDE DEF s, n
<1>5. SumFunction(s) = SumFunctionOnSet(s, 1..n) /\ SumFunction(s) \in Nat
  BY <1>1, <1>2, <1>3, SumSequence
<1> QED
  BY <1>2, <1>4, <1>5 DEF s, n

(* Merging adds what is asked to one order of the kind.                    *)
LEMMA MergeAddsUp ==
  ASSUME TypesInv, BookInv, BalanceInv, NEW c \in Calls, Merge(c)
  PROVE  BalanceInv'
<1> USE DEF TypesInv
<1>0. KindInv
  BY DEF BookInv
<1>1. PICK o \in DOMAIN sent[c] :
         /\ o \in Ids /\ sent[c][o] \in Nat
         /\ request[c] \in Requests /\ Len(request[c].orders) = 1
         /\ request[c].orders[1].kind \in Kinds /\ request[c].orders[1].quantity \in Nat
         /\ o \in DOMAIN local => local[o].kind = request[c].orders[1].kind
         /\ DOMAIN local' = DOMAIN local
         /\ \A q \in DOMAIN local \ {o} : local'[q] = local[q]
         /\ o \in DOMAIN local => /\ local'[o].kind = local[o].kind
                                  /\ local'[o].quantity = Merged(c, o)
         /\ overwritten' = IF Overwrites(o, sent[c][o])
                           THEN overwritten \cup {request[c].orders[1].kind} ELSE overwritten
  BY <1>0, MergeFacts
<1>2. Adds(request[c].orders)
  BY DEF Merge
<1>3. request[c].orders \in Seq(NewOrder)
  BY <1>1, RequestTyped
<1>4. DOMAIN request[c].orders = 1..1
  BY <1>1, <1>3
<1> DEFINE new == request[c].orders[1]
<1>8. ASSUME NEW k \in Kinds, k \notin overwritten'
      PROVE  AtKind(local', k) = AtKind(local, k) + Amount(request[c].orders, k)
  <2> DEFINE D == DOMAIN local
             F == Weight(local, k)
             G == Weight(local', k)
             A == AmountOf(request[c].orders, k)
  <2>1. A[1] = IF new.kind = k THEN new.quantity ELSE 0
    BY <1>4 DEF AmountOf
  <2>2. Amount(request[c].orders, k) = SumFunctionOnSet(A, {1}) /\ A[1] \in Int
    <3>1. 1..1 = {1}
      OBVIOUS
    <3> QED
      BY <1>1, <1>3, <3>1, AmountIsSum
  <2>3. Amount(request[c].orders, k) = A[1]
    <3> HIDE DEF A
    <3> QED
      BY <2>2, SumSingle
  <2>5. (\A q \in D : F[q] \in Int) /\ IsFiniteSet(D)
    BY WeightType DEF LocalTyped
  <2>7. AtKind(local, k) = SumFunctionOnSet(F, D) /\ AtKind(local', k) = SumFunctionOnSet(G, D)
    BY <1>1 DEF AtKind
  <2>t. \A q \in D : local[q].quantity \in Nat
    BY DEF LocalTyped, IsRows, OrderRow
  <2>a. CASE new.kind # k
    <3>1. \A q \in D : G[q] = F[q]
      BY <1>1, <2>a DEF Weight
    <3>2. A[1] = 0 /\ AtKind(local, k) \in Int
      BY <2>1, <2>a, WeightType
    <3> HIDE DEF D, F, G, A
    <3>3. SumFunctionOnSet(F, D) = SumFunctionOnSet(G, D)
      BY <2>5, <3>1, SumAgree
    <3> QED
      BY <2>3, <2>7, <3>2, <3>3
  <2>b. CASE new.kind = k
    <3>0. o \in D /\ local[o].quantity = sent[c][o]
      BY <1>1, <1>8, <2>b DEF Overwrites
    <3>1. \A q \in D \ {o} : G[q] = F[q]
      BY <1>1 DEF Weight
    <3>2. F[o] = local[o].quantity /\ G[o] = local[o].quantity + new.quantity /\ A[1] = new.quantity
      BY <1>1, <2>1, <2>b, <3>0 DEF Weight, Merged
    <3>3. G[o] = F[o] + A[1] /\ G[o] \in Int
      BY <1>1, <2>t, <3>0, <3>2
    <3>4. \A q \in D : G[q] \in Int
      BY <2>5, <3>1, <3>3
    <3> HIDE DEF D, F, G, A
    <3>5. SumFunctionOnSet(F, D) = F[o] + SumFunctionOnSet(F, D \ {o})
      BY <2>5, <3>0, SumRemove
    <3>6. SumFunctionOnSet(G, D) = G[o] + SumFunctionOnSet(G, D \ {o})
      BY <2>5, <3>0, <3>4, SumRemove
    <3>7. IsFiniteSet(D \ {o}) /\ (\A q \in D \ {o} : F[q] \in Int)
      BY <2>5, FS_RemoveElement
    <3>8. SumFunctionOnSet(F, D \ {o}) = SumFunctionOnSet(G, D \ {o})
      BY <3>1, <3>7, SumAgree
    <3>9. SumFunctionOnSet(F, D \ {o}) \in Int
      BY <3>7, SumInteger
    <3> QED
      BY <2>2, <2>3, <2>5, <2>7, <3>0, <3>3, <3>5, <3>6, <3>8, <3>9
  <2> QED
    BY <2>a, <2>b
<1>9. \A k \in Kinds \ overwritten' : k \notin overwritten
  BY <1>1
<1> QED
  BY <1>2, <1>8, <1>9 DEF Adds, BalanceInv

(* New rows add what is asked, at every kind.                              *)
LEMMA NewRowsAddUp ==
  ASSUME TypesInv, BalanceInv, NEW new \in Seq(NewOrder), NEW ids \in FreshIds(Len(new)),
         local' = Saved(local, NewRows(ids, new)), Adds(new), UNCHANGED overwritten
  PROVE  BalanceInv'
<1> USE DEF TypesInv
<1> DEFINE n == Len(new)
<1>2. n \in Nat /\ DOMAIN new = 1..n
  OBVIOUS
<1> DEFINE rows == NewRows(ids, new)
<1>4. /\ DOMAIN rows = {ids[i] : i \in 1..n}
      /\ \A i \in 1..n : rows[ids[i]].kind = new[i].kind /\ rows[ids[i]].quantity = new[i].quantity
      /\ \A i, j \in 1..n : ids[i] = ids[j] => i = j
  BY NewRowsTyped
<1>8. /\ DOMAIN local' = DOMAIN local \cup DOMAIN rows
      /\ \A o \in DOMAIN local : local'[o] = local[o]
      /\ \A o \in DOMAIN rows : New(o) /\ local'[o] = rows[o]
  BY NewRowsSaved
<1> HIDE DEF rows
<1>5. \A i, j \in 1..n : ids[i] = ids[j] => i = j
  BY <1>4
<1>7. DOMAIN rows \cap DOMAIN local = {}
  BY <1>8 DEF New
<1>9. IsFiniteSet(1..n)
  <2>1. 1 \in Int /\ n \in Int
    BY <1>2
  <2> QED
    BY <2>1, FS_Interval, Zenon
<1>10. ASSUME NEW k \in Kinds PROVE AtKind(local', k) = AtKind(local, k) + Amount(new, k)
  <2> DEFINE D == DOMAIN local
             N == 1..n
             R == {ids[i] : i \in N}
             F == Weight(local, k)
             G == Weight(local', k)
             A == AmountOf(new, k)
  <2>1. Amount(new, k) = SumFunctionOnSet(A, N) /\ \A i \in N : A[i] \in Nat
    BY AmountIsSum
  <2>2. ASSUME NEW i \in N PROVE A[i] = G[ids[i]]
    <3>1. ids[i] \in DOMAIN rows
      BY <1>4
    <3>2. ids[i] \in DOMAIN local' /\ local'[ids[i]].kind = new[i].kind /\ local'[ids[i]].quantity = new[i].quantity
      BY <1>4, <1>8, <3>1
    <3>3. G[ids[i]] = IF new[i].kind = k THEN new[i].quantity ELSE 0
      BY <3>2 DEF Weight
    <3>4. A[i] = IF new[i].kind = k THEN new[i].quantity ELSE 0
      BY <1>2 DEF AmountOf
    <3> QED
      BY <3>3, <3>4
  <2>3. \A o \in D : G[o] = F[o]
    BY <1>8 DEF Weight
  <2>4. (\A o \in D : F[o] \in Int) /\ IsFiniteSet(D) /\ AtKind(local, k) \in Int
    BY WeightType DEF LocalTyped
  <2>5. AtKind(local, k) = SumFunctionOnSet(F, D) /\ AtKind(local', k) = SumFunctionOnSet(G, R \cup D)
    <3>1. DOMAIN local' = R \cup D
      BY <1>4, <1>8
    <3> QED
      BY <3>1 DEF AtKind
  <2>6. IsFiniteSet(N) /\ R \cap D = {}
    BY <1>4, <1>7, <1>9
  <2>7. \A o \in R : G[o] \in Int
    <3> SUFFICES ASSUME NEW i \in N PROVE G[ids[i]] \in Int
      OBVIOUS
    <3> QED
      BY <2>1, <2>2
  <2>8. \A i, j \in N : ids[i] = ids[j] => i = j
    BY <1>5
  <2> HIDE DEF D, F, G, A, N, R
  <2>9. \A i \in N : G[ids[i]] \in Int /\ A[i] = G[ids[i]]
    BY <2>1, <2>2
  <2>10. IsFiniteSet(R) /\ SumFunctionOnSet(A, N) = SumFunctionOnSet(G, R)
    <3>1. IsFiniteSet(N)
      BY <2>6
    <3> DEFINE h == [i \in N |-> ids[i]]
    <3>2. h \in Bijection(N, R)
      BY <2>8 DEF R, Bijection, Injection, Surjection, IsInjective
    <3>3. \A i \in N : G[h[i]] \in Int /\ A[i] = G[h[i]]
      BY <2>9
    <3> HIDE DEF h
    <3> QED
      BY <3>1, <3>2, <3>3, SumRenamed
  <2>11. \A o \in D \cup R : G[o] \in Int
    BY <2>3, <2>4, <2>7
  <2>12. SumFunctionOnSet(G, R \cup D) = SumFunctionOnSet(G, R) + SumFunctionOnSet(G, D)
    BY <2>4, <2>6, <2>10, <2>11, SumUnion
  <2>13. SumFunctionOnSet(F, D) = SumFunctionOnSet(G, D)
    BY <2>3, <2>4, SumAgree
  <2>14. SumFunctionOnSet(G, R) \in Int /\ SumFunctionOnSet(G, D) \in Int
    BY <2>4, <2>10, <2>11, SumInteger
  <2> QED
    BY <2>1, <2>5, <2>10, <2>12, <2>13, <2>14
<1> QED
  BY <1>10 DEF Adds, BalanceInv

(* Deleting removes what the deleted orders had, at every kind.            *)
LEMMA DeleteAddsUp ==
  ASSUME TypesInv, BalanceInv, NEW c \in Calls, DeleteLocal(c)
  PROVE  BalanceInv'
<1> USE DEF TypesInv
<1> DEFINE ids == request[c].ids
           S == ids \cap DOMAIN local
           T == DOMAIN local \ ids
<1>1. local' = Without(local, ids) /\ balance' = [k \in Kinds |-> balance[k] - QuantityAt(k, ids)]
         /\ UNCHANGED overwritten
  BY DEF DeleteLocal
<1>2. DOMAIN local' = T /\ \A o \in T : local'[o] = local[o]
  BY <1>1 DEF Without, Restrict
<1>3. IsFiniteSet(S) /\ IsFiniteSet(T) /\ S \cap T = {} /\ T \cup S = DOMAIN local
  BY FS_Subset DEF LocalTyped
<1>4. ASSUME NEW k \in Kinds PROVE AtKind(local', k) = AtKind(local, k) - QuantityAt(k, ids)
  <2> DEFINE F == Weight(local, k)
             G == Weight(local', k)
  <2>1. \A o \in T : G[o] = F[o]
    BY <1>2 DEF Weight
  <2>2. \A o \in T \cup S : F[o] \in Int
    BY WeightType
  <2>3. AtKind(local, k) = SumFunctionOnSet(F, T \cup S) /\ AtKind(local', k) = SumFunctionOnSet(G, T)
    BY <1>2, <1>3 DEF AtKind
  <2>4. QuantityAt(k, ids) = SumFunctionOnSet(F, S)
    BY QuantityIsWeight
  <2> HIDE DEF F, G, S, T, ids
  <2>5. SumFunctionOnSet(F, T \cup S) = SumFunctionOnSet(F, T) + SumFunctionOnSet(F, S)
    BY <1>3, <2>2, SumUnion
  <2>6. SumFunctionOnSet(F, T) = SumFunctionOnSet(G, T)
    BY <1>3, <2>1, <2>2, SumAgree
  <2>7. SumFunctionOnSet(F, T) \in Int /\ SumFunctionOnSet(F, S) \in Int
    BY <1>3, <2>2, SumInteger
  <2> QED
    BY <2>3, <2>4, <2>5, <2>6, <2>7
<1> QED
  BY <1>1, <1>4 DEF BalanceInv

(* Saving whole rows writes no other quantity than the table has, or one   *)
(* of a kind that counts as written over.                                  *)
LEMMA SaveAddsUp ==
  ASSUME TypesInv, TypesInv', BookInv, BalanceInv, NEW w \in Writers, Save(w)
  PROVE  BalanceInv'
<1>0. KindInv
  BY DEF BookInv
<1>1. /\ DOMAIN local' = DOMAIN local \cup DOMAIN loaded[w]
      /\ \A o \in DOMAIN local \ DOMAIN loaded[w] : local'[o] = local[o]
      /\ \A o \in DOMAIN local : local'[o].kind = local[o].kind
      /\ overwritten \subseteq overwritten'
      /\ \A o \in DOMAIN loaded[w] : local'[o].kind \notin overwritten' =>
           o \in DOMAIN local /\ local'[o].quantity = local[o].quantity
  BY <1>0, SavedFacts
<1>2. UNCHANGED balance
  BY DEF Save
<1>3. ASSUME NEW k \in Kinds, k \notin overwritten' PROVE AtKind(local', k) = AtKind(local, k)
  <2> DEFINE D == DOMAIN local
             E == DOMAIN local'
             F == Weight(local, k)
             G == Weight(local', k)
  <2>1. (\A o \in D : F[o] \in Int) /\ IsFiniteSet(E) /\ D \in SUBSET E
    BY <1>1, WeightType DEF TypesInv, LocalTyped
  <2>2. \A o \in D : G[o] = F[o]
    <3> SUFFICES ASSUME NEW o \in D PROVE G[o] = F[o]
      OBVIOUS
    <3>1. o \in E /\ local'[o].kind = local[o].kind
      BY <1>1
    <3>2. local[o].kind = k => local'[o].quantity = local[o].quantity
      BY <1>1, <1>3, <3>1
    <3> QED
      BY <3>1, <3>2 DEF Weight
  <2>3. \A o \in E \ D : G[o] = 0
    <3> SUFFICES ASSUME NEW o \in E \ D PROVE local'[o].kind # k
      BY DEF Weight
    <3> QED
      BY <1>1, <1>3
  <2>4. AtKind(local, k) = SumFunctionOnSet(F, D) /\ AtKind(local', k) = SumFunctionOnSet(G, E)
    BY DEF AtKind
  <2> HIDE DEF D, E, F, G
  <2>5. SumFunctionOnSet(G, E) = SumFunctionOnSet(F, D)
    BY <2>1, <2>2, <2>3, SumFilter
  <2> QED
    BY <2>4, <2>5
<1> QED
  BY <1>1, <1>2, <1>3 DEF BalanceInv

(* Every step keeps the sum at each price what was put there.              *)
LEMMA BalanceNext ==
  ASSUME TypesInv, TypesInv', BookInv, BalanceInv, [Next]_vars
  PROVE  BalanceInv'
<1>1. ASSUME UNCHANGED <<local, balance, overwritten>> PROVE BalanceInv'
  BY <1>1 DEF BalanceInv
<1>2. ASSUME NEW c \in Calls, Receive(c) \/ CallStep(c) PROVE BalanceInv'
  <2>1. CASE Merge(c)
    BY <2>1, MergeAddsUp
  <2>2. CASE Insert(c)
    <3>1. PICK ids \in FreshIds(Len(request[c].orders)) :
            local' = Saved(local, NewRows(ids, request[c].orders)) /\ Adds(request[c].orders)
      BY <2>2, InsertedRows DEF TypesInv
    <3>2. request[c].orders \in Seq(NewOrder) /\ UNCHANGED overwritten
      BY <2>2, InsertedRows DEF Insert, TypesInv
    <3> QED
      BY <3>1, <3>2, NewRowsAddUp
  <2>3. CASE DeleteLocal(c)
    BY <2>3, DeleteAddsUp
  <2>4. CASE Receive(c) \/ ReadBook(c) \/ Mirror(c) \/ MirrorDelete(c) \/ CallFails(c)
    <3>1. UNCHANGED <<local, balance, overwritten>>
      BY <2>4 DEF Receive, ReadBook, Mirror, MirrorDelete, CallFails, history
    <3> QED
      BY <1>1, <3>1
  <2> QED
    BY <1>2, <2>1, <2>2, <2>3, <2>4 DEF CallStep
<1>3. ASSUME NEW w \in Writers, WriterStep(w) PROVE BalanceInv'
  <2>1. CASE Save(w)
    BY <2>1, SaveAddsUp
  <2>2. CASE SaveNewOrders(w)
    <3>1. PICK new \in Seq(NewOrder) : \E ids \in FreshIds(Len(new)) :
            local' = Saved(local, NewRows(ids, new)) /\ Adds(new)
      BY <2>2, CounterRows
    <3>2. PICK ids \in FreshIds(Len(new)) : local' = Saved(local, NewRows(ids, new)) /\ Adds(new)
      BY <3>1
    <3>3. UNCHANGED overwritten
      BY <2>2 DEF SaveNewOrders
    <3> QED
      BY <3>2, <3>3, NewRowsAddUp
  <2>3. CASE (\E o \in Ids : Load(w, o)) \/ WriterReturns(w)
    <3>1. UNCHANGED <<local, balance, overwritten>>
      BY <2>3 DEF Load, WriterReturns, history
    <3> QED
      BY <1>1, <3>1
  <2> QED
    BY <1>3, <2>1, <2>2, <2>3 DEF WriterStep
<1>4. CASE \E s \in Syncs : SyncStep(s)
  <2>1. UNCHANGED <<local, balance, overwritten>>
    BY <1>4 DEF SyncStep, ListLocal, ListExchange, SyncCreate, SyncDelete, SyncFails, history
  <2> QED
    BY <1>1, <2>1
<1>5. CASE Unlock \/ Logout \/ Restart \/ UNCHANGED vars
  <2>1. UNCHANGED <<local, balance, overwritten>>
    BY <1>5 DEF Unlock, Logout, Restart, vars, history
  <2> QED
    BY <1>1, <2>1
<1> QED
  BY <1>2, <1>3, <1>4, <1>5 DEF Next

LEMMA BalanceInit == Init => BalanceInv
<1> SUFFICES ASSUME Init PROVE BalanceInv
  OBVIOUS
<1>1. DOMAIN local = {}
  BY DEF Init, NoRows
<1>2. \A k \in Kinds : AtKind(local, k) = 0
  BY <1>1, SumEmpty DEF AtKind
<1>3. balance = [k \in Kinds |-> 0]
  BY DEF Init
<1> QED
  BY <1>2, <1>3 DEF BalanceInv

(* What was added at a price is there or was deleted, as long as nobody    *)
(* writes a quantity of that price over a change made since he read it,    *)
(* whatever the exchange refuses and wherever the process stops, with any  *)
(* number of calls and writers at a time (rune-orders.service.ts:37-48,    *)
(* 74; pending-transactions.service.ts:226-245).                           *)
THEOREM BookAddsUp == Spec => []QuantitiesAddUp
<1>1. TypesInv /\ TypesInv' /\ BookInv /\ BalanceInv /\ [Next]_vars => BalanceInv'
  BY BalanceNext
<1>2. TypesInv /\ BalanceInv => QuantitiesAddUp
  BY BalanceAddsUp DEF TypesInv
<1> QED
  BY <1>1, <1>2, BalanceInit, TypesInvariant, BookInvariant, PTL DEF Spec
===============================================================================
