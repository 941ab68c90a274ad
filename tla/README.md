# Verification of the hot wallet

The repository is a self-hosted market-maker wallet for runes (NestJS, one
process).  An exchange sends it messages over a websocket: reserve these
quantities of your orders, sign this transaction, forget that trade.  The wallet
keeps its orders and trades in a local SQLite database, its reservations in
memory, and settles trades by looking at the chain.  This directory holds TLA+
modules that model the parts of it that carry state across interleavings,
failures and restarts, TLC configurations that check them on small instances, and
TLAPS proofs of the properties that matter most for every instance.

Paths below are short for files under `src/`: `event-handler.service.ts` is
`libs/execution/src/event-handler/event-handler.service.ts`, and so on; each
definition's lines are in `PROJECT.json`, "map".

## 1. Inventory

| Component | State | Operations | What makes it hard |
|---|---|---|---|
| Trade execution (`libs/execution`) | in memory: `reservedUtxos` (output → trade, time, amount), `locks` (trades); in the database: filled quantities of orders, rows of transactions | `reserve_request`, `reserve_cancel`, `sign_request`, ping; a cleanup timer | every handler awaits the database, HTTP services and the exchange, and runs interleaved with the others on rows it read earlier; a failed reserve starts a cancel it does not await; a restart forgets memory but not rows |
| Pending-transactions job (`apps/hotwallet/src/pending-transactions`) | `isProcessing`; the rows of both tables; lists of changes held for the duration of a run | a cron every 30 s: look at each trade, give back its quantities, confirm it, create counter orders; deletion by the operator, and a strategy he may change | long loop with two HTTP calls per trade, changes saved at the end in four saves; reservations, cancels and the chain move on meanwhile |
| Order book and its mirror (`apps/hotwallet/src/rune-orders`, `libs/exchange…`) | the order table; the exchange's copy of it | create (merges into an order of the same price), batch create, delete, sync every 30 s | calls are stored locally first and mirrored after, syncs overlap with them and with each other; the job and the event handler save whole rows of the same table; every request is signed, so a locked wallet tells the exchange nothing |
| Database layer (`libs/database`) | rows | find, save, delete | `save` writes a loaded row as a whole, and inserts it again when it was deleted meanwhile |
| Websocket connection (`libs/websocket`) | the current socket, the sockets it replaced, one reconnection timer | start, reconnect, open, error/close, publish | several sockets alive at once; every error and close sets the timer; publishing opens a socket of its own |
| Wallet keys (`libs/wallet`) | shards of the private key, public key | init (unlock), sign, reset | init appends shards, whether there are some or not; a bad key is split before it is found to be bad |
| Settings (`apps/hotwallet/src/settings`, `libs/database/src/settings`) | the settings row: encrypted key, password flag, ord endpoint | unlock, update, set up password, read | read–modify–save of one row with an unlock after it |
| Account and splits (`apps/hotwallet/src/account`) | none of its own | balances, liquidity, split an asset, logout | transaction building from lists that may be old; edict numbering; change |
| Blockchain library (`libs/blockchain`) | none | plain outputs to pay with, outputs with runes to sell, fees, broadcast | the list of outputs and what is on them come from different services at different heights |
| Indexer providers and clients (`libs/blockchain/src/common`, `runes`, `ordinals`) | none (the services' heights) | ask ord, retry, ask bestinslot page by page | an index that lags, or moves on between two pages, must not make an output with runes look plain |
| Rebalance and split configuration (`rebalance`, `libs/database/src/auto-rebalance`) | one row per rune | create, change, remove, read | the job reads it anew for every transaction; a field that is left out keeps its value |
| Bootstrap, error filter, packaging | none | start, stop | a restart is an action of the models |

How they interact: the exchange's messages reach *trade execution* through the
*connection*; it lists outputs through the *blockchain library*, signs with the
*wallet keys*, and shares the two tables with the *job* and the *order book*.
The *connection* registers with the *wallet's* public key and waits until the
operator's *settings* request unlocks it.  *Splits* spend outputs that the
library's queries may be looking at.

What makes each part correct:

- execution: an output is promised to one trade at a time and not handed over
  silently; no reservation without somebody to give it up; filled quantities stay
  within the order and agree with the transactions, except where a save of an older
  row loses a change; locks, outputs and handlers come to an end; what one trade still
  holds is not signed for another;
- the job: what falls through is given back exactly once, a trade is rebalanced
  at most once and not at a loss, only what is mined is confirmed, a confirmed trade
  is final, an order closes only when it is full, and the job settles every trade
  as long as it runs at all;
- the mirror: quantities add up and the exchange never offers more than there is,
  except at prices where a write meets another one, and the books converge once the
  wallet stays unlocked;
- keys: never encrypted twice, no old key in memory, and a wallet that says it is
  initialised can sign;
- connection: never stranded, registered when open and for the client it was opened
  for while nobody publishes into a closed one, no multiplying sockets, and it comes
  back;
- outputs: what is found is what was asked for, every query ends; a split pays
  its fee and loses no rune.

## 2. Modules

| Module | Models | Lines it stands for |
|---|---|---|
| `ReservationTable` | abstract specification of the reservations: outputs are taken when free and given up by trade | what `event-handler.service.ts` promises |
| `Execution` | the event handler | `event-handler.service.ts`, `execution.service.ts`, `types.ts` |
| `PendingTransactions` | the job and its strategy, beside a one-step event handler, the operator and the chain | `pending-transactions.service.ts`, `…controller.ts`, `transactions.service.ts`, `rebalance.service.ts`, `auto-rebalance.service.ts` |
| `OrderMirror` | the order table, those who write it, and the exchange's copy | `rune-orders.service.ts`, `rune-orders-database.service.ts`, `exchange.client.ts`, the saves of `pending-transactions.service.ts` and `event-handler.service.ts` |
| `PublicKey` | the variable the wallet and the connection share | `wallet.service.ts` |
| `WalletKeys` | the key in the row and in memory | `wallet.service.ts`, `encryption`, `settings.service.ts` |
| `Connection` | sockets, timer, registration | `websocket.service.ts` |
| `Session` | `WalletKeys` and `Connection` in one process | — |
| `Outputs` | the chain and the height of ord | external, from how the clients are used |
| `Funding` | finding outputs, with services that lag | `blockchain.service.ts`, `util.ts`, `provider.ts`, `bestinslot-client/client.ts`, `ordinals.service.ts`, `runes.service.ts` |
| `Splits` | splitting an asset | `account.service.ts`, `psbtUtils.ts`, `bitcoin/utils.ts` |
| `Funds` | `Funding` and `Splits` on one chain | — |
| `MC…` | the small instances | — |
| `Sums_proofs` | what the sums over sets and sequences yield, for the other proofs | — |
| `Execution_proofs` | theorems of `Execution` and `ReservationTable` | — |
| `Accounts_proofs` | theorems of `Execution` about quantities and values | — |
| `PendingTransactions_proofs`, `OrderMirror_proofs`, `WalletKeys_proofs` | theorems of these modules | — |
| `Session_proofs` | theorems of `Connection` and `Session` | — |
| `Funds_proofs` | theorems of `Funding`, `Splits` and `Funds` | — |

Where the state and the actions are the code's:

**Execution.** `reserved` is `reservedUtxos` (a function whose domain is the
reserved outputs), `locks` the lock map, `filled` and `tx` the two tables.  A
handler is named by its message.  `pc[m]` is the await it is suspended at:
`ReadOrder` (rows read one after the other), `UseSurplus`/`ListUtxos`/`TakeUtxos`
(reserve bids and asks), `FindTransaction`, `InsertTransaction` or
`UpdateTransaction`, the reply; `cpc[m]` is the cancel that runs under it,
because the code does not await it.  An entry of
`reserved` has the fields of the code's: the trade, the age, the order amount (the
surplus of an earlier reservation is computed from it) and the place it was taken in.  A sign
request validates, signs and replies.  `CleanupExpiredReservations` and `Tick`
are the timer and the time.  A message the exchange repeats is another `m`.  The
amount of a fill is any integer, as nobody looks at the string the exchange sends
(`types.ts:48-51`); amounts of satoshis are divided by `Scale`, which is 10 to the
decimals of the rune, and lose their fraction as BigInts do.  Two variables are history:
`overwritten` has the orders whose row was saved over a change made since it was read
(the code keeps no trace of that), and `lapsed` the outputs each trade held and gave up,
by a cancel, a failed request, the timeout or a restart.

**PendingTransactions.** One action per await of the job; the lists it collects
are variables (`toUpdate`, `txUpdate`, `txDelete`, `newOrders`), and the four
saves at the end are four actions with failures and restarts between them.  The
rows saved are those loaded before (`rows`, `book`): they overwrite what others
wrote meanwhile, and bring back rows that were deleted.  A failed lookup ends in
the code's catch, which deletes the transaction but leaves the amounts.  The
strategy is the row of the rune's configuration, which the operator may set and
remove at any time; the job reads it for each confirmed transaction (`GetConfig`)
and keeps what it read in `spread` until it has gone through the orders.
`SplitAsset` spends an output as `account.service.ts` does, without asking who has
reserved it.  `disturbed` is a history variable: some row changed while the job ran,
or the operator deleted one.

**OrderMirror.** `local` is the table, `exchange` the copy, `balance` what the
operator asked for and is the reference the table is compared with.  The other
writers of the table are here too: a writer is a run of the job or a handler of a
message; it loads rows one by one (`Load`), saves them whole with the status of some set
to closed (`Save`), which brings an old quantity or a deleted order back, and the job
then inserts counter orders (`SaveNewOrders`).  `overwritten` is history: the prices at
which somebody, writer or call, wrote a quantity over a change made since he read it.
The job means to merge counter orders into orders of the book, but looks for them in
status 'OPEN' where rows hold 'open', and finds none.  `unlocked` is whether
the wallet has a signer: without one `makeAuthenticatedRequest` rejects before
anything is sent, and a call or a sync ends as it does when the exchange refuses.

**Session.** `WalletKeys` follows each settings request through its database
calls; `shards` has one entry for each time a key was split, as the code appends.
A text is a key under the list of passwords it was encrypted with.  `Signer` is what
`withSigner` makes of the shards.  `Connection`
has a state for every socket ever opened and `current` is `wsConnection`; error
and close both set the timer, whichever socket they come from.

**Funds.** An output records when it was created and spent (a height, the
mempool, or never), so that an index at a given height is a set comprehension.
`Funding` is one query of either kind with the height it was told, ord's two
answers in either order, retries, bestinslot, and the check of each output.
Bestinslot is asked for `PAGE` outputs at a time, all pages at once; each is answered
at the height its index has then, and the whole answer counts as of the lowest.
`Splits` has the arithmetic of the code: sizes, rounding, dust, the edict's output
and what the runes protocol makes of it.

### Conventions

- An await of the database, an HTTP service or the websocket is a point where
  others may run; hops of settled promises are merged into the step before.  The
  driver (better-sqlite3) settles database awaits within one turn of the event
  loop, so the program has fewer interleavings than the models: what passes here
  holds there, and the counterexamples of section 5 use HTTP awaits and time only.
- Each await may reject.  Each may settle late; that it settles is a fairness
  assumption of the liveness runs.
- Time counts in ticks in `Execution`.  The timeout (30 s in the code) and the period
  of the cleanup (10 s) are two ticks each in `execution_open`: the timeout stays a
  multiple of the period, and a reservation made between two firings of the timer is
  found one tick before the timeout and one after it, one made at a firing exactly at it.
  `GrowOld` is the minute after which the job looks at a trade.
- Prices and quantities are whole units; the spread is an exact fraction rounded
  up, where the code uses floating point.  At the documented limit of 100 per cent a
  counter order may have price 0.
- In `PendingTransactions` a trade has one output; a second one is never looked at
  by the job (it reads the first).  The spread is a whole percentage; 1 stands for the
  default of a new row, 0.5.
- In `Outputs` every output counts as a taproot output where its size matters, as
  the sizes differ by an address's type and the wallet uses one.  ord answers 404
  for an output it has not indexed and the attempt fails; bestinslot leaves
  unknown outputs out.  There are no reorganisations; a spend that is still in the
  mempool may be dropped.

## 3. Runs

| Run | Question | What it shows |
|---|---|---|
| `execution_open` | Any two of these messages: a trade reserves a whole order, another trade reserves part of it or nothing, the first is cancelled or retried; with timeouts, failures, restarts and the order deleted. Do the trades stay apart and does everything end? | the reservations implement `ReservationTable`, none outlives timeout + period; locks and outputs are released and handlers finish, even of requests that cannot be served |
| `execution_trades` | Three requests at once, two or three of them for one trade; or four messages, two at a time, of two trades on shared orders that are cancelled or signed; any call fails and the process restarts | quantities in bounds, the reservations implement `ReservationTable`, lock exclusive, no orphaned reservation of a trade that has not errored, success names only held outputs and they cover the trade, fills are at every moment what pending trades took unless a save overwrote a change, and an output is signed twice only after it was given up |
| `execution_overfill` | (violation) "quantity exceeded" is an error | two concurrent trades are promised more than the order |
| `execution_negative` | (violation) filled amounts are not negative | a request for a negative amount is stored |
| `pending_failures` | Opposite trades, a strategy that changes, one failing call, restarts and a deletion against the job | rows well formed, no counter order at a loss, none twice |
| `pending_live` | Two sales that share orders and an output fall through or are mined, while the operator splits, a spend is dropped, an order is deleted and one call, any one, fails: does every trade settle, and is every amount accounted for? | every amount is given back, none twice; only mined trades are confirmed, and stay so; orders close only when full; every trade settles unless the failed call is one of the two before the loop |
| `pending_stuck` | (violation) a job that runs again and again settles every trade | after one of these two calls has failed it settles none |
| `mirror_books` | Two calls at once beside two syncs and a run of the job that saves whole rows and a counter order, the wallet unlocked and locked at any time, one refusal or restart | at prices where no write met another quantities add up and the exchange is never told more; the books converge when the wallet stays unlocked |
| `session_open` | Three requests, a failure or restart, overlapping sockets | no old key in memory, one encryption, never stranded, registered, no multiplying, reconnects |
| `session_unlocked` | (violation) a wallet that is initialised has a valid signer | after a second unlock it has none |
| `funds_open` | A query or a split while blocks arrive, both indexers lag and move between pages, others pay or spend, one call fails | found is what was asked for, queries end, fees are paid, parts get their runes when there is change |
| `funds_burned` | (violation) a split loses nothing | without change the edict names an output that is not there and the runes burn |

### Bounds, and why they are enough

- *Execution*: two trades, up to three orders and three outputs.  `Conversations` names
  which messages may come together and how many at once.  The hazards of the rows and the
  lock need two handlers that meet on them and a third message (cancel, retry) between
  their steps, a double signature two reserves and two signatures: `execution_trades` has
  three messages at once, or two at once out of four.  Time and fairness are dear, so
  `execution_open` has two messages besides the clock (`ClockRuns`), each of which may
  leave a cancel behind; in `execution_trades` what is given up is given up by cancels,
  failures and restarts.  `HonestExchange` is TRUE there:
  PSBTs are built from the outputs of a success reply.  Outputs there have one value and
  are a symmetry set; the run has no liveness property.
- *PendingTransactions*: two trades, up to two orders and two spare identifiers for
  counter orders; each trade reserves once.  A batch of two is the smallest in which
  changes to one order collide; in `pending_live` both trades want the only output,
  so that it is freed and used again.  One failing call (`MaxFailures`) can be any
  call; after it the job runs again and meets what it left.  The network drops the
  spend of each output at most once.  `Deletable` names the rows the operator may
  delete, `Settings` what he may set; `QueryFails` says whether the two calls outside
  of the loop's try may fail, which they may in every run (section 5).
- *OrderMirror*: two calls that may overlap, two syncs that never end, a writer with
  one order to load and one counter order, three identifiers, two prices, one failure.
  Logins and logouts are not bounded.
- *Session*: two good keys, a bad one, two passwords, three requests one after the
  other, two sockets, one publish that finds no connection, one failure or restart.
  Two sockets are what it takes for an old one to interfere.
- *Funds*: three outputs, heights 0..2, so that an index can be in step, one behind
  (retry) and two behind (next service); `PAGE = 1` where the code has 100, so that two
  outputs are two pages; one query and one split, one at a time
  beside the chain (`AtOnce = 1`); real satoshi amounts and the fee rates that make
  change appear and disappear.  `Traded` names the output a trade may spend.
- Each bound is a constant in a guard; nothing is cut off by a state constraint.
  Deadlock checking is off because every instance may run out of messages, calls or
  heights, which is the end of an instance and not of the program.

### Fairness

- *Execution*: weak fairness of each handler's steps, of the clock and of the
  cleanup timer: the event loop runs every settled promise and timer, and calls
  settle.  HTTP calls and the websocket handshake carry no timeout in the code; that
  they settle is an assumption, as is that a publish does.
- *PendingTransactions*: the cron fires, the job's steps and its calls settle, time
  passes, reservations expire, and what is in the mempool is mined.  A spend can be
  dropped once, and not for ever: a trade that is broadcast and dropped for ever never
  settles, and nothing the wallet does could change that.
- *OrderMirror*: calls and syncs settle; `ListLocal` again and again is the cron.  Nobody has to unlock the wallet: the books
  converge when it is unlocked from some moment on, which is the premise of
  `BooksConverge`.
- *Session*: the start, the timer and attempts end.  Strong fairness only of the
  opening of the current socket: attempts are made again and again, so some must
  succeed for `Reconnects`; weak fairness would say nothing, as each attempt may fail.
- *Funds*: weak fairness of the steps of a query in progress; no fairness of the
  chain or of the indexers, so `QueriesEnd` also covers an indexer that never moves.

## 4. Proofs

All are for every value of the constants that satisfies the module's named
assumption.  Every invariant, action property and refinement that a passing run checks is
stated by a theorem; what the runs alone show is listed at the end of the section.

| Theorem | Statement | Argument |
|---|---|---|
| `TableTypeCorrect`, `TableNeverHandsOver` | the abstract table is a function; between two holders an output is free | the table's steps only take free outputs |
| `TypeCorrect` | `Execution` ⇒ □`TypeOK` | inductive as it stands, one lemma per action; what a listing, a pick and a saved row contain are lemmas |
| `FillsInBounds` | □`FillBounds`, which is about the time until a negative amount is asked for | strengthened with: every row a handler holds in `snap` is within 0..quantity, and the amounts in rows are not negative.  A stale save is then harmless for the bounds (not for the sum) |
| `ReservationsImplementTable` | `Execution` ⇒ `ReservationTable` | holder ← the trade in `reserved`; each step maps to Acquire, Release, Expire or a stutter |
| `LockIsExclusive` | □`OneReservePerTrade` | strengthened with: a working reserve's trade is in `locks`, or a message cancels it |
| `SuccessMeansHeld` | while the clock stands still, `SuccessIsBacked` | strengthened with: what a handler took is held for its trade, unless a message cancels that |
| `SignedTwiceIsRemembered` | for an honest exchange, □`SignedTwiceIsGivenUp`, with cancels, retries, timeouts and restarts | `SignedInv`: what a success promised is still held by its trade or in `lapsed`, and every signature is of inputs that some success promised to its trade; a held output has one trade |
| `ReservationsTimeOut` | □`ReservationExpires` | strengthened with: age < timeout + ticks since the cleanup |
| `NoReservationIsOrphaned` | □`ReservationBacked`, whatever fails, restarts or times out | `WrittenInv`: an output that is held, unless a message cancels its trade, is in the row of the trade, or that row has errored, or a handler that has taken the output is about to write it down; a row that is loaded and will be saved lacks nothing of it |
| `PromisesAreCovered` | when of the messages that come together at most one reserves for a trade, □`TradesAreCovered` | `CoverInv`: nothing is held, written or taken for a trade before its one request comes, so the surplus it finds is none, and what it has picked is worth what it asks |
| `FillsAreAccounted` | when moreover a request names an order once and for no negative amount, □`FillsAccounted`, for handlers that overlap in any way, cancels, failures, timeouts and restarts | `CancelsInv`: a cancel that corrects the database is the only one of its trade and comes after its request.  `AccountsInv`: the row of every order that is not in `overwritten` is its initial fill and what pending rows promise; a handler that is about to save has read every order it names, and the save of an order nobody changed meanwhile moves the row and the promises by the same amount |
| `OnlyLostChangesOverCommit` | under the same hypotheses only an order in `overwritten` can be promised beyond its quantity (`execution_overfill` shows one that is) | from `AccountsInv` and the bounds of the fills |
| `MirrorTypeCorrect` | `OrderMirror` ⇒ □`TypeOK`, any number of calls and writers at once | `TypesInv`: the locals of each call, sync and writer fit its place |
| `BookAddsUp` | □`QuantitiesAddUp`, any number of calls, syncs and writers at once | `BalanceInv`: at a price that is not in `overwritten` the sum over the orders is the balance; `KindInv`: an order has the same price in the table, in every row a writer holds and in the book of every call, so each write moves one sum, and by what it adds when the row is still what was read |
| `BookNeverOversold` | □`NeverOffersMore`, any number of calls, syncs and writers at once | `BoundInv`: every quantity on the exchange, or that a call or sync means to send, is at most the table's at such a price; `KnownInv`: whatever identifier is anywhere is in the table or was deleted, so none is given out again |
| `NothingIsRebalancedTwice` | `RebalancedOnce` with any failures and restarts | `JobInv`: the trade of a prepared counter order is saved as confirmed, or deleted, before the counter orders are, and a trade whose counter orders exist is never loaded again |
| `ConfirmedStays` | unless the operator deletes, `ConfirmedIsFinal` | the rows loaded and those to be updated or deleted are not confirmed ones |
| `ConfirmedTradesAreMined` | □`ConfirmedIsMined`, whatever is dropped, split or changed | `MinedInv`: what was confirmed when the tip was read stays confirmed, and rows the job has marked confirmed, before they are saved too, spend such an output |
| `JobTypeCorrect` | `PendingTransactions` ⇒ □`TypeOK`, with failures, stops and deletions | `TypesInv`: orders, rows, place and counter orders are typed part by part |
| `CounterOrdersDoNotLose` | □`NoLoss` | `CountersInv`: a prepared counter order belongs to a fill of a loaded row and has the price computed from it; rounding and the book only move that price away from a loss |
| `SettledFillsAreAccounted`, `ClosedOrdersAreTaken` | when the process is not stopped in a run, □`FillsAccounted` and `ClosedOnlyWhenFull` | `AccountsInv` (of the job): while nothing failed and nobody else wrote, the table lacks exactly what the trades in `txDelete` and the part of the current one that is already reset give back, and from the save of the orders to that of the transactions it is ahead by it |
| `ConnectionTypeCorrect`, `NeverGivenUp`, `OpenMeansRegistered`, `TimersDoNotMultiply` | the invariants of `Connection` | `ConnInv`: while running, the current socket is live or the timer is set; live sockets and timer are counted against publishes; while there was none, only the current socket is live and it is the one that registers |
| `NeverEncryptedTwice` | `WalletKeys` ⇒ □`EncryptedOnce`, any overlap | `OneLockInv`: the stored text, every text a request is going to store and every row it has read have at most one lock, because only what is in the clear is encrypted |
| `MemoryHoldsStoredKey` | with one request at a time, □`SignsWithStoredKey` | `SignInv`: the request in progress is the only one, has read the row that is stored, and every shard in memory is of the stored key unless that has been cleared |
| `WalletTypeCorrect` | `WalletKeys` ⇒ □`WalletTypeOK`, any overlap | strengthened with: who is about to set a password asked for that, so the text it makes is under a password |
| `SessionImplementsWallet`, `SessionImplementsConnection` | the composition implements each part | a step of one is a step of it or a stutter; the wallet is the connection's `KeyChanges` |
| `SessionNeverGivesUp`, `SessionEncryptsOnce`, `SessionHoldsStoredKey` | the invariants hold of the composition | from the two above and the theorems of the parts |
| `FoundWhatWasAskedFor` | `Funding` ⇒ □`FoundIsAskedFor`, any lag | `FundingInv`: the outputs in question were in a block at the height that was read; an index that has reached that height has seen every one of them, so what it leaves unmarked is unmarked.  `BisInv`: each of them is on a page that is not answered yet, or was known at the lowest height answered so far, or will not count, for any size of a page |
| `FundingTypeCorrect` | `Funding` ⇒ □`FundingTypeOK` | `AnswersInv`: what an answer, a page or a check marks is among what was listed |
| `SplitsTypeCorrect` | `Splits` ⇒ □`SplitsTypeOK` | `ListedInv`, `TxInv`: a transaction spends listed outputs, and those stay in the wallet's set whatever the chain does |
| `SplitsPayTheirFee` | □`SplitPaysItsFee`, any outputs, requests and rates | the fee is monotone in inputs and outputs; with change the change is what is left after the fee of the larger transaction, without it at most the dust is left over (`FundedTransaction`) |
| `SplitsServeTheParts` | □`PartsGetTheirRunes`, any number of parts | serving the parts in order leaves the next one its amount as long as there is enough, and what is left goes to the last output: the shares sum to the runes spent (`AllottedShares`, by `SumPart` and `SumRenamed`) |
| `FundsKeepTheirPromises` | `Funds` ⇒ all five invariants of the two, beside each other | what a split does to the outputs is one of the changes a query's invariants allow (`ChainKept`: outputs keep their worth and runes, and the height at which they were confirmed), and a query changes nothing a split uses |

Sums.  `SumFunctionOnSet` and `SumFunction` are folds, which the community module
defines through a choice over functions on all subsets, and the induction theorems of
the library take a predicate as a parameter, which the provers cannot instantiate.
`Sums_proofs` goes around this: a set of naturals has a least element (from `WFMin`,
which is about sets), hence induction for a *set* of naturals, hence for a set of finite
sets (`FiniteInduction`); a predicate becomes the set of what satisfies it.  From it the
module proves that the fold exists and obeys its recursion, and then what the other
modules cite: a sum without or with one more element, over a union, a part, a filter, a
renaming, a sequence.  What remains out of reach is a recursive definition of a shape of
its own, so the models sum with these operators and write the rest in closed form (in
`Splits`, the outputs taken to pay with are the last *n* plain ones, and the number of
parts that are served is a quotient).

Assumptions used beyond the modules' own: none of the theorems is about `FairSpec`.
Some state a condition on the constants without which the code breaks the property: TLC
finds each of these properties violated on a small instance once the condition is dropped.
The exception is the second row: the properties leave out the trades that reserve
repeatedly, and `execution_trades` checks them beside such trades; the proofs are for
conversations that have none.

| Condition | Theorems | What happens without it |
|---|---|---|
| the clock stands still | `SuccessMeansHeld` | a reservation may time out before the reply |
| at most one of the messages that come together reserves for a trade | `PromisesAreCovered`, `FillsAreAccounted`, `OnlyLostChangesOverCommit` | of such a trade: the surplus of the first request is computed wrongly, the amounts of a retry are lost |
| PSBTs are built from the outputs of a success reply | `SignedTwiceIsRemembered` | whatever the exchange asks for is signed: the inputs are compared with nothing |
| a request names an order once | `FillsAreAccounted`, `OnlyLostChangesOverCommit` | it is corrected by its last amount twice |
| no amount is negative | the same two | a decrease stops at zero, which is more than there was |
| the process is not stopped | `SettledFillsAreAccounted`, `ClosedOrdersAreTaken` | a stop between the save of the orders and the deletion of the trades gives the amounts back again in the next run |
| no trade is `Deletable` | `ConfirmedStays` | the operator deletes it |
| one request at a time | `MemoryHoldsStoredKey`, `SessionHoldsStoredKey` | two updates of the settings cross |

Some conditions are part of the properties instead, because the code breaks what they
would say otherwise, and TLC shows that too: `OneReservePerTrade`, `SuccessIsBacked` and
`ReservationBacked` leave out the trades that a message cancels (it deletes the lock of a
reserve in progress, and frees what it goes on to promise); `FillsAccounted` the orders,
`QuantitiesAddUp` and `NeverOffersMore` the prices, of which a save overwrote a change;
`SignedTwiceIsGivenUp` the outputs that a trade has given up.

Only model-checked: everything temporal under fairness (`LocksAreReleased`,
`OutputsAreReleased`, `HandlersFinish`, `SettledUnlessStuck`, `BooksConverge`,
`Reconnects`, `QueriesEnd`), which the prover does not reach; and `TradesAreCovered` and
`FillsAccounted` of `Execution` beside trades that reserve repeatedly.

## 5. Findings and disagreements seen

Five are runs:

- `execution_overfill`: `event-handler.service.ts:216` reads the order, `:289` saves
  it, HTTP calls lie between.  Two requests pass the check at `:220` on the same row;
  the later save overwrites the earlier, and both trades are pending.  `:220-221`
  says exceeding the quantity is an error.
- `execution_negative`: the amount of a fill is a string that nobody validates
  (`types.ts:48-51`); a negative one passes the check at `event-handler.service.ts:220`,
  which only compares the sum with the quantity, and is stored.  The repository's README
  asks "Why does filled amount go negative" (`README.md:27`), and a cancel takes care that
  it does not (`:126-129`).  While no negative amount is asked for, `FillBounds` shows that
  no interleaving stores one.
- `pending_stuck`: the flag of the job is set at `pending-transactions.service.ts:35`; the
  calls at `:37` and `:43` are outside of any try.  When one of them rejects,
  `@nestjs/schedule` swallows the rejection, the flag stays set and every later run returns
  at `:31-34`, until the process is started again.  `:27` says "Cron job to process pending
  transactions every minute".  `SettledUnlessStuck` shows that every other failure is made
  good by a later run.
- `funds_burned`: the edict at `account.service.ts:220` names output *splits + 2*,
  which means "every output" only when there are that many, that is, when change is
  appended.  `psbtUtils.ts:86` appends none up to 546 sats; the edict then names an
  output that does not exist and the runes burn.
- `session_unlocked`: `init` appends the shards of a new split at every unlock and
  clears nothing (`wallet.service.ts:59-66`).  After a second one (`POST unlock`, or a
  settings update with the key left as 'xxx', which validates the password by way of
  `init`) `withSigner` combines the shards of two splits and gets no key of the wallet:
  nothing can be signed until logout or restart.  `isInitialized`, "initialized with a
  valid signer" (`:163`), still says yes.

The following were met while modelling.  They are in the models, where the runs
are set up so that the property stated is the one the code can keep; each can be
seen by changing the bound named.

Trade execution
- A cancel deletes the lock of a reserve in progress (`event-handler.service.ts:103`),
  so `OneReservePerTrade` and `SuccessIsBacked` leave out trades that a message cancels.
- A transaction that names one order twice is corrected by its last amount twice
  (`:118-134`), not by the sum.
- A retry of a cancelled trade extends the row and leaves it `errored` (`:255-266`):
  the quantities taken are not accounted to a pending trade.
- A retry that fails gives up what the trade was promised before, and its cancel,
  which nobody awaits (`:297`), marks the row only after two more reads: in between
  another trade may be promised the same outputs, and a sign request of either is
  answered (`:391` looks at the row and not at the reservations).
- The same happens after the timeout, which frees the outputs of a trade and leaves its
  row pending, after a restart, and while a cancel is on its way to the row: another
  trade is promised the outputs, and they are signed for both.  `SignedTwiceIsGivenUp`
  says that there is no other way.  The comment at `:404` reads "Check if all reserved
  UTXOs are included in the PSBT inputs"; what it computes, `usedUtxos`, is compared with
  nothing.
- That cancel saves the row as it has read it (`:137`): what a third request added
  meanwhile is lost from it, and its outputs stay reserved until the timeout.  Hence
  the second half of `ReservationBacked`.
- The surplus of a trade's earlier reservations is computed from the *remaining*
  amount, which is negative when the output covered it (`:308-311`): a trade that
  reserves again is promised outputs it needs already.  `TradesAreCovered` leaves out
  trades that reserve repeatedly.
- `event-handler.service.ts:41` says "Run every minute"; the timer runs every 10 s.

The job
- It saves order rows it loaded earlier (`pending-transactions.service.ts:230`) over
  reservations made meanwhile; hence `~disturbed` in `FillsAccounted` and
  `ClosedOnlyWhenFull`.
- It recognises a trade by its first output; an output that was freed and used by
  another trade confirms both (`:59`).
- A trade broadcast after its output was found unspent is deleted all the same
  (`:49-65`); hence `GrowOld`'s minute is a bet and not a guarantee.
- An order is closed as full while trades on it can still fall through (`:161`); what
  they give back later stays in a closed order.
- The output of a trade may be spent by a split of the operator
  (`account.service.ts:351`); the job takes any spend for the trade's own and confirms
  it, with counter orders for an exchange that never happened.
- The spread is documented as 0 to 100 (`auto-rebalance.dto.ts:15-20`), but no
  `ValidationPipe` is installed (`main.ts`), so nothing enforces it; `NoLoss` is for
  documented spreads.
- The book the counter price is kept inside of is read with status 'OPEN' where rows
  hold 'open' (`:114`, `rune-order.entity.ts:9`), so it is always empty.
- The last save failing loses the counter orders of a confirmed trade (`:234-244`).
- The four saves of a run are four statements. A stop after the first, which stores what
  is given back, and before the third, which deletes the trades, gives the same amounts
  back again in the next run (`:230-244`); hence `CanRestart = FALSE` in `pending_live`.
- A lookup that fails deletes the trade and gives nothing back (`:59-61, 100, 220`);
  hence `failures = 0` in `FillsAccounted`.
- A comment says the job runs every minute; the cron expression is 30 s.

The mirror
- Two creates at one price at once read the same quantity and one is lost
  (`rune-orders.service.ts:42`), if the database calls give way to each other.
- The job and the event handler save order rows they read before HTTP calls
  (`pending-transactions.service.ts:226-231`, `event-handler.service.ts:269-289`): an old
  quantity overwrites a merge of which the exchange has been told, and a deleted order is
  inserted again, and created on the exchange by the next sync.  Hence `overwritten` in
  `QuantitiesAddUp` and `NeverOffersMore`; `BooksConverge` holds all the same, of books that
  have the lost quantity, or the deleted order, both.
- A sync asks the exchange to delete an order that was created after it listed the
  table (`:233`); a later one creates it again, which is what `BooksConverge` is about.
  The comment at `:223` describes the opposite direction.

Wallet and settings
- `PUT /settings` with a new key stores it in the clear, resets the wallet and tries
  to open it with no password, which fails silently.
- `setupPassword` overwrites the stored key before the new one is known to be a key;
  when the init after the save fails the caller is told of an error although the
  password has changed.
- Overlapping `updateSettings` lose one of two updates; hence `AtOnce = 1`.

Connection
- The open handler sends on `wsConnection`, not on its own socket; when a publisher
  has put a connecting one there, `send` throws in an async handler and the process
  ends (`websocket.service.ts:58`).  This is the phase "ended" of the model;
  `ConnectedIsRegistered` says that it takes a publisher that found no connection.  On a
  socket that is open already it registers the client of the older one.
- The settings are read once; if that fails at the start, the address stays undefined
  for ever (`:41`).  `Reconnects` is stated for a process that has read it.
- The client id is not refreshed when the key changes; replaced sockets are not closed;
  a publish may never settle (`:174`).

Splits
- The sum of the runes is not a number, so the check never refuses
  (`account.service.ts:304-311`); a split of satoshis can be refused with ample funds;
  errors thrown as strings lose their message (`:383`).
- Every split's row is refused by the table (`satsAmount` is required), so the caller
  gets an error for a transaction that is on its way.
- A split does not look at the reservations of trades.
- A part of exactly 10 000 sats is refused.

## 6. Not modelled

- Branch-and-bound selection (off by default) and helpers with no caller
  (`takeNetowrkFeeFromOutput`, `selectRuneOutputs`), brc20 and sandshrew paths.
- Balance and liquidity queries: they change no state.
- The configuration of automatic splits: rows that nothing reads.
- A key that is replaced leaves the orders of the old key on the exchange; the mirror
  is modelled for one key.
- Orders whose status the exchange changes by itself; what the exchange does with a
  book is only what the sync sees of it.
- Bootstrap, error filter, packaging; validation and layout of PSBTs beyond which
  outputs they spend and what they pay.

## 7. Plan

Order of work, the most important behaviour first.  Done: 1 to 9.

1. `ReservationTable`, `Execution`: reservations, locks, fills, with the abstract
   table as refinement.
2. `PendingTransactions`: the job against the handler and the chain.
3. `OrderMirror`.
4. `WalletKeys`, `Connection`, `Session`.
5. `Outputs`, `Funding`, `Splits`, `Funds`.
6. Proofs of the type invariants and of the safety invariants above.
7. The rebalance strategy and splits beside the job, the locked wallet beside the
   mirror, pages of an answer in `Funding`, the signer of `WalletKeys`.
8. Sums, the accounts of `Execution`, the job and the mirror, splits beside queries,
   and the type invariants that were left: proved.
9. Handlers that overlap in `FillsAreAccounted`, any amounts in `Execution`, the other
   writers of the order table in `OrderMirror`: done.
10. Next: splits beside reservations (`Splits` with `ReservationTable`), which the code
   does not coordinate; several outputs per trade in `PendingTransactions`.
11. Next: an abstract ledger of quantities (an order's units are free, promised or
   sold) that `Execution` while no save overwrites a change, and the job, both implement.
