-------------------------------- MODULE Funding --------------------------------
(***************************************************************************)
(* How the wallet finds the outputs it can use                             *)
(* (libs/blockchain/src/blockchain.service.ts, runes/runes.service.ts,     *)
(* ordinals/ordinals.service.ts, common/inscription-provider/): plain      *)
(* outputs to pay with, or outputs with runes to sell.  The list comes     *)
(* from one service and what is on the outputs from another, which may be  *)
(* behind: its answers are taken when it has reached the height that       *)
(* mempool.space answered before, tried again when it is one block short,  *)
(* and else asked of the next service.                                     *)
(***************************************************************************)
EXTENDS Outputs

CONSTANTS
  Queries,     \* what the process asks for: "plain" outputs or "runes"
  None,
  PAGE,        \* outputs that bestinslot is asked about in one request (100)
  MaxFailures  \* bound: calls of the services that fail

ASSUME FundingAssumption ==
  /\ Queries \subseteq {"plain", "runes"}
  /\ None \notin Nat
  /\ PAGE \in Nat \ {0}
  /\ MaxFailures \in Nat

VARIABLES
  bisHeight,     \* height of the bestinslot index
  query,         \* what is asked for
  stage,         \* what is asked of the indexers: "runes", "inscriptions" or "address"
  pc,
  utxos,         \* the outputs that are still in question
  height,        \* the height the answer must have reached
  triesLeft,
  block_height,  \* the height that was answered, None before that
  data,          \* what was answered, None before ord does
  pages,         \* what bestinslot is asked and has not answered
  unchecked,     \* outputs whose state mempool.space has not answered yet
  found,         \* outputs of the result
  failures

answer == <<block_height, data, pages>>
queryVars ==
  <<bisHeight, query, stage, pc, utxos, height, triesLeft, answer, unchecked, found, failures>>

FundingInit ==
  /\ bisHeight = 0
  /\ query = "none" /\ stage = "none" /\ pc = "idle"
  /\ utxos = {} /\ height = 0 /\ triesLeft = 0
  /\ block_height = None /\ data = {} /\ pages = {}
  /\ unchecked = {} /\ found = {}
  /\ failures = 0

Fail == failures < MaxFailures /\ failures' = failures + 1

(* The query is answered, and what it knew is gone.                        *)
Answer(label) ==
  /\ pc' = label
  /\ stage' = "none" /\ utxos' = {} /\ height' = 0 /\ triesLeft' = 0
  /\ block_height' = None /\ data' = {} /\ pages' = {}
  /\ unchecked' = {}

-------------------------------------------------------------------------------
(* getValidFundingInputs lists what mempool.space has: outputs under 1000  *)
(* sats and unconfirmed ones are left out.  Nothing left is an error.      *)
Worthwhile(o) == outputs[o].value >= 1000 /\ IsConfirmed(o)

GetUtxos ==
  /\ pc = "idle"
  /\ "plain" \in Queries
  /\ query' = "plain"
  /\ LET usable == {o \in DOMAIN outputs : IsUnspent(o) /\ Worthwhile(o)}
     IN IF usable = {}
        THEN Answer("failed")
        ELSE /\ utxos' = usable
             /\ pc' = "tip" /\ stage' = "runes"
             /\ UNCHANGED <<height, triesLeft, answer, unchecked>>
  /\ UNCHANGED <<bisHeight, found, failures>>

(* getRunesUnspentOutputs lists what the indexers have for the address.    *)
GetRunes ==
  /\ pc = "idle"
  /\ "runes" \in Queries
  /\ query' = "runes"
  /\ stage' = "address"
  /\ pc' = "tip"
  /\ UNCHANGED <<bisHeight, utxos, height, triesLeft, answer, unchecked, found, failures>>

(* The provider reads the height first, and starts an attempt with ord.    *)
AsksOrd ==
  /\ pc' = IF stage = "address" THEN "address" ELSE "ord"
  /\ block_height' = None
  /\ data' = None
  /\ UNCHANGED pages

GetTipHeight ==
  /\ pc = "tip"
  /\ height' = tip
  /\ triesLeft' = 2
  /\ AsksOrd
  /\ UNCHANGED <<bisHeight, query, stage, utxos, unchecked, found, failures>>

OrdAddress ==
  /\ pc = "address"
  /\ utxos' = ListedAt(ordHeight)
  /\ pc' = "ord"
  /\ UNCHANGED <<bisHeight, query, stage, height, triesLeft, answer, unchecked, found, failures>>

(* withHeight asks for the height and for the outputs at the same time.    *)
OrdBlockheight ==
  /\ pc = "ord"
  /\ block_height = None
  /\ block_height' = ordHeight
  /\ UNCHANGED <<bisHeight, query, stage, pc, utxos, height, triesLeft, data, pages,
                 unchecked, found, failures>>

(* What the answer of ord says is on the outputs: the inscriptions come    *)
(* with the runes, and count as well (ordinals.service.ts:14-29).          *)
Marked(S) ==
  {o \in S : \/ outputs[o].runes > 0
             \/ stage = "inscriptions" /\ outputs[o].inscribed}

(* Bestinslot knows nothing of the runes when it is asked for inscriptions.*)
MarkedByBis(S) ==
  IF stage = "inscriptions" THEN {o \in S : outputs[o].inscribed} ELSE Marked(S)

(* It does not find an output it has not indexed, and the attempt fails.   *)
OrdFinds(S) == S \subseteq Known(ordHeight)

(* Bestinslot is asked page by page, for all of them at once.              *)
Pages(S) ==
  LET page(o) == (Cardinality({p \in S : p < o})) \div PAGE
  IN {{p \in S : page(p) = page(o)} : o \in S}

AsksPages ==
  /\ pc' = "bis"
  /\ block_height' = None
  /\ data' = {}
  /\ pages' = Pages(utxos)

AsksBis == AsksPages /\ triesLeft' = 1

OrdOutputs ==
  /\ pc = "ord"
  /\ data = None
  /\ IF OrdFinds(utxos)
     THEN data' = Marked(utxos) /\ UNCHANGED <<pc, triesLeft, block_height, pages>>
     ELSE AsksBis
  /\ UNCHANGED <<bisHeight, query, stage, utxos, height, unchecked, found, failures>>

-------------------------------------------------------------------------------
(* The answer is taken: what is marked is what was asked for, or what must *)
(* not be spent.  Runes come first and inscriptions after them.            *)
Remaining(marked) == IF query = "runes" THEN marked ELSE utxos \ marked

(* Nothing to pay with is an error, nothing to sell is not.                *)
Outcome(S) == IF query = "plain" /\ S = {} THEN "failed" ELSE "done"

Take(marked) ==
  IF Remaining(marked) = {}
  THEN Answer(Outcome({}))
  ELSE /\ utxos' = Remaining(marked)
       /\ block_height' = None /\ data' = {} /\ pages' = {}
       /\ IF stage = "runes"
          THEN pc' = "tip" /\ stage' = "inscriptions" /\ UNCHANGED unchecked
          ELSE pc' = "check" /\ unchecked' = utxos' /\ UNCHANGED stage
       /\ UNCHANGED <<height, triesLeft>>

(* BlockheightAwareRetry                                                   *)
Reached(h) == h >= height
WrongMayRetry(h) == h = height - 1 /\ triesLeft >= 0  \* wrong: once too often
MayRetry(h) == h = height - 1 /\ triesLeft > 0

OrdAnswers ==
  /\ pc = "ord"
  /\ block_height # None /\ data # None
  /\ \/ Reached(block_height) /\ Take(data)
     \/ /\ ~Reached(block_height)
        /\ MayRetry(block_height)
        /\ pc' = "wait"
        /\ UNCHANGED <<stage, utxos, height, triesLeft, answer, unchecked>>
     \/ /\ ~Reached(block_height)
        /\ ~MayRetry(block_height)
        /\ AsksBis
        /\ UNCHANGED <<stage, utxos, height, unchecked>>
  /\ UNCHANGED <<bisHeight, query, found, failures>>

(* Five seconds later.                                                     *)
WrongTriesOneFewer == triesLeft                   \* wrong: as often as it takes
TriesOneFewer == triesLeft - 1

RetryOrd ==
  /\ pc = "wait"
  /\ triesLeft' = TriesOneFewer
  /\ AsksOrd
  /\ UNCHANGED <<bisHeight, query, stage, utxos, height, unchecked, found, failures>>

RetryBis ==
  /\ pc = "waitBis"
  /\ triesLeft' = TriesOneFewer
  /\ AsksPages
  /\ UNCHANGED <<bisHeight, query, stage, utxos, height, unchecked, found, failures>>

(* Each page is answered with the height of the index it was looked up in, *)
(* and without what is not known there; all of it counts as of the lowest. *)
WrongLowest(h, k) == IF h > k THEN h ELSE k         \* wrong: the highest
Lowest(h, k) == IF h < k THEN h ELSE k

BisPage ==
  /\ pc = "bis"
  /\ stage # "address"
  /\ \E page \in pages :
       /\ pages' = pages \ {page}
       /\ data' = data \cup MarkedByBis(page \cap Known(bisHeight))
       /\ block_height' = IF block_height = None THEN bisHeight
                                                ELSE Lowest(block_height, bisHeight)
  /\ UNCHANGED <<bisHeight, query, stage, pc, utxos, height, triesLeft, unchecked, found,
                 failures>>

BisAnswers ==
  /\ pc = "bis"
  /\ stage # "address" /\ pages = {}
  /\ \/ Reached(block_height) /\ Take(data)
     \/ /\ ~Reached(block_height)
        /\ IF MayRetry(block_height)
           THEN /\ pc' = "waitBis"
                /\ UNCHANGED <<stage, utxos, height, triesLeft, answer, unchecked>>
           ELSE Answer("failed")
  /\ UNCHANGED <<bisHeight, query, found, failures>>

(* Its list for an address is taken at any height (provider.ts:412).       *)
BisAddress ==
  /\ pc = "bis"
  /\ stage = "address"
  /\ Take(Marked(ListedAt(bisHeight)))
  /\ UNCHANGED <<bisHeight, query, found, failures>>

(* getUnspentOutput: an output is safe when it is confirmed and unspent.   *)
Safe(o) == IsConfirmed(o) /\ IsUnspent(o)

GetUnspentOutput ==
  /\ pc = "check"
  /\ \E o \in unchecked :
       /\ found' = IF Safe(o) THEN found \cup {o} ELSE found
       /\ IF unchecked = {o}
          THEN Answer(Outcome(found'))
          ELSE /\ unchecked' = unchecked \ {o}
               /\ UNCHANGED <<stage, pc, utxos, height, triesLeft, answer>>
  /\ UNCHANGED <<bisHeight, query, failures>>

(* A call fails: with ord, bestinslot is asked; else the query fails.      *)
CallFails ==
  /\ Fail
  /\ \/ pc \in {"address", "ord"} /\ AsksBis /\ UNCHANGED <<stage, utxos, height, unchecked>>
     \/ pc \in {"tip", "bis", "check"} /\ Answer("failed")
  /\ UNCHANGED <<bisHeight, query, found>>

BisIndexes ==
  /\ bisHeight < tip
  /\ bisHeight' = bisHeight + 1
  /\ UNCHANGED <<query, stage, pc, utxos, height, triesLeft, answer, unchecked, found, failures>>

QueryStep ==
  \/ GetUtxos \/ GetRunes \/ GetTipHeight \/ OrdAddress \/ OrdBlockheight \/ OrdOutputs
  \/ OrdAnswers \/ RetryOrd \/ RetryBis \/ BisPage \/ BisAnswers \/ BisAddress
  \/ GetUnspentOutput \/ CallFails

FundingNext ==
  \/ (QueryStep \/ BisIndexes) /\ UNCHANGED chainVars
  \/ ChainStep /\ UNCHANGED queryVars

FundingSpec == FundingInit /\ OutputsInit /\ [][FundingNext]_<<chainVars, queryVars>>
(* Timers fire, and the calls of a query are answered or fail.            *)
FundingFairness == WF_queryVars(pc # "idle" /\ QueryStep)

-------------------------------------------------------------------------------
Pcs == {"idle", "tip", "address", "ord", "wait", "bis", "waitBis", "check", "done", "failed"}

(* Every variable holds what the code can put there.                       *)
FundingTypeOK ==
  /\ bisHeight \in 0..tip
  /\ query \in Queries \cup {"none"}
  /\ stage \in {"none", "runes", "inscriptions", "address"}
  /\ pc \in Pcs
  /\ {utxos, unchecked, found} \subseteq SUBSET DOMAIN outputs
  /\ height \in 0..tip
  /\ triesLeft \in 0..2
  /\ block_height \in 0..tip \cup {None}
  /\ data # None => data \subseteq utxos
  /\ UNION pages \subseteq utxos
  /\ failures \in 0..MaxFailures

(* What is found to pay with holds neither runes nor inscriptions, and     *)
(* what is found to sell holds runes, wherever the indexers are when they  *)
(* are asked and whichever of them answers; all of it is confirmed         *)
(* (blockchain.service.ts:79-150, util.ts:16-46, provider.ts:330-397).     *)
FoundIsAskedFor ==
  \A o \in found \cup unchecked :
    /\ IsConfirmed(o)
    /\ query = "plain" <=> IsPlain(o)
    /\ query = "runes" => outputs[o].runes > 0

(* Every query ends: indexers that stay behind are not asked forever       *)
(* (util.ts:31-45).                                                        *)
QueriesEnd == (pc # "idle") ~> (pc \in {"done", "failed"})
===============================================================================
