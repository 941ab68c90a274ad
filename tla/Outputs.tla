-------------------------------- MODULE Outputs --------------------------------
(***************************************************************************)
(* The outputs of the wallet on the chain, and how far the ord server has  *)
(* indexed it.  The program only asks for them: mempool.space knows what   *)
(* is in blocks and in the mempool (libs/blockchain/src/bitcoin/           *)
(* bitcoin.service.ts), ord what is in the blocks it has seen              *)
(* (libs/blockchain/src/common/ord-client/client.ts).                      *)
(***************************************************************************)
EXTENDS Integers, FiniteSets, Sequences, SequencesExt

CONSTANTS
  Wallets,    \* what the wallet may hold at first: sequences of outputs
  Deposits,   \* outputs that others may pay to it
  Traded,     \* bound: which outputs a trade may spend
  MaxTip,     \* bound: height of the chain
  MaxOutputs  \* bound: outputs after which no more are paid to the wallet

(* An output is created and spent in a block, in the mempool, or not.      *)
Mempool == MaxTip + 1
Never == MaxTip + 2

Output ==
  [value : Nat, runes : Nat, inscribed : BOOLEAN, created : 0..Mempool, spent : 0..Never]

ASSUME OutputsAssumption ==
  /\ MaxTip \in Nat /\ MaxOutputs \in Nat
  /\ Wallets \subseteq Seq(Output)
  /\ Deposits \subseteq Output

VARIABLES
  outputs,   \* every output the wallet ever had, in the order they appeared
  tip,       \* height of the chain, as mempool.space answers it
  ordHeight  \* height of the ord index

chainVars == <<outputs, tip, ordHeight>>

OutputsInit ==
  /\ outputs \in Wallets
  /\ tip = 0
  /\ ordHeight = 0

IsPlain(o) == outputs[o].runes = 0 /\ ~outputs[o].inscribed
IsConfirmed(o) == outputs[o].created =< tip
IsUnspent(o) == outputs[o].spent = Never

(* What an index at height h has, and what it lists for the address.       *)
Known(h) == {o \in DOMAIN outputs : outputs[o].created =< h}
ListedAt(h) == {o \in Known(h) : outputs[o].spent > h}

-------------------------------------------------------------------------------
Confirmed(height) == IF height = Mempool THEN tip + 1 ELSE height

Mine ==
  /\ tip < MaxTip
  /\ tip' = tip + 1
  /\ outputs' = [o \in DOMAIN outputs |->
       [outputs[o] EXCEPT !.created = Confirmed(@), !.spent = Confirmed(@)]]
  /\ UNCHANGED ordHeight

OrdIndexes ==
  /\ ordHeight < tip
  /\ ordHeight' = ordHeight + 1
  /\ UNCHANGED <<outputs, tip>>

(* Others pay to the wallet, or it spends in a trade.                      *)
Deposit ==
  /\ Len(outputs) < MaxOutputs
  /\ \E d \in Deposits : outputs' = Append(outputs, d)
  /\ UNCHANGED <<tip, ordHeight>>

Spend ==
  /\ \E o \in Traded \cap DOMAIN outputs :
       /\ IsUnspent(o)
       /\ outputs' = [outputs EXCEPT ![o].spent = Mempool]
  /\ UNCHANGED <<tip, ordHeight>>

ChainStep == Mine \/ OrdIndexes \/ Deposit \/ Spend
===============================================================================
