--------------------------------- MODULE Splits --------------------------------
(***************************************************************************)
(* Splitting an asset into several outputs                                 *)
(* (apps/hotwallet/src/account/account.service.ts,                         *)
(* libs/blockchain/src/psbtUtils.ts): the outputs ord lists for the        *)
(* address are checked, a transaction is built from them, signed and       *)
(* broadcast, and a row is stored for it.  Every output counts as a        *)
(* taproot one where its size matters.                                     *)
(***************************************************************************)
EXTENDS Outputs, Functions, FiniteSetsExt

CONSTANTS
  Requests,  \* splits that are asked for
  FeeRates   \* answers of the fee service, sats per vbyte

Request == [asset : {"BTC", "rune"}, splits : Nat \ {0}, amount : Nat \ {0}]

ASSUME SplitsAssumption ==
  /\ Requests \subseteq Request
  /\ FeeRates \subseteq Nat

VARIABLES
  request,  \* the split in progress
  spc,
  listed,   \* the outputs ord lists, in its order
  gone,     \* those of them that ord says are spent
  tx        \* the transaction

splitVars == <<request, spc, listed, gone, tx>>

NoRequest == [asset |-> "none", splits |-> 0, amount |-> 0]
NoTx == [ins |-> {}, outs |-> <<>>, rate |-> 0, runestone |-> FALSE, first |-> 0]

SplitsInit ==
  /\ request = NoRequest
  /\ spc = "idle"
  /\ listed = <<>>
  /\ gone = {}
  /\ tx = NoTx

Value(S) == SumFunctionOnSet([o \in DOMAIN outputs |-> outputs[o].value], S)
Runes(S) == SumFunctionOnSet([o \in DOMAIN outputs |-> outputs[o].runes], S)
Total(seq) == SumFunction(seq)

-------------------------------------------------------------------------------
(* What ord says of the outputs it listed.                                 *)
Plain == {i \in DOMAIN listed : IsPlain(listed[i])}
PlainOutputs == {listed[i] : i \in Plain}
AssetOutputs == {o \in Range(listed) : outputs[o].runes > 0 /\ o \notin gone}

(* checkSufficientFunds.  The sum of the runes is not a number, which is   *)
(* never less than what is required: only the sats are checked, those of   *)
(* outputs with inscriptions, which are not going to be used, included.    *)
Sufficient(r) ==
  Value({o \in Range(listed) \ gone : outputs[o].runes = 0}) >=
    (IF r.asset = "BTC" THEN r.splits * (r.amount + 1000) ELSE r.splits * 1000)

(* calculateTransactionSize, in vbytes, for taproot inputs and outputs.    *)
Size(ins, outs) == 12 + 76 * ins + 43 * outs
Fee(ins, outs, rate) == Size(ins, outs) * (rate + 2)
DUST == 546

(* The outputs of a split of sats: equal parts of everything there is, as  *)
(* long as what is left is not under the amount, and what is left then.    *)
Rounded(a, b) == (2 * a + b) \div (2 * b)

WrongRest(left) == <<left>>                    \* wrong: although nothing is left
Rest(left) == IF left > 0 THEN <<left>> ELSE <<>>

SatsOutputs(r, rate) ==
  LET total == Value(PlainOutputs)
      n == Cardinality(PlainOutputs)
      left == total - (140 * n + 40 * (r.splits + 1)) * (rate + 2)
      part == Rounded(total, r.splits)
      parts == IF left < r.amount THEN 0 ELSE (left - r.amount) \div part + 1
  IN [k \in 1..parts |-> part] \o Rest(left - parts * part)

(* The outputs of a split of a rune carry as few sats as may be, and the   *)
(* runestone is one more output, without any.                              *)
PayOutputs(r, rate) ==
  IF r.asset = "BTC" THEN SatsOutputs(r, rate) ELSE [k \in 1..r.splits |-> DUST]

CanBuild(r, rate) ==
  IF r.asset = "BTC"
  THEN /\ Cardinality(PlainOutputs) \in 1..(r.splits - 1)
       /\ Value(PlainOutputs) >= r.amount
       /\ 10000 \notin Range(SatsOutputs(r, rate))
  ELSE /\ Cardinality(AssetOutputs) \in 1..(r.splits - 1)
       /\ Runes(AssetOutputs) >= r.amount

(* appendUnspentOutputsAsNetworkFee: plain outputs are taken from the end  *)
(* until they pay for the outputs and a fee that allows for change, which  *)
(* is an output if it is worth one.                                        *)
HasChange(change) == change > DUST

Marker(runestone) == IF runestone THEN 1 ELSE 0

WrongFeeFor(ins, outs, runestone, rate) ==     \* wrong: no room for the runestone and change
  Fee(Cardinality(ins), Len(outs), rate)
FeeFor(ins, outs, runestone, rate) ==
  Fee(Cardinality(ins), Len(outs) + Marker(runestone) + 1, rate)

Funded(ins, outs, runestone, rate) ==
  LET last(n) == {i \in Plain : Cardinality({j \in Plain : j >= i}) =< n}
      spent(n) == ins \cup {listed[i] : i \in last(n)}
      change(n) == Value(spent(n)) - Total(outs) - FeeFor(spent(n), outs, runestone, rate)
      enough == {n \in 0..Cardinality(Plain) : change(n) >= 0}
      n == Min(enough)
  IN IF enough = {} THEN NoTx
     ELSE [ins       |-> spent(n),
           outs      |-> IF HasChange(change(n)) THEN Append(outs, change(n)) ELSE outs,
           rate      |-> rate,
           runestone |-> runestone,
           first     |-> 0]

(* The runestone: an edict for the amount, to one past the last output if  *)
(* there is change, which means every output; what is left goes to the     *)
(* first one.                                                              *)
WrongEdictOutput(r) == r.splits + 1            \* wrong: one too few
EdictOutput(r) == r.splits + 2

-------------------------------------------------------------------------------
(* What the protocol makes of it.  An edict to an output there is not      *)
(* burns every rune; one to the number of outputs serves them in order.    *)
Position(r, i) == IF i =< r.splits THEN i - 1 ELSE i
Clip(n, most) == IF n < 0 THEN 0 ELSE IF n > most THEN most ELSE n

Allotted(r, t) ==
  LET total == Runes(t.ins)
      count == Len(t.outs) + 1
      share(i) ==
        IF EdictOutput(r) = count THEN Clip(total - (i - 1) * r.amount, r.amount)
        ELSE IF EdictOutput(r) = Position(r, i) THEN Clip(total, r.amount)
        ELSE 0
      shares == [i \in DOMAIN t.outs |-> share(i)]
  IN IF ~t.runestone \/ EdictOutput(r) > count
     THEN [i \in DOMAIN t.outs |-> 0]
     ELSE [shares EXCEPT ![1] = @ + total - Total(shares)]

(* The mempool takes no spent output, and none that is not worth spending. *)
IsAccepted(t) ==
  /\ \A o \in t.ins : IsUnspent(o)
  /\ \A v \in Range(t.outs) : v >= 330

Accepted(r, t) ==
  LET left == [o \in DOMAIN outputs |->
                IF o \in t.ins THEN [outputs[o] EXCEPT !.spent = Mempool] ELSE outputs[o]]
      shares == Allotted(r, t)
  IN left \o [i \in DOMAIN t.outs |->
               [value |-> t.outs[i], runes |-> shares[i], inscribed |-> FALSE,
                created |-> Mempool, spent |-> Never]]

-------------------------------------------------------------------------------
(* splitAsset.  When it is answered, what it knew is gone.                 *)
Answered ==
  /\ spc' = "done"
  /\ request' = NoRequest
  /\ listed' = <<>>
  /\ gone' = {}
  /\ tx' = NoTx

Ask ==
  /\ spc = "idle"
  /\ request' \in Requests
  /\ spc' = "address"
  /\ UNCHANGED <<outputs, listed, gone, tx>>

ListOutputs ==
  /\ spc = "address"
  /\ listed' \in Bijection(1..Cardinality(ListedAt(ordHeight)), ListedAt(ordHeight))
  /\ spc' = "outputs"
  /\ UNCHANGED <<outputs, request, gone, tx>>

ReadOutputs ==
  /\ spc = "outputs"
  /\ gone' = {o \in Range(listed) : outputs[o].spent =< ordHeight}
  /\ spc' = "check"
  /\ UNCHANGED <<outputs, request, listed, tx>>

(* The fee rate is the last answer that counts: those that follow it, of   *)
(* getUnspentOutput and getRuneInfo, never change, and are not looked at   *)
(* for whether an output is spent.                                         *)
Transaction(r, rate) ==
  Funded(IF r.asset = "BTC" THEN {} ELSE AssetOutputs, PayOutputs(r, rate), r.asset # "BTC", rate)

CreateSplitPsbt ==
  /\ spc = "check"
  /\ \E rate \in FeeRates :
       IF /\ Sufficient(request)
          /\ CanBuild(request, rate)
          /\ Transaction(request, rate) # NoTx
       THEN /\ tx' = Transaction(request, rate)
            /\ spc' = "broadcast"
            /\ UNCHANGED <<request, listed, gone>>
       ELSE Answered
  /\ UNCHANGED outputs

BroadcastSplit ==
  /\ spc = "broadcast"
  /\ IF IsAccepted(tx)
     THEN /\ outputs' = Accepted(request, tx)
          /\ tx' = [tx EXCEPT !.first = Len(outputs) + 1]
          /\ spc' = "save"
          /\ UNCHANGED <<request, listed, gone>>
     ELSE Answered /\ UNCHANGED outputs

(* The row of a split has no satsAmount, which the table requires, so that *)
(* it is refused: the split is answered with an error, and the job never   *)
(* sees it.                                                                *)
SaveSplit ==
  /\ spc = "save"
  /\ Answered
  /\ UNCHANGED outputs

(* A call fails, or the wallet is locked when it is time to sign.          *)
SplitFails ==
  /\ spc \in {"address", "outputs", "check", "broadcast"}
  /\ Answered
  /\ UNCHANGED outputs

SplitStep ==
  \/ Ask \/ ListOutputs \/ ReadOutputs \/ CreateSplitPsbt \/ BroadcastSplit
  \/ SaveSplit \/ SplitFails

SplitsNext ==
  \/ SplitStep /\ UNCHANGED <<tip, ordHeight>>
  \/ ChainStep /\ UNCHANGED splitVars

SplitsSpec == SplitsInit /\ OutputsInit /\ [][SplitsNext]_<<chainVars, splitVars>>

-------------------------------------------------------------------------------
(* Every variable holds what the code can put there.                       *)
SplitsTypeOK ==
  /\ request \in Request \cup {NoRequest}
  /\ spc \in {"idle", "address", "outputs", "check", "broadcast", "save", "done"}
  /\ listed \in Seq(DOMAIN outputs) /\ IsInjective(listed)
  /\ gone \subseteq Range(listed)
  /\ tx.ins \subseteq Range(listed)
  /\ \A v \in Range(tx.outs) : v > 0

(* A split pays the fee for the size it has in the end, whichever outputs  *)
(* were taken to pay for it, and beyond that at most what a change output  *)
(* would cost and what is not worth one                                    *)
(* (psbtUtils.ts:36-96, account.service.ts:242-268).                       *)
SplitPaysItsFee ==
  spc = "broadcast" =>
    LET count == Len(tx.outs) + Marker(tx.runestone)
        paid == Value(tx.ins) - Total(tx.outs)
    IN /\ paid >= Fee(Cardinality(tx.ins), count, tx.rate)
       /\ paid =< Fee(Cardinality(tx.ins), count + 1, tx.rate) + DUST

Made == {o \in DOMAIN outputs : tx.first =< o /\ o < tx.first + Len(tx.outs)}

(* A split with change gives every part its amount, if there is enough,    *)
(* and loses nothing (account.service.ts:206-226, psbtUtils.ts:86-91).     *)
PartsGetTheirRunes ==
  tx.first > 0 /\ tx.runestone /\ Len(tx.outs) > request.splits =>
    /\ Runes(Made) = Runes(tx.ins)
    /\ Runes(tx.ins) >= request.splits * request.amount =>
         \A i \in 0..(request.splits - 1) : outputs[tx.first + i].runes >= request.amount

(* "The asset was successfully split" (account.controller.ts:90): whatever *)
(* the split was built from, no rune is lost.                              *)
RunesAreKept == tx.first > 0 /\ tx.runestone => Runes(Made) = Runes(tx.ins)
===============================================================================
