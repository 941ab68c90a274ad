---------------------------- MODULE Funds_proofs ----------------------------
(***************************************************************************)
(* Proofs about queries and splits: that a query finds what was asked for, *)
(* for any outputs, any height and any lag of the indexers; that a split   *)
(* pays the fee it should and loses no rune, for any outputs, requests,    *)
(* fee rates and number of parts; and that the two keep it side by side.   *)
(***************************************************************************)
EXTENDS Funds, Sums_proofs, SequenceTheorems, TLAPS

(* The chain.                                                              *)
ChainInv ==
  /\ outputs \in Seq(Output)
  /\ tip \in 0..MaxTip
  /\ ordHeight \in 0..tip

(* Nothing that is known of an output is taken back.                       *)
KeepsOutput(o) ==
  /\ o \in DOMAIN outputs'
  /\ outputs'[o].value = outputs[o].value
  /\ outputs'[o].runes = outputs[o].runes
  /\ outputs'[o].inscribed = outputs[o].inscribed
  /\ outputs[o].created =< tip => outputs'[o].created = outputs[o].created

ChainKept == ChainInv' /\ tip =< tip' /\ \A o \in DOMAIN outputs : KeepsOutput(o)

Asking == pc \in {"tip", "address", "ord", "wait", "bis", "waitBis", "check"}
Querying == pc \in {"ord", "wait", "bis", "waitBis"}

(* Runes are looked for at the address, plain outputs in two stages.       *)
StageInv ==
  /\ pc \in Pcs
  /\ bisHeight \in 0..tip
  /\ height \in 0..tip
  /\ Asking => \/ query = "runes" /\ stage = "address"
               \/ query = "plain" /\ stage \in {"runes", "inscriptions"}
  /\ pc = "address" => stage = "address"
  /\ ~Asking => unchecked = {} /\ utxos = {}
  /\ pc = "idle" => found = {}

(* The outputs in question were in a block when the height was read, and   *)
(* the answer of ord, once it is there, is right.                          *)
UtxosInv ==
  /\ utxos \subseteq DOMAIN outputs
  /\ Asking => \A o \in utxos : IsConfirmed(o)
  /\ Querying /\ stage # "address" => \A o \in utxos : outputs[o].created =< height
  /\ Asking /\ stage = "inscriptions" => \A o \in utxos : outputs[o].runes = 0
  /\ pc = "address" => data = None
  /\ pc = "ord" /\ data # None => data = Marked(utxos)

(* What is found is what was asked for.                                    *)
Right(o) ==
  /\ o \in DOMAIN outputs
  /\ IsConfirmed(o)
  /\ query = "plain" <=> IsPlain(o)
  /\ query = "runes" => outputs[o].runes > 0

FoundInv ==
  /\ pc = "check" => \A o \in utxos : Right(o)
  /\ unchecked \subseteq utxos
  /\ unchecked # {} => pc = "check"
  /\ \A o \in found : Right(o)

FundingInv == ChainInv /\ StageInv /\ UtxosInv /\ FoundInv

(* What bestinslot is asked for, and what its answers so far say: all that *)
(* is sought is among them, of what was in a block at the lowest height.   *)
Sought(o) == IF stage = "inscriptions" THEN outputs[o].inscribed ELSE outputs[o].runes > 0

LookedUp(o) ==
  /\ block_height \in Nat
  /\ outputs[o].created =< block_height /\ Sought(o) => o \in data

BisInv ==
  pc = "bis" /\ stage # "address" =>
    /\ block_height \in Nat \cup {None}
    /\ \A o \in utxos : (\E page \in pages : o \in page) \/ LookedUp(o)

-------------------------------------------------------------------------------
LEMMA InitFunding == FundingInit /\ OutputsInit => FundingInv
BY OutputsAssumption
DEF FundingInit, OutputsInit, FundingInv, ChainInv, StageInv, UtxosInv, FoundInv, Asking,
    Querying, Pcs

(* What is known of an output has its type.                                *)
LEMMA OutputTypes ==
  ASSUME ChainInv
  PROVE  \A o \in DOMAIN outputs : outputs[o].created \in Nat /\ outputs[o].runes \in Nat
<1>1. \A o \in DOMAIN outputs : outputs[o] \in Output
  BY ElementOfSeq DEF ChainInv
<1> QED
  BY <1>1, OutputsAssumption DEF Output, Mempool

(* Blocks and payments change nothing of what a query relies on.           *)
LEMMA ChainKeepsOutputs ==
  ASSUME ChainInv, ChainStep
  PROVE  ChainKept
<1> USE DEF ChainKept
<1>1. DOMAIN outputs = 1..Len(outputs) /\ Len(outputs) \in Nat
        /\ \A o \in DOMAIN outputs : outputs[o] \in Output
  BY ElementOfSeq DEF ChainInv
<1>2. CASE Mine
  <2> DEFINE new(o) == [outputs[o] EXCEPT !.created = Confirmed(@), !.spent = Confirmed(@)]
  <2>0. tip < MaxTip /\ tip' = tip + 1 /\ ordHeight' = ordHeight
    BY <1>2 DEF Mine
  <2>1. tip \in Nat /\ tip + 1 \in 0..MaxTip /\ MaxTip \in Nat /\ ordHeight \in 0..(tip + 1)
    BY <2>0, OutputsAssumption DEF ChainInv
  <2>2. \A o \in DOMAIN outputs : new(o) \in Output
    <3> SUFFICES ASSUME NEW o \in DOMAIN outputs
                 PROVE  new(o) \in Output
      OBVIOUS
    <3>1. \A h \in 0..Never : Confirmed(h) \in 0..Never
      BY <2>1 DEF Confirmed, Mempool, Never
    <3>2. \A h \in 0..Mempool : Confirmed(h) \in 0..Mempool
      BY <2>1 DEF Confirmed, Mempool
    <3>3. outputs[o] \in Output
      BY <1>1
    <3> QED
      BY <3>1, <3>2, <3>3 DEF Output
  <2>3. \A o \in DOMAIN outputs :
          /\ new(o).value = outputs[o].value
          /\ new(o).runes = outputs[o].runes
          /\ new(o).inscribed = outputs[o].inscribed
          /\ outputs[o].created =< tip => new(o).created = outputs[o].created
    BY <1>1, <2>1 DEF Output, Confirmed, Mempool
  <2>4. outputs' = [o \in DOMAIN outputs |-> new(o)]
    BY <1>2 DEF Mine
  <2> HIDE DEF new
  <2>5. outputs' \in [1..Len(outputs) -> Output]
    BY <1>1, <2>2, <2>4
  <2>6. outputs' \in Seq(Output)
    BY <1>1, <2>5, SeqDef
  <2> QED
    BY <2>0, <2>1, <2>3, <2>4, <2>6 DEF ChainInv, KeepsOutput
<1>3. CASE OrdIndexes
  BY <1>3, OutputsAssumption DEF OrdIndexes, ChainInv, KeepsOutput
<1>4. CASE Deposit
  <2>1. PICK d \in Output : outputs' = Append(outputs, d)
    BY <1>4, OutputsAssumption DEF Deposit
  <2>2. outputs' \in Seq(Output) /\ \A o \in DOMAIN outputs : o \in DOMAIN outputs' /\ outputs'[o] = outputs[o]
    BY <1>1, <2>1 DEF ChainInv
  <2> QED
    BY <1>4, <2>2 DEF Deposit, ChainInv, KeepsOutput
<1>5. CASE Spend
  <2>1. PICK o \in DOMAIN outputs : outputs' = [outputs EXCEPT ![o].spent = Mempool]
    BY <1>5 DEF Spend
  <2>2. [outputs[o] EXCEPT !.spent = Mempool] \in Output
    BY <1>1, OutputsAssumption DEF Output, Mempool, Never
  <2>3. outputs' = [outputs EXCEPT ![o] = [outputs[o] EXCEPT !.spent = Mempool]]
    BY <2>1
  <2>4. outputs' \in Seq(Output) /\ DOMAIN outputs' = DOMAIN outputs
    BY <1>1, <2>2, <2>3 DEF ChainInv
  <2>5. \A p \in DOMAIN outputs :
          outputs'[p] = IF p = o THEN [outputs[o] EXCEPT !.spent = Mempool] ELSE outputs[p]
    BY <2>3
  <2>6. \A p \in DOMAIN outputs : KeepsOutput(p)
    BY <1>1, <2>4, <2>5 DEF KeepsOutput, Output
  <2> QED
    BY <1>5, <2>4, <2>6 DEF Spend, ChainInv
<1> QED
  BY <1>2, <1>3, <1>4, <1>5 DEF ChainStep

LEMMA ChainKeepsFunding ==
  ASSUME FundingInv, ChainKept, UNCHANGED queryVars
  PROVE  FundingInv'
<1>1. ChainInv' /\ tip =< tip' /\ \A o \in DOMAIN outputs : KeepsOutput(o)
  BY DEF ChainKept
<1>2. tip \in Nat /\ tip' \in Nat
  BY <1>1, OutputsAssumption DEF FundingInv, ChainInv
<1>3. \A o \in DOMAIN outputs : outputs[o].created \in Nat
  BY OutputTypes DEF FundingInv
<1>4. \A o \in DOMAIN outputs : IsConfirmed(o) =>
        IsConfirmed(o)' /\ outputs'[o].created = outputs[o].created
  BY <1>1, <1>2, <1>3 DEF KeepsOutput, IsConfirmed
<1>5. \A o \in DOMAIN outputs : Right(o) => Right(o)'
  BY <1>1, <1>4 DEF queryVars, answer, Right, IsPlain, KeepsOutput
<1>6. utxos \subseteq DOMAIN outputs
  BY DEF FundingInv, UtxosInv
<1>7. Marked(utxos)' = Marked(utxos)
  BY <1>1, <1>6 DEF Marked, KeepsOutput, queryVars
<1>8. StageInv'
  BY <1>1, <1>2 DEF FundingInv, StageInv, queryVars, answer, Asking
<1>9. UtxosInv'
  BY <1>1, <1>4, <1>6, <1>7
  DEF FundingInv, UtxosInv, queryVars, answer, Asking, Querying, KeepsOutput
<1>10. FoundInv'
  BY <1>5 DEF FundingInv, FoundInv, Right, queryVars
<1> QED
  BY <1>1, <1>8, <1>9, <1>10 DEF FundingInv

-------------------------------------------------------------------------------
(* A query that is answered keeps what it has found.                       *)
LEMMA AnswerKeepsFunding ==
  ASSUME FundingInv, UNCHANGED <<chainVars, bisHeight, query>>,
         NEW label \in {"done", "failed"}, Answer(label),
         \A o \in found' : Right(o)
  PROVE  FundingInv'
<1>1. ChainInv' /\ \A o : Right(o)' = Right(o)
  BY DEF FundingInv, ChainInv, chainVars, Right, IsConfirmed, IsPlain
<1>2. 0 \in 0..tip
  BY OutputsAssumption DEF FundingInv, ChainInv
<1> QED
  BY <1>1, <1>2
  DEF Answer, answer, FundingInv, StageInv, UtxosInv, FoundInv, Pcs, Asking, Querying, chainVars

(* What an answer that is taken must mark: in the first stage all that     *)
(* holds runes, in the second all that is inscribed, and at the address    *)
(* nothing but what holds runes and is in a block.                         *)
Marks(marked) ==
  /\ stage = "runes" => \A o \in utxos : outputs[o].runes > 0 => o \in marked
  /\ stage = "inscriptions" => \A o \in utxos : outputs[o].inscribed => o \in marked
  /\ stage = "address" =>
       \A o \in marked : o \in DOMAIN outputs /\ IsConfirmed(o) /\ outputs[o].runes > 0

LEMMA TakeKeepsFunding ==
  ASSUME FundingInv, Querying, UNCHANGED <<chainVars, bisHeight, query, found>>,
         NEW marked, Marks(marked), Take(marked)
  PROVE  FundingInv'
<1>1. ChainInv' /\ \A o : Right(o)' = Right(o)
  BY DEF FundingInv, ChainInv, chainVars, Right, IsConfirmed, IsPlain
<1>2. CASE Remaining(marked) = {}
  BY <1>2, AnswerKeepsFunding DEF Take, Outcome, FundingInv, FoundInv
<1>3. CASE Remaining(marked) # {}
  <2>1. \A o \in Remaining(marked) : o \in DOMAIN outputs /\ IsConfirmed(o)
    BY DEF Remaining, Marks, FundingInv, StageInv, UtxosInv, Asking, Querying
  <2>2. stage = "runes" => \A o \in Remaining(marked) : outputs[o].runes = 0
    <3>1. \A o \in DOMAIN outputs : outputs[o].runes \in Nat
      BY OutputTypes DEF FundingInv
    <3> QED
      BY <2>1, <3>1 DEF Remaining, Marks, FundingInv, StageInv, Asking, Querying
  <2>3. stage # "runes" => \A o \in Remaining(marked) : Right(o)
    BY <2>1 DEF Remaining, Marks, Right, IsPlain, FundingInv, StageInv, UtxosInv, Asking, Querying
  <2>4. unchecked = {} /\ \A o \in found : Right(o)
    BY DEF FundingInv, FoundInv, Querying
  <2>5. CASE stage = "runes"
    BY <1>1, <1>3, <2>1, <2>2, <2>4, <2>5
    DEF Take, FundingInv, StageInv, UtxosInv, FoundInv, Pcs, Asking, Querying, chainVars, IsConfirmed
  <2>6. CASE stage # "runes"
    <3>1. /\ pc' = "check" /\ utxos' = Remaining(marked) /\ unchecked' = utxos'
          /\ UNCHANGED <<stage, height>>
      BY <1>3, <2>6 DEF Take
    <3>2. stage = "inscriptions" => \A o \in Remaining(marked) : outputs[o].runes = 0
      BY DEF Remaining, FundingInv, UtxosInv, StageInv, Asking, Querying
    <3>3. StageInv'
      BY <3>1 DEF FundingInv, StageInv, Pcs, Asking, Querying, chainVars
    <3>4. UtxosInv'
      BY <2>1, <3>1, <3>2 DEF FundingInv, UtxosInv, Asking, Querying, chainVars, IsConfirmed
    <3>5. FoundInv'
      BY <1>1, <2>3, <2>4, <2>6, <3>1 DEF FoundInv
    <3> QED
      BY <1>1, <3>3, <3>4, <3>5 DEF FundingInv
  <2> QED
    BY <2>5, <2>6
<1> QED
  BY <1>2, <1>3

-------------------------------------------------------------------------------
(* What ord answers is what is on the outputs.  Bestinslot must have seen  *)
(* the block of every output in question: that is what its height says.    *)
LEMMA OrdMarks == FundingInv /\ pc = "ord" /\ data # None => Marks(data)
BY DEF FundingInv, UtxosInv, Marks, Marked, Asking

(* An index that has reached the height asked for marks what it should.    *)
LEMMA BisMarks ==
  ASSUME FundingInv, BisInv, pc = "bis", stage # "address", pages = {}, Reached(block_height)
  PROVE  Marks(data)
<1>1. \A o \in utxos : outputs[o].created \in Nat /\ outputs[o].created =< height
  BY OutputTypes DEF FundingInv, UtxosInv, Querying
<1>2. height \in Nat /\ \A o \in utxos : LookedUp(o)
  BY OutputsAssumption DEF FundingInv, ChainInv, StageInv, BisInv
<1>3. \A o \in utxos : Sought(o) => o \in data
  BY <1>1, <1>2 DEF Reached, LookedUp
<1> QED
  BY <1>3 DEF Marks, Sought

LEMMA BisMarksAddress ==
  ASSUME FundingInv, pc = "bis", stage = "address"
  PROVE  Marks(Marked(ListedAt(bisHeight)))
<1>1. bisHeight \in Nat /\ tip \in Nat /\ bisHeight =< tip
  BY OutputsAssumption DEF FundingInv, ChainInv, StageInv
<1>2. \A o \in DOMAIN outputs : outputs[o].created \in Nat
  BY OutputTypes DEF FundingInv
<1> QED
  BY <1>1, <1>2 DEF Marks, Marked, ListedAt, Known, IsConfirmed

(* The steps of a query.                                                   *)
LEMMA QueryKeepsFunding ==
  ASSUME FundingInv, BisInv, QueryStep \/ BisIndexes, UNCHANGED chainVars
  PROVE  FundingInv'
<1>1. ChainInv' /\ \A o : (query' = query => Right(o)' = Right(o))
  BY DEF FundingInv, ChainInv, chainVars, Right, IsConfirmed, IsPlain
<1>2. \A o \in found : Right(o)
  BY DEF FundingInv, FoundInv
<1>3. tip \in Nat /\ ordHeight \in Nat /\ ordHeight =< tip
  BY OutputsAssumption DEF FundingInv, ChainInv
<1> USE DEF Pcs, Asking, Querying
<1>4. CASE GetUtxos
  <2> DEFINE usable == {o \in DOMAIN outputs : IsUnspent(o) /\ Worthwhile(o)}
  <2>1. \A o \in usable : o \in DOMAIN outputs /\ IsConfirmed(o)
    BY DEF Worthwhile
  <2>2. /\ pc = "idle" /\ query' = "plain" /\ UNCHANGED <<bisHeight, found>>
        /\ \/ Answer("failed")
           \/ /\ utxos' = usable /\ pc' = "tip" /\ stage' = "runes"
              /\ UNCHANGED <<height, triesLeft, answer, unchecked>>
    BY <1>4 DEF GetUtxos
  <2> HIDE DEF usable
  <2> QED
    BY <1>1, <1>3, <2>1, <2>2
    DEF Answer, answer, FundingInv, StageInv, UtxosInv, FoundInv, chainVars, IsConfirmed
<1>5. CASE GetRunes
  BY <1>1, <1>5 DEF GetRunes, answer, FundingInv, StageInv, UtxosInv, FoundInv, chainVars
<1>6. CASE GetTipHeight
  BY <1>1, <1>2, <1>3, <1>6
  DEF GetTipHeight, AsksOrd, FundingInv, StageInv, UtxosInv, FoundInv, chainVars, IsConfirmed, Marked
<1>7. CASE OrdAddress
  <2>1. \A o \in ListedAt(ordHeight) : o \in DOMAIN outputs /\ IsConfirmed(o)
    <3>1. \A o \in DOMAIN outputs : outputs[o].created \in Nat
      BY OutputTypes DEF FundingInv
    <3> QED
      BY <1>3, <3>1 DEF ListedAt, Known, IsConfirmed
  <2>2. /\ pc = "address" /\ pc' = "ord" /\ utxos' = ListedAt(ordHeight) /\ data' = data
        /\ UNCHANGED <<bisHeight, query, stage, height, unchecked, found>>
    BY <1>7 DEF OrdAddress, answer
  <2> QED
    BY <1>1, <1>2, <2>1, <2>2
    DEF FundingInv, StageInv, UtxosInv, FoundInv, chainVars, IsConfirmed, Marked
<1>8. CASE OrdBlockheight
  <2>1. UNCHANGED <<bisHeight, query, stage, pc, utxos, height, data, unchecked, found>>
    BY <1>8 DEF OrdBlockheight
  <2> QED
    BY <1>1, <1>2, <2>1
    DEF FundingInv, StageInv, UtxosInv, FoundInv, chainVars, IsConfirmed, Marked
<1>9. CASE OrdOutputs
  <2>1. /\ UNCHANGED <<bisHeight, query, stage, utxos, height, unchecked, found>>
        /\ pc = "ord"
        /\ \/ data' = Marked(utxos) /\ pc' = "ord"
           \/ pc' = "bis"
    BY <1>9 DEF OrdOutputs, AsksBis, AsksPages
  <2> QED
    BY <1>1, <1>2, <2>1
    DEF FundingInv, StageInv, UtxosInv, FoundInv, chainVars, IsConfirmed, Marked
<1>10. CASE OrdAnswers
  <2>1. CASE Reached(block_height) /\ Take(data)
    BY <1>10, <2>1, OrdMarks, TakeKeepsFunding DEF OrdAnswers
  <2>2. CASE ~(Reached(block_height) /\ Take(data))
    <3>1. /\ pc = "ord" /\ UNCHANGED <<bisHeight, query, found, stage, utxos, height, unchecked>>
          /\ pc' \in {"wait", "bis"}
      BY <1>10, <2>2 DEF OrdAnswers, AsksBis, AsksPages, answer
    <3> QED
      BY <1>1, <1>2, <3>1 DEF FundingInv, StageInv, UtxosInv, FoundInv, chainVars, IsConfirmed
  <2> QED
    BY <2>1, <2>2
<1>11. CASE RetryOrd
  BY <1>1, <1>2, <1>3, <1>11
  DEF RetryOrd, AsksOrd, FundingInv, StageInv, UtxosInv, FoundInv, chainVars, IsConfirmed, Marked
<1>12. CASE RetryBis
  BY <1>1, <1>2, <1>3, <1>12
  DEF RetryBis, AsksPages, FundingInv, StageInv, UtxosInv, FoundInv, chainVars, IsConfirmed, Marked
<1>13. CASE BisAnswers
  <2>0. pc = "bis" /\ stage # "address" /\ pages = {} /\ UNCHANGED <<bisHeight, query, found>>
    BY <1>13 DEF BisAnswers
  <2>1. CASE Reached(block_height) /\ Take(data)
    BY <2>0, <2>1, BisMarks, TakeKeepsFunding
  <2>2. CASE Answer("failed")
    BY <1>2, <2>0, <2>2, AnswerKeepsFunding
  <2>3. CASE pc' = "waitBis" /\ UNCHANGED <<stage, utxos, height, triesLeft, answer, unchecked>>
    BY <1>1, <1>2, <2>0, <2>3
    DEF answer, FundingInv, StageInv, UtxosInv, FoundInv, chainVars, IsConfirmed
  <2> QED
    BY <1>13, <2>1, <2>2, <2>3 DEF BisAnswers
<1>17. CASE BisPage
  <2>1. /\ pc = "bis"
        /\ UNCHANGED <<bisHeight, query, stage, pc, utxos, height, unchecked, found>>
    BY <1>17 DEF BisPage
  <2> QED
    BY <1>1, <1>2, <2>1 DEF FundingInv, StageInv, UtxosInv, FoundInv, chainVars, IsConfirmed
<1>18. CASE BisAddress
  <2>1. pc = "bis" /\ stage = "address" /\ UNCHANGED <<bisHeight, query, found>>
          /\ Take(Marked(ListedAt(bisHeight)))
    BY <1>18 DEF BisAddress
  <2> QED
    BY <2>1, BisMarksAddress, TakeKeepsFunding
<1>14. CASE GetUnspentOutput
  <2>1. PICK o \in unchecked :
          /\ found' = IF Safe(o) THEN found \cup {o} ELSE found
          /\ IF unchecked = {o}
             THEN Answer(Outcome(found'))
             ELSE /\ unchecked' = unchecked \ {o}
                  /\ UNCHANGED <<stage, pc, utxos, height, triesLeft, answer>>
    BY <1>14 DEF GetUnspentOutput
  <2>2. pc = "check" /\ UNCHANGED <<bisHeight, query>>
    BY <1>14 DEF GetUnspentOutput
  <2>3. \A p \in found' : Right(p)
    BY <1>2, <2>1, <2>2 DEF FundingInv, FoundInv
  <2>4. CASE unchecked = {o}
    BY <2>1, <2>2, <2>3, <2>4, AnswerKeepsFunding DEF Outcome
  <2>5. CASE unchecked # {o}
    BY <1>1, <2>1, <2>2, <2>3, <2>5
    DEF FundingInv, StageInv, UtxosInv, FoundInv, chainVars, IsConfirmed
  <2> QED
    BY <2>4, <2>5
<1>15. CASE CallFails
  <2>1. UNCHANGED <<bisHeight, query, found>>
    BY <1>15 DEF CallFails
  <2>2. CASE pc \in {"address", "ord"} /\ AsksBis /\ UNCHANGED <<stage, utxos, height, unchecked>>
    BY <1>1, <1>2, <2>1, <2>2
    DEF AsksBis, AsksPages, FundingInv, StageInv, UtxosInv, FoundInv, chainVars, IsConfirmed
  <2>3. CASE Answer("failed")
    BY <1>2, <2>1, <2>3, AnswerKeepsFunding
  <2> QED
    BY <1>15, <2>2, <2>3 DEF CallFails
<1>16. CASE BisIndexes
  BY <1>1, <1>2, <1>3, <1>16
  DEF BisIndexes, answer, FundingInv, StageInv, UtxosInv, FoundInv, ChainInv, chainVars, IsConfirmed, Marked
<1> QED
  BY <1>4, <1>5, <1>6, <1>7, <1>8, <1>9, <1>10, <1>11, <1>12, <1>13, <1>14, <1>15, <1>16, <1>17, <1>18
  DEF QueryStep

(* Every output is on a page, whatever the size of one.                    *)
LEMMA AsksPagesKeepsBis ==
  ASSUME AsksPages, UNCHANGED utxos
  PROVE  BisInv'
<1>1. \A o \in utxos : \E page \in Pages(utxos) : o \in page
  <2> SUFFICES ASSUME NEW o \in utxos
               PROVE  \E page \in Pages(utxos) : o \in page
    OBVIOUS
  <2> DEFINE page(q) == (Cardinality({p \in utxos : p < q})) \div PAGE
             mine == {p \in utxos : page(p) = page(o)}
  <2>1. o \in mine
    OBVIOUS
  <2>2. mine \in Pages(utxos)
    BY DEF Pages
  <2> QED
    BY <2>1, <2>2
<1> QED
  BY <1>1 DEF AsksPages, BisInv

LEMMA BisPageKeepsBis ==
  ASSUME FundingInv, BisInv, BisPage, UNCHANGED chainVars
  PROVE  BisInv'
<1>1. PICK page \in pages :
        /\ pages' = pages \ {page}
        /\ data' = data \cup MarkedByBis(page \cap Known(bisHeight))
        /\ block_height' = IF block_height = None THEN bisHeight
                                                 ELSE Lowest(block_height, bisHeight)
  BY DEF BisPage
<1>2. pc = "bis" /\ stage # "address" /\ UNCHANGED <<pc, stage, utxos, outputs>>
  BY DEF BisPage, chainVars
<1>3. bisHeight \in Nat /\ None \notin Nat
  BY OutputsAssumption, FundingAssumption DEF FundingInv, StageInv, ChainInv
<1>4. \A o \in utxos : o \in DOMAIN outputs /\ outputs[o].created \in Nat
  BY OutputTypes DEF FundingInv, UtxosInv
<1> SUFFICES ASSUME NEW o \in utxos
             PROVE  (\E q \in pages' : o \in q) \/ LookedUp(o)'
  <2>1. block_height' \in Nat
    BY <1>1, <1>2, <1>3 DEF BisInv, Lowest
  <2> QED
    BY <1>2, <2>1 DEF BisInv
<1>5. CASE LookedUp(o)
  BY <1>1, <1>2, <1>3, <1>4, <1>5 DEF LookedUp, Sought, Lowest
<1>6. CASE ~LookedUp(o) /\ o \notin page
  BY <1>1, <1>2, <1>6 DEF BisInv
<1>7. CASE o \in page
  <2>1. outputs[o].created =< bisHeight /\ Sought(o) =>
          o \in MarkedByBis(page \cap Known(bisHeight))
    BY <1>4, <1>7 DEF MarkedByBis, Marked, Known, Sought
  <2>2. block_height \in Nat \/ block_height = None
    BY <1>2 DEF BisInv
  <2>3. block_height' \in Nat /\ block_height' =< bisHeight
    BY <1>1, <1>3, <2>2 DEF Lowest
  <2> QED
    BY <1>1, <1>2, <1>3, <1>4, <2>1, <2>3 DEF LookedUp, Sought
<1> QED
  BY <1>5, <1>6, <1>7

(* So does a step of the chain.                                            *)
LEMMA ChainKeepsBis ==
  ASSUME FundingInv, BisInv, ChainKept, UNCHANGED queryVars
  PROVE  BisInv'
<1>1. pc = "bis" => \A o \in utxos : o \in DOMAIN outputs /\ IsConfirmed(o)
  BY DEF FundingInv, UtxosInv, Asking
<1>2. pc = "bis" => \A o \in utxos : LookedUp(o) => LookedUp(o)'
  BY <1>1 DEF ChainKept, LookedUp, Sought, KeepsOutput, IsConfirmed, queryVars, answer
<1> QED
  BY <1>2 DEF BisInv, queryVars, answer

(* Any other step leaves what was asked and answered, or ends it.          *)
LEMMA QueryKeepsBis ==
  ASSUME FundingInv, BisInv, QueryStep \/ BisIndexes, UNCHANGED chainVars
  PROVE  BisInv'
<1> USE DEF Answer
<1>1. CASE BisPage
  BY <1>1, BisPageKeepsBis
<1>2. CASE pc' # "bis"
  BY <1>2 DEF BisInv
<1>3. CASE UNCHANGED <<chainVars, stage, pc, utxos, answer>>
  BY <1>3 DEF BisInv, LookedUp, Sought, chainVars, answer
<1>4. CASE AsksPages /\ UNCHANGED utxos
  BY <1>4, AsksPagesKeepsBis
<1>5. GetUtxos \/ GetRunes \/ GetTipHeight \/ OrdAddress \/ OrdBlockheight \/ RetryOrd
        => pc' # "bis"
  BY DEF GetUtxos, GetRunes, GetTipHeight, AsksOrd, OrdAddress, OrdBlockheight, RetryOrd
<1>6. \A marked : Take(marked) => pc' # "bis"
  BY DEF Take, Outcome
<1>7. CASE OrdOutputs
  BY <1>2, <1>4, <1>7 DEF OrdOutputs, AsksBis
<1>8. CASE OrdAnswers
  BY <1>2, <1>4, <1>6, <1>8 DEF OrdAnswers, AsksBis
<1>9. CASE RetryBis
  BY <1>4, <1>9 DEF RetryBis
<1>10. CASE BisAnswers \/ BisAddress
  BY <1>2, <1>6, <1>10 DEF BisAnswers, BisAddress
<1>11. CASE GetUnspentOutput
  BY <1>2, <1>11 DEF GetUnspentOutput, Outcome
<1>12. CASE CallFails
  BY <1>2, <1>4, <1>12 DEF CallFails, AsksBis
<1>13. CASE BisIndexes
  BY <1>3, <1>13 DEF BisIndexes
<1> QED
  BY <1>1, <1>2, <1>5, <1>7, <1>8, <1>9, <1>10, <1>11, <1>12, <1>13, Zenon DEF QueryStep

LEMMA NothingKeepsFunding ==
  ASSUME FundingInv, BisInv, UNCHANGED <<chainVars, queryVars>>
  PROVE  FundingInv' /\ BisInv'
BY DEF chainVars, queryVars, answer, FundingInv, ChainInv, StageInv, UtxosInv, FoundInv, Asking,
       Querying, Right, IsConfirmed, IsPlain, Marked, BisInv, LookedUp, Sought

LEMMA StepKeepsFunding ==
  FundingInv /\ BisInv /\ [FundingNext]_<<chainVars, queryVars>> => FundingInv' /\ BisInv'
<1> SUFFICES ASSUME FundingInv, BisInv, [FundingNext]_<<chainVars, queryVars>>
             PROVE  FundingInv' /\ BisInv'
  OBVIOUS
<1>1. CASE (QueryStep \/ BisIndexes) /\ UNCHANGED chainVars
  BY <1>1, QueryKeepsFunding, QueryKeepsBis
<1>2. CASE ChainStep /\ UNCHANGED queryVars
  <2>1. ChainKept
    BY <1>2, ChainKeepsOutputs DEF FundingInv
  <2> QED
    BY <1>2, <2>1, ChainKeepsFunding, ChainKeepsBis
<1>3. CASE UNCHANGED <<chainVars, queryVars>>
  BY <1>3, NothingKeepsFunding
<1> QED
  BY <1>1, <1>2, <1>3 DEF FundingNext

LEMMA FundingInvariant == FundingSpec => [](FundingInv /\ BisInv)
<1>1. FundingInit => BisInv
  BY DEF FundingInit, BisInv
<1> QED
  BY <1>1, InitFunding, StepKeepsFunding, PTL DEF FundingSpec

(* What a query finds to pay with is plain and what it finds to sell holds *)
(* runes, and all of it is in a block: for any payments to the wallet and  *)
(* from it while the query runs, and any lag of ord and of bestinslot      *)
(* (blockchain.service.ts:79-150, util.ts:16-46, provider.ts:330-397).     *)
THEOREM FoundWhatWasAskedFor == FundingSpec => []FoundIsAskedFor
<1>1. FundingInv => FoundIsAskedFor
  BY DEF FundingInv, FoundInv, FoundIsAskedFor, Right
<1> QED
  BY <1>1, FundingInvariant, PTL

-------------------------------------------------------------------------------
(* What the other variables of a query hold.  A try is left when one is    *)
(* waited for; what was answered is about the outputs in question, and     *)
(* nothing is asked of bestinslot while ord is.                            *)
AnswersInv ==
  /\ query \in Queries \cup {"none"}
  /\ stage \in {"none", "runes", "inscriptions", "address"}
  /\ triesLeft \in 0..2
  /\ pc \in {"wait", "waitBis"} => triesLeft > 0
  /\ block_height \in 0..tip \cup {None}
  /\ data # None => data \subseteq utxos
  /\ pc = "bis" => data \subseteq utxos
  /\ \A page \in pages : page \subseteq utxos
  /\ pc \notin {"bis", "waitBis"} => pages = {}
  /\ failures \in 0..MaxFailures

LEMMA InitAnswers == FundingInit /\ OutputsInit => AnswersInv
<1>1. MaxFailures \in Nat
  BY FundingAssumption, Zenon
<1> QED
  BY <1>1 DEF FundingInit, AnswersInv

LEMMA ChainKeepsAnswers ==
  ASSUME FundingInv, AnswersInv, ChainKept, UNCHANGED queryVars
  PROVE  AnswersInv'
<1>1. tip \in Nat /\ tip' \in Nat /\ tip =< tip'
  BY OutputsAssumption DEF FundingInv, ChainKept, ChainInv
<1> QED
  BY <1>1 DEF AnswersInv, queryVars, answer

(* A query that is answered, and one whose answer is taken.                *)
LEMMA AnswerKeepsAnswers ==
  ASSUME AnswersInv, NEW label \in {"done", "failed"}, Answer(label), failures' \in 0..MaxFailures,
         query' \in Queries \cup {"none"}
  PROVE  AnswersInv'
BY DEF Answer, AnswersInv

LEMMA TakeKeepsAnswers ==
  ASSUME AnswersInv, NEW marked, Take(marked), UNCHANGED <<tip, query, failures>>
  PROVE  AnswersInv'
<1>1. CASE Remaining(marked) = {}
  BY <1>1, AnswerKeepsAnswers DEF Take, Outcome, AnswersInv
<1>2. CASE Remaining(marked) # {}
  <2>1. /\ block_height' = None /\ data' = {} /\ pages' = {} /\ UNCHANGED triesLeft
        /\ \/ pc' = "tip" /\ stage' = "inscriptions"
           \/ pc' = "check" /\ UNCHANGED stage
    BY <1>2 DEF Take
  <2> QED
    BY <2>1 DEF AnswersInv
<1> QED
  BY <1>1, <1>2

(* Bestinslot is asked from the beginning.                                 *)
LEMMA PagesAreAsked ==
  ASSUME AnswersInv, AsksPages, triesLeft' \in 0..2, failures' \in 0..MaxFailures,
         UNCHANGED <<tip, query, stage, utxos>>
  PROVE  AnswersInv'
<1>1. \A page \in Pages(utxos) : page \subseteq utxos
  BY DEF Pages
<1> QED
  BY <1>1 DEF AsksPages, AnswersInv

LEMMA QueryKeepsAnswers ==
  ASSUME FundingInv, AnswersInv, QueryStep \/ BisIndexes, UNCHANGED chainVars
  PROVE  AnswersInv'
<1>1. tip' = tip /\ tip \in Nat /\ ordHeight \in 0..tip /\ bisHeight \in 0..tip
  BY OutputsAssumption DEF FundingInv, ChainInv, StageInv, chainVars
<1>2. MaxFailures \in Nat
  BY FundingAssumption, Zenon
<1>3. \A S : Marked(S) \subseteq S /\ MarkedByBis(S) \subseteq S
  BY DEF Marked, MarkedByBis
<1>4. CASE GetUtxos
  <2>1. pc = "idle" /\ query' = "plain" /\ "plain" \in Queries /\ UNCHANGED failures
    BY <1>4 DEF GetUtxos
  <2>2. CASE Answer("failed")
    BY <2>1, <2>2, AnswerKeepsAnswers DEF AnswersInv
  <2>3. CASE pc' = "tip" /\ stage' = "runes" /\ UNCHANGED <<triesLeft, answer>>
    <3>1. data = {} \/ data = None
      BY <2>1 DEF FundingInv, StageInv, UtxosInv, AnswersInv, Asking
    <3>2. data' = data /\ pages' = pages /\ block_height' = block_height /\ triesLeft' = triesLeft
      BY <2>3 DEF answer
    <3> QED
      BY <1>1, <2>1, <2>3, <3>1, <3>2 DEF AnswersInv
  <2> QED
    BY <1>4, <2>2, <2>3 DEF GetUtxos
<1>5. CASE GetRunes
  BY <1>1, <1>5 DEF GetRunes, AnswersInv, answer
<1>6. CASE GetTipHeight
  BY <1>1, <1>6 DEF GetTipHeight, AsksOrd, AnswersInv
<1>7. CASE OrdAddress
  <2>1. data = None
    BY <1>7 DEF OrdAddress, FundingInv, UtxosInv
  <2> QED
    BY <1>1, <1>7, <2>1 DEF OrdAddress, AnswersInv, answer
<1>8. CASE OrdBlockheight
  BY <1>1, <1>8 DEF OrdBlockheight, AnswersInv
<1>9. CASE OrdOutputs
  <2>1. pc = "ord" /\ UNCHANGED <<query, stage, utxos, failures>>
    BY <1>9 DEF OrdOutputs
  <2>2. CASE data' = Marked(utxos) /\ UNCHANGED <<pc, triesLeft, block_height, pages>>
    BY <1>1, <1>3, <2>1, <2>2 DEF AnswersInv
  <2>3. CASE AsksBis
    BY <1>1, <2>1, <2>3, PagesAreAsked DEF AsksBis, AnswersInv
  <2> QED
    BY <1>9, <2>2, <2>3 DEF OrdOutputs
<1>10. CASE OrdAnswers
  <2>1. pc = "ord" /\ UNCHANGED <<query, failures>>
    BY <1>10 DEF OrdAnswers
  <2>2. CASE Take(data)
    BY <1>1, <2>1, <2>2, TakeKeepsAnswers
  <2>3. CASE MayRetry(block_height) /\ pc' = "wait" /\ UNCHANGED <<stage, utxos, triesLeft, answer>>
    BY <1>1, <2>1, <2>3 DEF MayRetry, AnswersInv, answer
  <2>4. CASE AsksBis /\ UNCHANGED <<stage, utxos>>
    BY <1>1, <2>1, <2>4, PagesAreAsked DEF AsksBis, AnswersInv
  <2> QED
    BY <1>10, <2>2, <2>3, <2>4 DEF OrdAnswers
<1>11. CASE RetryOrd
  BY <1>1, <1>11 DEF RetryOrd, TriesOneFewer, AsksOrd, AnswersInv
<1>12. CASE RetryBis
  <2>1. triesLeft' \in 0..2 /\ failures' \in 0..MaxFailures
    BY <1>12 DEF RetryBis, TriesOneFewer, AnswersInv
  <2> QED
    BY <1>1, <1>12, <2>1, PagesAreAsked DEF RetryBis
<1>13. CASE BisPage
  <2>1. PICK page \in pages :
          /\ pages' = pages \ {page}
          /\ data' = data \cup MarkedByBis(page \cap Known(bisHeight))
          /\ block_height' = IF block_height = None THEN bisHeight
                                                   ELSE Lowest(block_height, bisHeight)
    BY <1>13 DEF BisPage
  <2>2. pc = "bis" /\ UNCHANGED <<query, stage, pc, utxos, triesLeft, failures>>
    BY <1>13 DEF BisPage
  <2>3. page \subseteq utxos /\ data \subseteq utxos
    BY <2>2 DEF AnswersInv
  <2>4. data' \subseteq utxos
    BY <1>3, <2>1, <2>3
  <2>5. block_height' \in 0..tip
    BY <1>1, <2>1 DEF AnswersInv, Lowest
  <2> QED
    BY <1>1, <2>1, <2>2, <2>4, <2>5 DEF AnswersInv
<1>14. CASE BisAnswers
  <2>1. pc = "bis" /\ UNCHANGED <<query, failures>> /\ pages = {}
    BY <1>14 DEF BisAnswers
  <2>2. CASE Take(data)
    BY <1>1, <2>1, <2>2, TakeKeepsAnswers
  <2>3. CASE MayRetry(block_height) /\ pc' = "waitBis" /\ UNCHANGED <<stage, utxos, triesLeft, answer>>
    BY <1>1, <2>1, <2>3 DEF MayRetry, AnswersInv, answer
  <2>4. CASE Answer("failed")
    BY <2>1, <2>4, AnswerKeepsAnswers DEF AnswersInv
  <2> QED
    BY <1>14, <2>2, <2>3, <2>4 DEF BisAnswers
<1>15. CASE BisAddress
  BY <1>1, <1>15, TakeKeepsAnswers DEF BisAddress
<1>16. CASE GetUnspentOutput
  <2>1. pc = "check" /\ UNCHANGED <<query, failures>>
    BY <1>16 DEF GetUnspentOutput
  <2>2. CASE Answer("done") \/ Answer("failed")
    BY <2>1, <2>2, AnswerKeepsAnswers DEF AnswersInv
  <2>3. CASE UNCHANGED <<stage, pc, utxos, triesLeft, answer>>
    BY <1>1, <2>1, <2>3 DEF AnswersInv, answer
  <2> QED
    BY <1>16, <2>2, <2>3 DEF GetUnspentOutput, Outcome
<1>17. CASE CallFails
  <2>1. failures' \in 0..MaxFailures /\ UNCHANGED query
    BY <1>2, <1>17 DEF CallFails, Fail, AnswersInv
  <2>2. CASE AsksBis /\ UNCHANGED <<stage, utxos>>
    BY <1>1, <2>1, <2>2, PagesAreAsked DEF AsksBis
  <2>3. CASE Answer("failed")
    BY <2>1, <2>3, AnswerKeepsAnswers DEF AnswersInv
  <2> QED
    BY <1>17, <2>2, <2>3 DEF CallFails
<1>18. CASE BisIndexes
  BY <1>1, <1>18 DEF BisIndexes, AnswersInv, answer
<1> QED
  BY <1>4, <1>5, <1>6, <1>7, <1>8, <1>9, <1>10, <1>11, <1>12, <1>13, <1>14, <1>15, <1>16, <1>17, <1>18
  DEF QueryStep

LEMMA TypesFollow == FundingInv /\ AnswersInv => FundingTypeOK
<1> SUFFICES ASSUME FundingInv, AnswersInv PROVE FundingTypeOK
  OBVIOUS
<1>1. \A S : (\A s \in S : s \subseteq utxos) => UNION S \subseteq utxos
  OBVIOUS
<1>2. UNION pages \subseteq utxos
  BY <1>1 DEF AnswersInv
<1>3. utxos \subseteq DOMAIN outputs /\ unchecked \subseteq utxos /\ found \subseteq DOMAIN outputs
  BY DEF FundingInv, UtxosInv, FoundInv, Right
<1>4. {utxos, unchecked, found} \subseteq SUBSET DOMAIN outputs
  BY <1>3
<1>5. pc \in Pcs /\ bisHeight \in 0..tip /\ height \in 0..tip
  BY DEF FundingInv, StageInv
<1> QED
  BY <1>2, <1>4, <1>5 DEF FundingTypeOK, AnswersInv

(* Every variable of a query holds what the code can put there, and what   *)
(* was answered is about the outputs that were asked about.                *)
THEOREM FundingTypeCorrect == FundingSpec => []FundingTypeOK
<1>1. FundingInv /\ AnswersInv /\ [FundingNext]_<<chainVars, queryVars>> => AnswersInv'
  <2> SUFFICES ASSUME FundingInv, AnswersInv, [FundingNext]_<<chainVars, queryVars>>
               PROVE  AnswersInv'
    OBVIOUS
  <2>1. CASE (QueryStep \/ BisIndexes) /\ UNCHANGED chainVars
    BY <2>1, QueryKeepsAnswers
  <2>2. CASE ChainStep /\ UNCHANGED queryVars
    BY <2>2, ChainKeepsOutputs, ChainKeepsAnswers DEF FundingInv
  <2>3. CASE UNCHANGED <<chainVars, queryVars>>
    BY <2>3 DEF AnswersInv, chainVars, queryVars, answer
  <2> QED
    BY <2>1, <2>2, <2>3 DEF FundingNext
<1> QED
  BY <1>1, InitAnswers, FundingInvariant, TypesFollow, PTL DEF FundingSpec

-------------------------------------------------------------------------------
(* What a split works with: outputs the wallet has, in an order, and a     *)
(* transaction that spends some of them.                                   *)
ListedInv ==
  /\ request \in Request \cup {NoRequest}
  /\ spc \in {"idle", "address", "outputs", "check", "broadcast", "save", "done"}
  /\ spc \notin {"idle", "done"} => request \in Request
  /\ listed \in Seq(DOMAIN outputs) /\ IsInjective(listed)
  /\ gone \subseteq Range(listed)
  /\ spc \in {"idle", "address"} => gone = {}

IsTransaction(t) ==
  /\ t.ins \subseteq Range(listed)
  /\ t.outs \in Seq(Nat \ {0})
  /\ t.rate \in Nat
  /\ {"ins", "outs", "rate", "runestone", "first"} \subseteq DOMAIN t

(* Runes go to the parts and, if there is change, to the change.           *)
TxInv ==
  /\ spc \notin {"broadcast", "save"} => tx = NoTx
  /\ spc \in {"broadcast", "save"} =>
       /\ IsTransaction(tx)
       /\ tx.runestone => /\ request.asset = "rune"
                          /\ Len(tx.outs) \in {request.splits, request.splits + 1}
  /\ spc = "broadcast" => tx.first = 0

(* What it made is there.                                                  *)
MadeInv ==
  spc = "save" =>
    /\ tx.first \in Nat \ {0}
    /\ tx.first..(tx.first + Len(tx.outs) - 1) \subseteq DOMAIN outputs

SplitsInv ==
  ChainInv /\ ListedInv /\ TxInv /\ MadeInv /\ SplitPaysItsFee /\ PartsGetTheirRunes

-------------------------------------------------------------------------------
LEMMA OutputsDomain ==
  ASSUME ChainInv
  PROVE  /\ DOMAIN outputs = 1..Len(outputs) /\ Len(outputs) \in Nat
         /\ IsFiniteSet(DOMAIN outputs)
         /\ \A o \in DOMAIN outputs : outputs[o] \in Output
         /\ \A o \in DOMAIN outputs : outputs[o].value \in Nat /\ outputs[o].runes \in Nat
<1>1. DOMAIN outputs = 1..Len(outputs) /\ Len(outputs) \in Nat
        /\ \A o \in DOMAIN outputs : outputs[o] \in Output
  BY ElementOfSeq DEF ChainInv
<1>2. 1 \in Int /\ Len(outputs) \in Int
  BY <1>1
<1>3. IsFiniteSet(DOMAIN outputs)
  BY <1>1, <1>2, FS_Interval, Zenon
<1>4. \A o \in DOMAIN outputs : outputs[o].value \in Nat /\ outputs[o].runes \in Nat
  BY <1>1 DEF Output
<1> QED
  BY <1>1, <1>3, <1>4

(* Sums over outputs of the wallet.                                        *)
LEMMA ValueType ==
  ASSUME ChainInv, NEW S \in SUBSET DOMAIN outputs
  PROVE  Value(S) \in Nat /\ Runes(S) \in Nat
<1> DEFINE F == [o \in DOMAIN outputs |-> outputs[o].value]
           G == [o \in DOMAIN outputs |-> outputs[o].runes]
<1>1. IsFiniteSet(S)
  BY OutputsDomain, FS_Subset
<1>2. (\A o \in S : F[o] \in Nat) /\ (\A o \in S : G[o] \in Nat)
  BY OutputsDomain
<1>3. Value(S) = SumFunctionOnSet(F, S) /\ Runes(S) = SumFunctionOnSet(G, S)
  BY DEF Value, Runes
<1> HIDE DEF F, G
<1>4. SumFunctionOnSet(F, S) \in Nat
  BY <1>1, <1>2, SumNatural
<1>5. SumFunctionOnSet(G, S) \in Nat
  BY <1>1, <1>2, SumNatural
<1> QED
  BY <1>3, <1>4, <1>5

(* What the outputs hold is what they held.                                *)
LEMMA ValueKept ==
  ASSUME ChainInv, ChainKept, NEW S \in SUBSET DOMAIN outputs
  PROVE  Value(S)' = Value(S) /\ Runes(S)' = Runes(S)
<1> DEFINE F == [o \in DOMAIN outputs |-> outputs[o].value]
           G == [o \in DOMAIN outputs |-> outputs[o].runes]
           H == [o \in DOMAIN outputs' |-> outputs'[o].value]
           K == [o \in DOMAIN outputs' |-> outputs'[o].runes]
<1>1. IsFiniteSet(S)
  BY OutputsDomain, FS_Subset
<1>2. \A o \in S : F[o] \in Int /\ F[o] = H[o]
  BY OutputsDomain DEF ChainKept, KeepsOutput
<1>3. \A o \in S : G[o] \in Int /\ G[o] = K[o]
  BY OutputsDomain DEF ChainKept, KeepsOutput
<1>4. /\ Value(S) = SumFunctionOnSet(F, S) /\ Runes(S) = SumFunctionOnSet(G, S)
      /\ Value(S)' = SumFunctionOnSet(H, S) /\ Runes(S)' = SumFunctionOnSet(K, S)
  BY DEF Value, Runes
<1> HIDE DEF F, G, H, K
<1>5. SumFunctionOnSet(F, S) = SumFunctionOnSet(H, S)
  BY <1>1, <1>2, SumAgree
<1>6. SumFunctionOnSet(G, S) = SumFunctionOnSet(K, S)
  BY <1>1, <1>3, SumAgree
<1> QED
  BY <1>4, <1>5, <1>6

(* What is listed is there, so it has a value and runes.                   *)
LEMMA ListedOutputs ==
  ASSUME ListedInv
  PROVE  /\ DOMAIN listed = 1..Len(listed) /\ Len(listed) \in Nat
         /\ Range(listed) \subseteq DOMAIN outputs
<1>1. DOMAIN listed = 1..Len(listed) /\ Len(listed) \in Nat
        /\ \A i \in DOMAIN listed : listed[i] \in DOMAIN outputs
  BY ElementOfSeq DEF ListedInv
<1> QED
  BY <1>1 DEF Range

(* The outputs of a transaction have a sum, and one more output adds what  *)
(* it has.                                                                 *)
LEMMA TotalType ==
  ASSUME NEW s \in Seq(Nat)
  PROVE  Total(s) \in Nat /\ Total(s) = SumFunctionOnSet(s, 1..Len(s))
<1>1. s = [i \in 1..Len(s) |-> s[i]] /\ Len(s) \in Nat /\ \A i \in 1..Len(s) : s[i] \in Nat
  OBVIOUS
<1> QED
  BY <1>1, SumSequence DEF Total

(* One more output adds its value to the total.                            *)
LEMMA TotalAppended ==
  ASSUME NEW s \in Seq(Nat), NEW v \in Nat
  PROVE  Total(Append(s, v)) = Total(s) + v
<1> DEFINE n == Len(s)
           u == Append(s, v)
<1>1. n \in Nat /\ u \in Seq(Nat) /\ Len(u) = n + 1 /\ u[n + 1] = v /\ \A i \in 1..n : u[i] = s[i] /\ s[i] \in Nat
  BY AppendProperties
<1>2. Total(u) = SumFunctionOnSet(u, 1..(n + 1)) /\ Total(s) = SumFunctionOnSet(s, 1..n) /\ Total(s) \in Nat
  BY <1>1, TotalType
<1>3. IsFiniteSet(1..n)
  <2>1. 1 \in Int /\ n \in Int
    BY <1>1
  <2> QED
    BY <2>1, FS_Interval, Zenon
<1>4. 1..(n + 1) = (1..n) \cup {n + 1} /\ n + 1 \notin 1..n
  BY <1>1
<1>5. /\ \A i \in 1..n : s[i] \in Int /\ s[i] = u[i]
      /\ \A i \in (1..n) \cup {n + 1} : u[i] \in Int
  BY <1>1
<1> DEFINE S == 1..n
           e == n + 1
<1> HIDE DEF u, S, e
<1>6. SumFunctionOnSet(u, S \cup {e}) = SumFunctionOnSet(u, S) + u[e]
  <2>1. IsFiniteSet(S) /\ e \notin S /\ \A i \in S \cup {e} : u[i] \in Int
    BY <1>3, <1>4, <1>5 DEF S, e
  <2> QED
    BY <2>1, SumAdd
<1>7. SumFunctionOnSet(s, S) = SumFunctionOnSet(u, S)
  <2>1. IsFiniteSet(S) /\ \A i \in S : s[i] \in Int /\ s[i] = u[i]
    BY <1>3, <1>5 DEF S
  <2> QED
    BY <2>1, SumAgree
<1> QED
  BY <1>1, <1>2, <1>4, <1>6, <1>7 DEF S, e, u

(* The least of a set of naturals is in it.                                *)
LEMMA MinIn ==
  ASSUME NEW S \in SUBSET Nat, S # {}
  PROVE  Min(S) \in S
BY LeastNatural DEF Min

(* A fee is a natural number, and does not fall when an output is added.   *)
LEMMA FeeType ==
  ASSUME NEW m \in Nat, NEW n \in Nat, NEW rate \in Nat
  PROVE  Fee(m, n, rate) \in Nat /\ Fee(m, n, rate) =< Fee(m, n + 1, rate)
<1> DEFINE a == Size(m, n)
           q == rate + 2
<1>1. a \in Nat /\ Size(m, n + 1) = a + 43 /\ q \in Nat
  BY DEF Size
<1>2. Fee(m, n, rate) = a * q
  BY DEF Fee
<1>3. Fee(m, n + 1, rate) = (a + 43) * q
  BY <1>1 DEF Fee
<1> HIDE DEF a, q
<1> DEFINE b == a * q
           d == (a + 43) * q
<1>4. b \in Nat /\ d = b + 43 * q
  BY <1>1
<1> HIDE DEF b, d
<1>5. d \in Nat /\ b =< d
  BY <1>1, <1>4
<1> QED
  BY <1>2, <1>3, <1>4, <1>5 DEF b, d

(* What pays for itself: outputs taken to pay the fee, and change if it is *)
(* worth an output.                                                        *)
LEMMA FundedTransaction ==
  ASSUME ChainInv, ListedInv, NEW ins \in SUBSET Range(listed), NEW outs \in Seq(Nat \ {0}),
         NEW runestone \in BOOLEAN, NEW rate \in Nat,
         NEW t, t = Funded(ins, outs, runestone, rate), t # NoTx
  PROVE  /\ IsTransaction(t) /\ t.first = 0 /\ t.rate = rate /\ t.runestone = runestone
         /\ Len(t.outs) \in {Len(outs), Len(outs) + 1}
         /\ LET count == Len(t.outs) + Marker(t.runestone)
                paid == Value(t.ins) - Total(t.outs)
            IN /\ paid >= Fee(Cardinality(t.ins), count, t.rate)
               /\ paid =< Fee(Cardinality(t.ins), count + 1, t.rate) + DUST
<1> DEFINE last(n) == {i \in Plain : Cardinality({j \in Plain : j >= i}) =< n}
           spent(n) == ins \cup {listed[i] : i \in last(n)}
           change(n) == Value(spent(n)) - Total(outs) - FeeFor(spent(n), outs, runestone, rate)
           enough == {n \in 0..Cardinality(Plain) : change(n) >= 0}
           k == Min(enough)
<1>1. enough # {} /\ t = [ins       |-> spent(k),
                          outs      |-> IF HasChange(change(k)) THEN Append(outs, change(k)) ELSE outs,
                          rate      |-> rate,
                          runestone |-> runestone,
                          first     |-> 0]
  BY DEF Funded
<1>2. k \in enough
  <2>1. IsFiniteSet(Plain)
    <3>1. IsFiniteSet(DOMAIN listed)
      <4>1. DOMAIN listed = 1..Len(listed) /\ 1 \in Int /\ Len(listed) \in Int
        BY ListedOutputs
      <4> QED
        BY <4>1, FS_Interval, Zenon
    <3> QED
      BY <3>1, FS_Subset DEF Plain
  <2>2. Cardinality(Plain) \in Nat
    BY <2>1, FS_CardinalityType
  <2>3. enough \in SUBSET Nat
    BY <2>2
  <2> HIDE DEF enough
  <2> QED
    BY <1>1, <2>3, MinIn
<1> DEFINE S == spent(k)
           c == change(k)
<1>3. c >= 0
  BY <1>2
<1>4. S \subseteq Range(listed) /\ S \subseteq DOMAIN outputs /\ IsFiniteSet(S)
  <2>1. S \subseteq Range(listed)
    BY DEF Plain, Range
  <2> HIDE DEF S
  <2> QED
    BY <2>1, ListedOutputs, OutputsDomain, FS_Subset
<1> DEFINE v == Value(S)
           total == Total(outs)
           m == Cardinality(S)
           marker == Marker(runestone)
           n == Len(outs)
<1>5. c = v - total - Fee(m, n + marker + 1, rate)
  BY DEF FeeFor
<1> HIDE DEF S, spent, k, enough, c, change, last
<1>6. v \in Nat /\ m \in Nat
  BY <1>4, ValueType, FS_CardinalityType
<1>7. outs \in Seq(Nat) /\ total \in Nat /\ n \in Nat /\ marker \in Nat
  <2>1. outs \in Seq(Nat)
    OBVIOUS
  <2> QED
    BY <2>1, TotalType DEF Marker
<1>8. /\ Fee(m, n + marker, rate) \in Nat
      /\ Fee(m, n + marker + 1, rate) \in Nat
      /\ Fee(m, n + marker + 2, rate) \in Nat
      /\ Fee(m, n + marker, rate) =< Fee(m, n + marker + 1, rate)
      /\ Fee(m, n + marker + 1, rate) =< Fee(m, n + marker + 2, rate)
  <2>0. n + marker + 2 \in Nat
    BY <1>7
  <2>1. n + marker \in Nat /\ n + marker + 1 \in Nat /\ (n + marker + 1) + 1 = n + marker + 2
    BY <1>7
  <2>2. Fee(m, n + marker, rate) \in Nat /\ Fee(m, n + marker, rate) =< Fee(m, n + marker + 1, rate)
    BY <1>6, <2>1, FeeType
  <2>3. Fee(m, n + marker + 1, rate) \in Nat
          /\ Fee(m, n + marker + 1, rate) =< Fee(m, (n + marker + 1) + 1, rate)
    BY <1>6, <2>1, FeeType
  <2>4. Fee(m, n + marker + 2, rate) \in Nat
    BY <1>6, <2>0, FeeType
  <2> QED
    BY <2>1, <2>2, <2>3, <2>4
<1>9. c \in Nat
  BY <1>3, <1>5, <1>6, <1>7, <1>8
<1>0. {"ins", "outs", "rate", "runestone", "first"} \subseteq DOMAIN t
  BY <1>1
<1>10. t.ins = S /\ t.rate = rate /\ t.runestone = runestone /\ t.first = 0
       /\ t.outs = IF HasChange(c) THEN Append(outs, c) ELSE outs
  BY <1>1 DEF S, c
<1>11. CASE HasChange(c)
  <2>1. t.outs = Append(outs, c) /\ c \in Nat \ {0}
    BY <1>9, <1>10, <1>11 DEF HasChange, DUST
  <2>2. t.outs \in Seq(Nat \ {0}) /\ Len(t.outs) = n + 1
    BY <2>1, AppendProperties
  <2>3. Total(t.outs) = total + c
    BY <1>7, <2>1, TotalAppended
  <2>4. IsTransaction(t)
    BY <1>0, <1>4, <1>10, <2>2 DEF IsTransaction
  <2>5. v - Total(t.outs) = Fee(m, n + marker + 1, rate)
    BY <1>5, <1>6, <1>7, <1>8, <1>9, <2>3
  <2>6. (n + 1) + marker = n + marker + 1 /\ ((n + 1) + marker) + 1 = n + marker + 2
    BY <1>7
  <2> HIDE DEF v, total, m, marker, n
  <2>7. /\ v - Total(t.outs) >= Fee(m, Len(t.outs) + marker, rate)
        /\ v - Total(t.outs) =< Fee(m, Len(t.outs) + marker + 1, rate) + DUST
    BY <1>8, <2>2, <2>5, <2>6 DEF DUST
  <2> QED
    BY <1>10, <2>2, <2>4, <2>7 DEF v, m, marker, n
<1>12. CASE ~HasChange(c)
  <2>1. t.outs = outs /\ c =< DUST
    BY <1>9, <1>10, <1>12 DEF HasChange, DUST
  <2>2. IsTransaction(t)
    BY <1>0, <1>4, <1>10, <2>1 DEF IsTransaction
  <2> HIDE DEF v, total, m, marker, n
  <2>3. v - total >= Fee(m, n + marker, rate) /\ v - total =< Fee(m, n + marker + 1, rate) + DUST
    BY <1>5, <1>6, <1>7, <1>8, <1>9, <2>1 DEF DUST
  <2> QED
    BY <1>10, <2>1, <2>2, <2>3 DEF v, total, m, marker, n
<1> QED
  BY <1>11, <1>12

(* The quotient of naturals.                                               *)
LEMMA Quotient ==
  ASSUME NEW a \in Nat, NEW b \in Nat \ {0}
  PROVE  a \div b \in Nat /\ (a >= b => a \div b >= 1)
OBVIOUS

(* The parts of a split: none when nothing would be left of them, and each *)
(* of them worth something.                                                *)
LEMMA PartsType ==
  ASSUME NEW part \in Nat, NEW parts \in Nat, parts > 0 => part > 0
  PROVE  [k \in 1..parts |-> part] \in Seq(Nat \ {0}) /\ Len([k \in 1..parts |-> part]) = parts
<1>1. [k \in 1..parts |-> part] \in [1..parts -> Nat \ {0}]
  OBVIOUS
<1>2. [k \in 1..parts |-> part] \in Seq(Nat \ {0})
  BY <1>1, SeqDef
<1>3. DOMAIN [k \in 1..parts |-> part] = 1..parts
  OBVIOUS
<1> QED
  BY <1>2, <1>3

(* The outputs a request asks for, as many as there are parts.             *)
LEMMA PayOutputsType ==
  ASSUME ChainInv, ListedInv, NEW r \in Request, NEW rate \in Nat
  PROVE  /\ PayOutputs(r, rate) \in Seq(Nat \ {0})
         /\ r.asset # "BTC" => Len(PayOutputs(r, rate)) = r.splits
<1>1. r.splits \in Nat \ {0} /\ r.amount \in Nat \ {0}
  BY DEF Request
<1>2. CASE r.asset # "BTC"
  <2>1. DUST \in Nat /\ DUST > 0 /\ r.splits \in Nat
    BY <1>1 DEF DUST
  <2>2. PayOutputs(r, rate) = [k \in 1..r.splits |-> DUST]
    BY <1>2 DEF PayOutputs
  <2> QED
    BY <1>2, <2>1, <2>2, PartsType
<1>3. CASE r.asset = "BTC"
  <2> DEFINE s == r.splits
             total == Value(PlainOutputs)
             n == Cardinality(PlainOutputs)
             fee == (140 * n + 40 * (s + 1)) * (rate + 2)
             left == total - fee
             part == Rounded(total, s)
             parts == IF left < r.amount THEN 0 ELSE (left - r.amount) \div part + 1
  <2>1. PayOutputs(r, rate) = [k \in 1..parts |-> part] \o Rest(left - parts * part)
    BY <1>3 DEF PayOutputs, SatsOutputs
  <2>2. PlainOutputs \subseteq DOMAIN outputs /\ IsFiniteSet(PlainOutputs)
    <3>1. PlainOutputs \subseteq DOMAIN outputs
      BY ListedOutputs DEF PlainOutputs, Plain, Range
    <3> QED
      BY <3>1, OutputsDomain, FS_Subset
  <2>3. total \in Nat /\ n \in Nat
    BY <2>2, ValueType, FS_CardinalityType
  <2>4. fee \in Nat /\ fee >= 80 * (s + 1)
    <3> DEFINE a == 140 * n + 40 * (s + 1)
    <3>1. a \in Nat /\ a >= 40 * (s + 1)
      BY <1>1, <2>3
    <3> HIDE DEF a, n, s
    <3>2. a * (rate + 2) \in Nat /\ a * (rate + 2) = a * rate + 2 * a /\ a * rate \in Nat
      BY <3>1
    <3>3. a * (rate + 2) >= 2 * a
      BY <3>1, <3>2
    <3>4. fee = a * (rate + 2)
      BY DEF a
    <3> QED
      BY <1>1, <3>1, <3>2, <3>3, <3>4 DEF s
  <2>5. part \in Nat /\ (2 * total >= s => part >= 1)
    <3>1. 2 * total + s \in Nat /\ 2 * s \in Nat \ {0}
      BY <1>1, <2>3
    <3>2. part = (2 * total + s) \div (2 * s)
      BY DEF Rounded
    <3> DEFINE a == 2 * total + s
               b == 2 * s
    <3>3. 2 * total >= s => a >= b
      BY <1>1, <2>3
    <3> HIDE DEF a, b
    <3>4. a \div b \in Nat /\ (a >= b => a \div b >= 1)
      BY <3>1, Quotient DEF a, b
    <3> QED
      BY <3>2, <3>3, <3>4 DEF a, b
  <2> HIDE DEF total, n, fee, part
  <2>6. left \in Int /\ (left >= r.amount => part >= 1)
    BY <1>1, <2>3, <2>4, <2>5
  <2>7. parts \in Nat /\ (parts > 0 => part > 0)
    <3>1. CASE left < r.amount
      BY <3>1
    <3>2. CASE left >= r.amount
      <4>1. left - r.amount \in Nat /\ part \in Nat \ {0}
        BY <1>1, <2>5, <2>6, <3>2
      <4> HIDE DEF left
      <4>2. (left - r.amount) \div part \in Nat
        BY <4>1, Quotient
      <4>3. parts = (left - r.amount) \div part + 1
        BY <1>1, <2>6, <3>2
      <4> QED
        BY <4>1, <4>2, <4>3
    <3> QED
      BY <1>1, <2>6, <3>1, <3>2
  <2> HIDE DEF parts, left
  <2>8. [k \in 1..parts |-> part] \in Seq(Nat \ {0})
    BY <2>5, <2>7, PartsType
  <2>9. left - parts * part \in Int
    BY <2>5, <2>6, <2>7
  <2>10. Rest(left - parts * part) \in Seq(Nat \ {0})
    <3> DEFINE x == left - parts * part
    <3>1. x \in Int
      BY <2>9
    <3> HIDE DEF x
    <3>2. CASE x > 0
      <4>1. x \in Nat \ {0} /\ Rest(x) = <<x>>
        BY <3>1, <3>2 DEF Rest
      <4>2. Rest(x) \in Seq(Nat \ {0})
        BY <4>1
      <4> QED
        BY <4>2, Zenon DEF x
    <3>3. CASE ~(x > 0)
      <4>1. Rest(x) = <<>>
        BY <3>3 DEF Rest
      <4>2. Rest(x) \in Seq(Nat \ {0})
        BY <4>1
      <4> QED
        BY <4>2, Zenon DEF x
    <3> QED
      BY <3>2, <3>3
  <2> QED
    BY <1>3, <2>1, <2>8, <2>10
<1> QED
  BY <1>2, <1>3

-------------------------------------------------------------------------------
(* The amounts that are served in order until nothing is left: the first k *)
(* of them have k amounts, or everything.                                  *)
LEMMA ServedInOrder ==
  ASSUME NEW total \in Nat, NEW a \in Nat \ {0}, NEW n \in Nat, NEW F,
         \A i \in 1..n : F[i] = Clip(total - (i - 1) * a, a)
  PROVE  /\ \A i \in 1..n : F[i] \in Nat /\ F[i] =< a /\ (total >= i * a => F[i] = a)
         /\ SumFunctionOnSet(F, 1..n) \in Nat /\ SumFunctionOnSet(F, 1..n) =< total
<1> DEFINE S(k) == SumFunctionOnSet(F, 1..k)
           N == {k \in Nat : k =< n => S(k) = IF k * a =< total THEN k * a ELSE total}
<1>1. ASSUME NEW i \in 1..n
      PROVE  /\ F[i] \in Nat /\ F[i] =< a
             /\ (total >= i * a => F[i] = a)
             /\ (total < i * a /\ total >= (i - 1) * a => F[i] = total - (i - 1) * a)
             /\ (total < (i - 1) * a => F[i] = 0)
  <2> DEFINE m == (i - 1) * a
  <2>1. m \in Nat /\ i * a = m + a
    BY DEF m
  <2>2. F[i] = Clip(total - m, a)
    OBVIOUS
  <2> HIDE DEF m
  <2> QED
    BY <2>1, <2>2 DEF Clip, m
<1>2. 0 \in N
  <2>1. 1..0 = {} /\ 0 * a = 0
    OBVIOUS
  <2>2. SumFunctionOnSet(F, {}) = 0
    BY SumEmpty
  <2> QED
    BY <2>1, <2>2
<1>3. ASSUME NEW k \in N PROVE k + 1 \in N
  <2> SUFFICES ASSUME k + 1 =< n
               PROVE  S(k + 1) = IF (k + 1) * a =< total THEN (k + 1) * a ELSE total
    OBVIOUS
  <2>1. k \in Nat /\ k =< n /\ k + 1 \in 1..n /\ (k + 1) - 1 = k
    OBVIOUS
  <2>2. S(k) = IF k * a =< total THEN k * a ELSE total
    BY <2>1
  <2>3. 1..(k + 1) = (1..k) \cup {k + 1} /\ k + 1 \notin 1..k
    BY <2>1
  <2>4. IsFiniteSet(1..k)
    <3>1. 1 \in Int /\ k \in Int
      BY <2>1
    <3> QED
      BY <3>1, FS_Interval, Zenon
  <2>5. \A i \in (1..k) \cup {k + 1} : F[i] \in Int
    BY <1>1, <2>1
  <2>6. SumFunctionOnSet(F, (1..k) \cup {k + 1}) = SumFunctionOnSet(F, 1..k) + F[k + 1]
    <3> DEFINE D == 1..k
               e == k + 1
    <3>1. IsFiniteSet(D) /\ e \notin D /\ \A i \in D \cup {e} : F[i] \in Int
      BY <2>3, <2>4, <2>5
    <3> HIDE DEF D, e
    <3>2. SumFunctionOnSet(F, D \cup {e}) = SumFunctionOnSet(F, D) + F[e]
      BY <3>1, SumAdd
    <3> QED
      BY <3>2 DEF D, e
  <2>7. S(k + 1) = S(k) + F[k + 1]
    BY <2>3, <2>6
  <2> DEFINE m == k * a
             f == F[k + 1]
             now == S(k)
             next == S(k + 1)
  <2>8. m \in Nat /\ (k + 1) * a = m + a
    BY <2>1
  <2>9. /\ f \in Nat /\ (total >= m + a => f = a)
        /\ (total < m + a /\ total >= m => f = total - m)
        /\ (total < m => f = 0)
    BY <1>1, <2>1, <2>8
  <2>10. now = IF m =< total THEN m ELSE total
    BY <2>2
  <2>11. next = now + f
    BY <2>7
  <2> HIDE DEF m, f, now, next, S
  <2>12. next = IF m + a =< total THEN m + a ELSE total
    BY <2>8, <2>9, <2>10, <2>11
  <2> QED
    BY <2>8, <2>12 DEF next
<1> HIDE DEF N
<1>4. Nat \subseteq N
  <2>1. N \in SUBSET Nat
    BY DEF N
  <2> QED
    BY <1>2, <1>3, <2>1, Induction
<1>5. S(n) = IF n * a =< total THEN n * a ELSE total
  BY <1>4 DEF N
<1>6. n * a \in Nat
  OBVIOUS
<1> QED
  BY <1>1, <1>5, <1>6

(* What the outputs of a transaction with runes get: nothing is made, and  *)
(* with change every part gets its amount, and nothing is lost.            *)
LEMMA AllottedShares ==
  ASSUME NEW r \in Request, NEW t, t.outs \in Seq(Nat \ {0}), Runes(t.ins) \in Nat,
         t.runestone => Len(t.outs) \in {r.splits, r.splits + 1}
  PROVE  /\ Allotted(r, t) \in [1..Len(t.outs) -> Nat]
         /\ t.runestone /\ Len(t.outs) > r.splits =>
              /\ SumFunctionOnSet(Allotted(r, t), 1..Len(t.outs)) = Runes(t.ins)
              /\ Runes(t.ins) >= r.splits * r.amount =>
                   \A i \in 1..r.splits : Allotted(r, t)[i] >= r.amount
<1> DEFINE total == Runes(t.ins)
           n == Len(t.outs)
           count == n + 1
           a == r.amount
           share(i) ==
             IF EdictOutput(r) = count THEN Clip(total - (i - 1) * r.amount, r.amount)
             ELSE IF EdictOutput(r) = Position(r, i) THEN Clip(total, r.amount)
             ELSE 0
           shares == [i \in DOMAIN t.outs |-> share(i)]
           rest == total - Total(shares)
           all == Allotted(r, t)
<1>1. n \in Nat /\ DOMAIN t.outs = 1..n /\ r.splits \in Nat \ {0} /\ a \in Nat \ {0} /\ total \in Nat
  BY DEF Request
<1>2. all = IF ~t.runestone \/ EdictOutput(r) > count
            THEN [i \in DOMAIN t.outs |-> 0]
            ELSE [shares EXCEPT ![1] = @ + total - Total(shares)]
  BY DEF Allotted
<1>3. CASE ~t.runestone \/ ~(n > r.splits)
  <2>1. ~t.runestone \/ EdictOutput(r) > count
    BY <1>1, <1>3 DEF EdictOutput
  <2>2. all = [i \in 1..n |-> 0]
    BY <1>1, <1>2, <2>1
  <2>3. all \in [1..n -> Nat]
    BY <2>2
  <2> QED
    BY <1>3, <2>3
<1>4. CASE t.runestone /\ n > r.splits
  <2>1. n = r.splits + 1 /\ n > 0 /\ EdictOutput(r) = count
    BY <1>1, <1>4 DEF EdictOutput
  <2>2. all = [shares EXCEPT ![1] = @ + total - Total(shares)]
    BY <1>1, <1>2, <1>4, <2>1
  <2>3. DOMAIN shares = 1..n /\ \A i \in 1..n : shares[i] = Clip(total - (i - 1) * a, a)
    BY <1>1, <2>1
  <2> HIDE DEF shares, total, n, a, all
  <2>4. /\ \A i \in 1..n : shares[i] \in Nat /\ (total >= i * a => shares[i] = a)
        /\ SumFunctionOnSet(shares, 1..n) \in Nat /\ SumFunctionOnSet(shares, 1..n) =< total
    <3>1. \A i \in 1..n : shares[i] = Clip(total - (i - 1) * a, a)
      BY <2>3
    <3>2. n \in Nat /\ a \in Nat \ {0} /\ total \in Nat
      BY <1>1
    <3>3. /\ \A i \in 1..n : shares[i] \in Nat /\ shares[i] =< a /\ (total >= i * a => shares[i] = a)
          /\ SumFunctionOnSet(shares, 1..n) \in Nat /\ SumFunctionOnSet(shares, 1..n) =< total
      BY <3>1, <3>2, ServedInOrder, Zenon
    <3> QED
      BY <3>3, Zenon
  <2>5. Total(shares) = SumFunctionOnSet(shares, 1..n)
    BY <2>3 DEF Total, SumFunction
  <2>6. rest \in Nat /\ rest = total - SumFunctionOnSet(shares, 1..n)
    BY <1>1, <2>4, <2>5
  <2>7. /\ DOMAIN all = 1..n /\ 1 \in 1..n
        /\ all[1] = shares[1] + rest
        /\ \A i \in (1..n) \ {1} : all[i] = shares[i]
    <3>1. 1 \in 1..n
      BY <1>1, <2>1
    <3>2. shares[1] + total - Total(shares) = shares[1] + rest
      BY <1>1, <2>4, <2>5, <2>6, <3>1
    <3> HIDE DEF rest
    <3> QED
      BY <2>2, <2>3, <3>1, <3>2
  <2> HIDE DEF rest
  <2>8. \A i \in 1..n : all[i] \in Nat /\ all[i] >= shares[i]
    BY <2>4, <2>6, <2>7
  <2>9. SumFunctionOnSet(all, 1..n) = total
    <3> DEFINE D == 1..n
    <3>1. IsFiniteSet(D)
      <4>1. 1 \in Int /\ n \in Int
        BY <1>1
      <4> QED
        BY <4>1, FS_Interval, Zenon
    <3>2. /\ 1 \in D /\ (\A i \in D : all[i] \in Int) /\ (\A i \in D : shares[i] \in Int)
          /\ SumFunctionOnSet(shares, D) \in Nat
          /\ rest = total - SumFunctionOnSet(shares, D)
          /\ \A i \in D \ {1} : all[i] = shares[i]
      BY <2>4, <2>6, <2>7, <2>8
    <3> HIDE DEF D
    <3>3. SumFunctionOnSet(all, D) = all[1] + SumFunctionOnSet(all, D \ {1})
      BY <3>1, <3>2, SumRemove
    <3>4. SumFunctionOnSet(shares, D) = shares[1] + SumFunctionOnSet(shares, D \ {1})
      BY <3>1, <3>2, SumRemove
    <3>5. IsFiniteSet(D \ {1}) /\ \A i \in D \ {1} : shares[i] \in Int
      BY <3>1, <3>2, FS_RemoveElement
    <3>6. SumFunctionOnSet(shares, D \ {1}) = SumFunctionOnSet(all, D \ {1})
      BY <3>2, <3>5, SumAgree
    <3>7. SumFunctionOnSet(shares, D \ {1}) \in Int /\ shares[1] \in Int
      BY <3>2, <3>5, SumInteger
    <3> QED
      BY <1>1, <2>6, <2>7, <3>2, <3>3, <3>4, <3>6, <3>7 DEF D
  <2>10. ASSUME total >= r.splits * a, NEW i \in 1..r.splits PROVE all[i] >= a
    <3>1. i \in 1..n
      BY <1>1, <2>1
    <3>2. i * a =< r.splits * a /\ i * a \in Nat /\ r.splits * a \in Nat
      <4> DEFINE s == r.splits
                 d == s - i
      <4>1. i \in Nat /\ d \in Nat /\ s = i + d
        BY <1>1
      <4>2. i * a \in Nat /\ d * a \in Nat
        BY <1>1, <4>1
      <4> HIDE DEF d, s
      <4>3. s * a = i * a + d * a
        BY <1>1, <4>1
      <4> QED
        BY <4>2, <4>3 DEF s
    <3>3. total >= i * a
      BY <1>1, <2>10, <3>2
    <3> QED
      BY <1>1, <2>4, <2>8, <3>1, <3>3
  <2>11. all \in [1..n -> Nat]
    <3>1. all = [i \in 1..n |-> all[i]]
      BY <2>2, <2>3, <2>7
    <3> QED
      BY <2>8, <3>1
  <2> QED
    BY <2>9, <2>10, <2>11 DEF total, n, a, all
<1> QED
  BY <1>3, <1>4

(* What the wallet has once a split is in the mempool: what it had, some   *)
(* of it spent, and the outputs of the transaction with their shares.      *)
LEMMA AcceptedOutputs ==
  ASSUME ChainInv, NEW r \in Request, NEW t, t.outs \in Seq(Nat \ {0}), Runes(t.ins) \in Nat,
         t.runestone => Len(t.outs) \in {r.splits, r.splits + 1},
         outputs' = Accepted(r, t), UNCHANGED <<tip, ordHeight>>
  PROVE  /\ ChainKept
         /\ DOMAIN outputs' = 1..(Len(outputs) + Len(t.outs))
         /\ \A i \in 1..Len(t.outs) :
              outputs'[Len(outputs) + i].runes = Allotted(r, t)[i]
<1> DEFINE left == [o \in DOMAIN outputs |->
                     IF o \in t.ins THEN [outputs[o] EXCEPT !.spent = Mempool] ELSE outputs[o]]
           shares == Allotted(r, t)
           made == [i \in DOMAIN t.outs |->
                     [value |-> t.outs[i], runes |-> shares[i], inscribed |-> FALSE,
                      created |-> Mempool, spent |-> Never]]
           m == Len(outputs)
           n == Len(t.outs)
<1>1. outputs' = left \o made
  BY DEF Accepted
<1>2. /\ DOMAIN outputs = 1..m /\ m \in Nat /\ \A o \in DOMAIN outputs : outputs[o] \in Output
      /\ DOMAIN t.outs = 1..n /\ n \in Nat /\ \A i \in 1..n : t.outs[i] \in Nat
  BY OutputsDomain
<1>3. \A i \in 1..n : shares[i] \in Nat
  BY AllottedShares
<1>4. Mempool \in 0..Mempool /\ Mempool \in 0..Never /\ Never \in 0..Never
  BY OutputsAssumption DEF Mempool, Never
<1>5. ASSUME NEW o \in 1..m
      PROVE  /\ left[o] \in Output
             /\ left[o].value = outputs[o].value /\ left[o].runes = outputs[o].runes
             /\ left[o].inscribed = outputs[o].inscribed /\ left[o].created = outputs[o].created
  <2>1. outputs[o] \in Output
    BY <1>2
  <2>2. left[o] = IF o \in t.ins THEN [outputs[o] EXCEPT !.spent = Mempool] ELSE outputs[o]
    BY <1>2
  <2> HIDE DEF left
  <2> QED
    BY <1>4, <2>1, <2>2 DEF Output
<1>6. ASSUME NEW i \in 1..n PROVE made[i] \in Output /\ made[i].runes = shares[i]
  <2>1. made[i] = [value |-> t.outs[i], runes |-> shares[i], inscribed |-> FALSE,
                   created |-> Mempool, spent |-> Never]
    BY <1>2
  <2>2. t.outs[i] \in Nat /\ shares[i] \in Nat
    BY <1>2, <1>3
  <2> HIDE DEF made, shares
  <2> QED
    BY <1>4, <2>1, <2>2 DEF Output
<1>7. left \in Seq(Output) /\ Len(left) = m
  <2>1. left = [o \in 1..m |-> left[o]]
    BY <1>2
  <2> HIDE DEF left
  <2>2. left \in [1..m -> Output]
    BY <1>5, <2>1
  <2>3. DOMAIN left = 1..m
    BY <2>2
  <2> QED
    BY <1>2, <2>2, <2>3, SeqDef
<1>8. made \in Seq(Output) /\ Len(made) = n
  <2>1. made = [i \in 1..n |-> made[i]]
    BY <1>2
  <2> HIDE DEF made
  <2>2. made \in [1..n -> Output]
    BY <1>6, <2>1
  <2>3. DOMAIN made = 1..n
    BY <2>2
  <2> QED
    BY <1>2, <2>2, <2>3, SeqDef
<1> HIDE DEF left, made, shares, m, n
<1>9. /\ outputs' \in Seq(Output) /\ DOMAIN outputs' = 1..(m + n)
      /\ \A o \in 1..m : outputs'[o] = left[o]
      /\ \A i \in 1..n : outputs'[m + i] = made[i]
  BY <1>1, <1>2, <1>7, <1>8
<1>10. ChainInv' /\ tip =< tip'
  BY <1>9, OutputsAssumption DEF ChainInv
<1>11. \A o \in DOMAIN outputs : KeepsOutput(o)
  BY <1>2, <1>5, <1>9 DEF KeepsOutput
<1> QED
  BY <1>6, <1>9, <1>10, <1>11 DEF ChainKept, m, n, shares

(* Blocks, payments and whatever else happens to the wallet leave a split  *)
(* what it has.                                                            *)
LEMMA ChainKeepsSplits ==
  ASSUME SplitsInv, ChainKept, UNCHANGED splitVars
  PROVE  SplitsInv'
<1> USE DEF SplitsInv, splitVars
<1>1. DOMAIN outputs \subseteq DOMAIN outputs' /\ ChainInv' /\ ChainInv
  BY DEF ChainKept, KeepsOutput
<1>2. ListedInv'
  <2>1. listed \in Seq(DOMAIN outputs')
    <3>1. DOMAIN listed = 1..Len(listed) /\ Len(listed) \in Nat
            /\ listed = [i \in 1..Len(listed) |-> listed[i]]
            /\ \A i \in 1..Len(listed) : listed[i] \in DOMAIN outputs
      BY ElementOfSeq DEF ListedInv
    <3>2. listed \in [1..Len(listed) -> DOMAIN outputs']
      BY <1>1, <3>1
    <3> QED
      BY <3>1, <3>2, SeqDef
  <2> QED
    BY <2>1 DEF ListedInv
<1>3. TxInv'
  BY DEF TxInv, IsTransaction
<1>4. MadeInv'
  BY <1>1 DEF MadeInv
<1>5. spc \in {"broadcast", "save"} => Value(tx.ins)' = Value(tx.ins) /\ Runes(tx.ins)' = Runes(tx.ins)
  <2> SUFFICES ASSUME spc \in {"broadcast", "save"}
               PROVE  Value(tx.ins)' = Value(tx.ins) /\ Runes(tx.ins)' = Runes(tx.ins)
    OBVIOUS
  <2>1. tx.ins \subseteq DOMAIN outputs
    BY ListedOutputs DEF TxInv, IsTransaction
  <2> QED
    BY <1>1, <2>1, ValueKept
<1>6. SplitPaysItsFee'
  BY <1>5 DEF SplitPaysItsFee
<1>7. PartsGetTheirRunes'
  <2> SUFFICES ASSUME tx.first > 0, tx.runestone, Len(tx.outs) > request.splits
               PROVE  /\ Runes(Made)' = Runes(tx.ins)'
                      /\ Runes(tx.ins)' >= request.splits * request.amount =>
                           \A i \in 0..(request.splits - 1) :
                              outputs'[tx.first + i].runes >= request.amount
    BY DEF PartsGetTheirRunes
  <2>1. spc = "save"
    BY DEF TxInv, ListedInv, NoTx
  <2> DEFINE n == Len(tx.outs)
             M == tx.first..(tx.first + n - 1)
  <2>2. n \in Nat /\ tx.first \in Nat /\ M \subseteq DOMAIN outputs /\ n > request.splits
          /\ request.splits \in Nat
    BY <2>1 DEF TxInv, IsTransaction, MadeInv, ListedInv, Request
  <2>3. Made = M /\ Made' = M
    <3>1. DOMAIN outputs \subseteq Nat /\ DOMAIN outputs' \subseteq Nat
      <4>1. DOMAIN outputs = 1..Len(outputs) /\ Len(outputs) \in Nat
        BY ElementOfSeq DEF ChainInv
      <4>2. DOMAIN outputs' = 1..Len(outputs') /\ Len(outputs') \in Nat
        BY <1>1, ElementOfSeq DEF ChainInv
      <4> QED
        BY <4>1, <4>2
    <3>2. M \subseteq DOMAIN outputs'
      BY <1>1, <2>2
    <3> QED
      BY <2>2, <3>1, <3>2 DEF Made
  <2> HIDE DEF M, n
  <2>4. Runes(Made)' = Runes(Made)
    BY <1>1, <2>2, <2>3, ValueKept
  <2>5. \A i \in 0..(request.splits - 1) :
          tx.first + i \in DOMAIN outputs /\ outputs'[tx.first + i].runes = outputs[tx.first + i].runes
    <3>1. \A i \in 0..(request.splits - 1) : tx.first + i \in M
      BY <2>2 DEF M
    <3> QED
      BY <2>2, <3>1 DEF ChainKept, KeepsOutput
  <2> QED
    BY <1>5, <2>1, <2>2, <2>4, <2>5 DEF PartsGetTheirRunes, n
<1> QED
  BY <1>1, <1>2, <1>3, <1>4, <1>6, <1>7

-------------------------------------------------------------------------------
(* Without a transaction there is little to say.                           *)
LEMMA WithoutTransaction ==
  ASSUME ChainInv', ListedInv', tx' = NoTx, spc' \notin {"broadcast", "save"}
  PROVE  SplitsInv'
BY DEF SplitsInv, TxInv, MadeInv, NoTx, SplitPaysItsFee, PartsGetTheirRunes

LEMMA InitSplits == SplitsInit /\ OutputsInit => SplitsInv
<1> SUFFICES ASSUME SplitsInit, OutputsInit
             PROVE  SplitsInv
  OBVIOUS
<1>1. ChainInv
  BY OutputsAssumption DEF OutputsInit, ChainInv
<1>2. ListedInv
  BY DEF SplitsInit, ListedInv, IsInjective
<1> QED
  BY <1>1, <1>2 DEF SplitsInit, SplitsInv, TxInv, MadeInv, NoTx, SplitPaysItsFee, PartsGetTheirRunes

LEMMA AnsweredKeepsSplits ==
  ASSUME SplitsInv, Answered, UNCHANGED chainVars
  PROVE  SplitsInv'
<1>1. ChainInv'
  BY DEF SplitsInv, ChainInv, chainVars
<1>2. ListedInv'
  <2>1. <<>> \in Seq(DOMAIN outputs') /\ IsInjective(<<>>)
    BY DEF IsInjective
  <2> QED
    BY <2>1 DEF Answered, ListedInv
<1> QED
  BY <1>1, <1>2, WithoutTransaction DEF Answered

LEMMA CreateKeepsSplits ==
  ASSUME SplitsInv, CreateSplitPsbt, UNCHANGED chainVars
  PROVE  SplitsInv'
<1>1. CASE Answered
  BY <1>1, AnsweredKeepsSplits
<1>2. CASE ~Answered
  <2>1. PICK rate \in FeeRates : /\ Transaction(request, rate) # NoTx
                                 /\ tx' = Transaction(request, rate)
                                 /\ spc' = "broadcast"
                                 /\ UNCHANGED <<request, listed, gone>>
    BY <1>2 DEF CreateSplitPsbt
  <2>2. spc = "check" /\ request \in Request /\ rate \in Nat /\ ChainInv /\ ListedInv
    BY SplitsAssumption DEF CreateSplitPsbt, SplitsInv, ListedInv
  <2> DEFINE ins == IF request.asset = "BTC" THEN {} ELSE AssetOutputs
             outs == PayOutputs(request, rate)
             runestone == request.asset # "BTC"
             t == Transaction(request, rate)
  <2>3. ins \in SUBSET Range(listed) /\ runestone \in BOOLEAN
    BY DEF AssetOutputs
  <2>4. outs \in Seq(Nat \ {0}) /\ (request.asset # "BTC" => Len(outs) = request.splits)
    BY <2>2, PayOutputsType
  <2>5. t = Funded(ins, outs, runestone, rate) /\ t # NoTx
    BY <2>1 DEF Transaction
  <2>6. request.asset \in {"BTC", "rune"}
    BY <2>2 DEF Request
  <2> HIDE DEF ins, outs, runestone, t
  <2>7. /\ IsTransaction(t) /\ t.first = 0 /\ t.rate = rate /\ t.runestone = runestone
        /\ Len(t.outs) \in {Len(outs), Len(outs) + 1}
        /\ LET count == Len(t.outs) + Marker(t.runestone)
               paid == Value(t.ins) - Total(t.outs)
           IN /\ paid >= Fee(Cardinality(t.ins), count, t.rate)
              /\ paid =< Fee(Cardinality(t.ins), count + 1, t.rate) + DUST
    BY <2>2, <2>3, <2>4, <2>5, FundedTransaction
  <2>8. tx' = t
    BY <2>1 DEF t
  <2>9. ChainInv' /\ ListedInv'
    BY <2>1, <2>2 DEF SplitsInv, ChainInv, ListedInv, chainVars
  <2>10. TxInv'
    <3>1. IsTransaction(tx)'
      BY <2>1, <2>7, <2>8 DEF IsTransaction
    <3>2. tx'.runestone => request'.asset = "rune" /\ Len(tx'.outs) \in {request'.splits, request'.splits + 1}
      BY <2>1, <2>4, <2>6, <2>7, <2>8 DEF runestone
    <3> QED
      BY <2>1, <2>7, <2>8, <3>1, <3>2 DEF TxInv
  <2>11. SplitPaysItsFee'
    BY <2>7, <2>8 DEF SplitPaysItsFee, Value, chainVars
  <2>12. MadeInv' /\ PartsGetTheirRunes'
    BY <2>1, <2>7, <2>8 DEF MadeInv, PartsGetTheirRunes
  <2> QED
    BY <2>9, <2>10, <2>11, <2>12 DEF SplitsInv
<1> QED
  BY <1>1, <1>2

(* The shares of the outputs that were made are what they hold.            *)
LEMMA BroadcastKeepsSplits ==
  ASSUME SplitsInv, BroadcastSplit, UNCHANGED <<tip, ordHeight>>
  PROVE  SplitsInv' /\ ChainKept
<1> USE DEF SplitsInv
<1>1. CASE ~IsAccepted(tx)
  <2>1. Answered /\ UNCHANGED chainVars
    BY <1>1 DEF BroadcastSplit, chainVars
  <2>2. ChainKept
    BY <2>1, OutputsAssumption DEF ChainKept, ChainInv, KeepsOutput, chainVars
  <2> QED
    BY <2>1, <2>2, AnsweredKeepsSplits
<1>2. CASE IsAccepted(tx)
  <2> DEFINE m == Len(outputs)
             n == Len(tx.outs)
             shares == Allotted(request, tx)
  <2>1. /\ outputs' = Accepted(request, tx) /\ tx' = [tx EXCEPT !.first = m + 1]
        /\ spc = "broadcast" /\ spc' = "save" /\ UNCHANGED <<request, listed, gone>>
    BY <1>2 DEF BroadcastSplit
  <2>2. /\ request \in Request /\ IsTransaction(tx)
        /\ tx.runestone => /\ request.asset = "rune"
                           /\ n \in {request.splits, request.splits + 1}
    BY <2>1 DEF ListedInv, TxInv
  <2>3. tx.ins \subseteq DOMAIN outputs /\ Runes(tx.ins) \in Nat /\ tx.outs \in Seq(Nat \ {0})
    BY <2>2, ListedOutputs, ValueType DEF IsTransaction
  <2>4. /\ ChainKept
        /\ DOMAIN outputs' = 1..(m + n)
        /\ \A i \in 1..n : outputs'[m + i].runes = shares[i]
    BY <2>1, <2>2, <2>3, AcceptedOutputs
  <2>5. m \in Nat /\ n \in Nat /\ DOMAIN outputs = 1..m
    BY <2>3, OutputsDomain
  <2>6. /\ tx'.ins = tx.ins /\ tx'.outs = tx.outs /\ tx'.rate = tx.rate
        /\ tx'.runestone = tx.runestone /\ tx'.first = m + 1 /\ DOMAIN tx' = DOMAIN tx
    BY <2>1, <2>2 DEF IsTransaction
  <2>7. ListedInv'
    <3>1. listed \in Seq(DOMAIN outputs')
      <4>1. DOMAIN listed = 1..Len(listed) /\ Len(listed) \in Nat
              /\ listed = [i \in 1..Len(listed) |-> listed[i]]
              /\ \A i \in 1..Len(listed) : listed[i] \in DOMAIN outputs
        BY ElementOfSeq DEF ListedInv
      <4>2. listed \in [1..Len(listed) -> DOMAIN outputs']
        BY <2>4, <2>5, <4>1
      <4> QED
        BY <4>1, <4>2, SeqDef
    <3> QED
      BY <2>1, <2>2, <3>1 DEF ListedInv
  <2>8. TxInv'
    BY <2>1, <2>2, <2>6 DEF TxInv, IsTransaction
  <2>9. MadeInv'
    <3>1. tx'.first + Len(tx'.outs) - 1 = m + n /\ tx'.first \in Nat \ {0}
      <4>1. Len(tx'.outs) = n
        BY <2>6
      <4> HIDE DEF m, n
      <4> QED
        BY <2>5, <2>6, <4>1
    <3>2. tx'.first..(tx'.first + Len(tx'.outs) - 1) \subseteq 1..(m + n)
      <4> DEFINE from == tx'.first
                 to == tx'.first + Len(tx'.outs) - 1
      <4>1. from \in Nat \ {0} /\ to = m + n
        BY <3>1
      <4>2. to \in Nat
        BY <2>5, <4>1
      <4> HIDE DEF m, n, from, to
      <4>3. from..to \subseteq 1..to
        BY <4>1, <4>2
      <4>4. from..to \subseteq 1..(m + n)
        BY <4>1, <4>3
      <4> QED
        BY <4>4 DEF from, to
    <3> QED
      BY <2>4, <3>1, <3>2 DEF MadeInv
  <2>10. SplitPaysItsFee'
    BY <2>1 DEF SplitPaysItsFee
  <2>11. PartsGetTheirRunes'
    <3> SUFFICES ASSUME tx.runestone, n > request.splits
                 PROVE  /\ Runes(Made)' = Runes(tx.ins)'
                        /\ Runes(tx.ins)' >= request.splits * request.amount =>
                             \A i \in 0..(request.splits - 1) :
                                outputs'[(m + 1) + i].runes >= request.amount
      BY <2>1, <2>6 DEF PartsGetTheirRunes
    <3>1. /\ shares \in [1..n -> Nat] /\ SumFunctionOnSet(shares, 1..n) = Runes(tx.ins)
          /\ Runes(tx.ins) >= request.splits * request.amount =>
               \A i \in 1..request.splits : shares[i] >= request.amount
      BY <2>2, <2>3, AllottedShares
    <3> DEFINE N == 1..n
               M == (m + 1)..(m + n)
               F == [o \in DOMAIN outputs' |-> outputs'[o].runes]
               h == [i \in N |-> m + i]
    <3>2. Made' = M
      <4>1. Made' = {o \in 1..(m + n) : m + 1 =< o /\ o < m + 1 + n}
        BY <2>4, <2>6 DEF Made
      <4> HIDE DEF m, n
      <4> QED
        BY <2>5, <4>1
    <3>3. Runes(Made)' = SumFunctionOnSet(F, M)
      BY <3>2 DEF Runes
    <3>4. h \in Bijection(N, M)
      <4>1. h \in [N -> M]
        BY <2>5
      <4>2. \A i, j \in N : h[i] = h[j] => i = j
        BY <2>5
      <4>3. \A o \in M : o - m \in N /\ h[o - m] = o
        BY <2>5
      <4> HIDE DEF h, M, N
      <4>4. h \in Injection(N, M)
        BY <4>1, <4>2 DEF Injection, IsInjective
      <4>5. h \in Surjection(N, M)
        BY <4>1, <4>3 DEF Surjection
      <4> QED
        BY <4>4, <4>5 DEF Bijection
    <3>5. \A i \in N : F[h[i]] \in Int /\ shares[i] = F[h[i]]
      <4> SUFFICES ASSUME NEW i \in N
                   PROVE  F[h[i]] \in Int /\ shares[i] = F[h[i]]
        OBVIOUS
      <4>1. shares[i] \in Nat /\ outputs'[m + i].runes = shares[i]
        BY <2>4, <3>1
      <4>2. m + i \in DOMAIN outputs' /\ h[i] = m + i
        BY <2>4, <2>5
      <4>3. F[h[i]] = outputs'[m + i].runes
        BY <4>2
      <4> HIDE DEF F, h, shares
      <4> QED
        BY <4>1, <4>3
    <3>6. IsFiniteSet(N)
      <4>1. 1 \in Int /\ n \in Int
        BY <2>5
      <4> QED
        BY <4>1, FS_Interval, Zenon
    <3> HIDE DEF N, M, F, h, shares
    <3>7. SumFunctionOnSet(shares, N) = SumFunctionOnSet(F, M)
      BY <3>4, <3>5, <3>6, SumRenamed
    <3>8. Runes(tx.ins)' = Runes(tx.ins)
      BY <2>3, <2>4, <2>6, ValueKept
    <3>9. Runes(Made)' = Runes(tx.ins)'
      BY <3>1, <3>3, <3>7, <3>8 DEF N
    <3>10. ASSUME Runes(tx.ins)' >= request.splits * request.amount, NEW i \in 0..(request.splits - 1)
           PROVE  outputs'[(m + 1) + i].runes >= request.amount
      <4>1. request.splits \in Nat /\ i + 1 \in 1..request.splits /\ i + 1 \in 1..n
              /\ m + (i + 1) = (m + 1) + i
        BY <2>2, <2>5 DEF Request
      <4>2. shares[i + 1] >= request.amount
        BY <3>1, <3>8, <3>10, <4>1
      <4> QED
        BY <2>4, <4>1, <4>2
    <3> QED
      BY <3>9, <3>10
  <2> QED
    BY <2>4, <2>7, <2>8, <2>9, <2>10, <2>11 DEF ChainKept
<1> QED
  BY <1>1, <1>2

(* A step of a split keeps its invariant and what a query relies on.       *)
LEMMA SplitStepKeepsSplits ==
  ASSUME SplitsInv, SplitStep, UNCHANGED <<tip, ordHeight>>
  PROVE  SplitsInv' /\ ChainKept
<1>0. ChainInv /\ ListedInv /\ TxInv
  BY DEF SplitsInv
<1>1. CASE BroadcastSplit
  BY <1>1, BroadcastKeepsSplits
<1>2. CASE ~BroadcastSplit
  <2>1. UNCHANGED chainVars
    BY <1>2 DEF SplitStep, Ask, ListOutputs, ReadOutputs, CreateSplitPsbt, SaveSplit, SplitFails,
                chainVars
  <2>2. ChainKept
    BY <1>0, <2>1, OutputsAssumption DEF ChainKept, ChainInv, KeepsOutput, chainVars
  <2>3. ChainInv' /\ DOMAIN outputs' = DOMAIN outputs
    BY <1>0, <2>1 DEF ChainInv, chainVars
  <2>4. CASE Ask
    <3>1. request' \in Request /\ spc = "idle" /\ spc' = "address" /\ UNCHANGED <<listed, gone, tx>>
      BY <2>4, SplitsAssumption DEF Ask
    <3>2. ListedInv'
      BY <1>0, <2>3, <3>1 DEF ListedInv
    <3> QED
      BY <2>2, <2>3, <3>1, <3>2, <1>0, WithoutTransaction DEF TxInv
  <2>5. CASE ListOutputs
    <3>1. /\ listed' \in Bijection(1..Cardinality(ListedAt(ordHeight)), ListedAt(ordHeight))
          /\ spc = "address" /\ spc' = "outputs" /\ UNCHANGED <<request, gone, tx>>
      BY <2>5 DEF ListOutputs
    <3>2. ListedAt(ordHeight) \subseteq DOMAIN outputs
      BY DEF ListedAt, Known
    <3>3. Cardinality(ListedAt(ordHeight)) \in Nat
      BY <1>0, <3>2, OutputsDomain, FS_Subset, FS_CardinalityType
    <3>4. listed' \in Seq(DOMAIN outputs') /\ IsInjective(listed')
      <4> DEFINE n == Cardinality(ListedAt(ordHeight))
      <4>1. listed' \in [1..n -> DOMAIN outputs'] /\ IsInjective(listed')
        BY <2>2, <2>3, <3>1, <3>2 DEF Bijection, Injection
      <4> HIDE DEF n
      <4>2. n \in Nat
        BY <3>3 DEF n
      <4> QED
        BY <4>1, <4>2, SeqDef
    <3>5. ListedInv'
      BY <1>0, <3>1, <3>4 DEF ListedInv
    <3> QED
      BY <2>2, <2>3, <3>1, <3>5, <1>0, WithoutTransaction DEF TxInv
  <2>6. CASE ReadOutputs
    <3>1. gone' \subseteq Range(listed) /\ spc = "outputs" /\ spc' = "check" /\ UNCHANGED <<request, listed, tx>>
      BY <2>6 DEF ReadOutputs
    <3>2. ListedInv'
      BY <1>0, <2>3, <3>1 DEF ListedInv
    <3> QED
      BY <2>2, <2>3, <3>1, <3>2, <1>0, WithoutTransaction DEF TxInv
  <2>7. CASE CreateSplitPsbt
    BY <2>1, <2>2, <2>7, CreateKeepsSplits
  <2>8. CASE SaveSplit \/ SplitFails
    BY <2>1, <2>2, <2>8, AnsweredKeepsSplits DEF SaveSplit, SplitFails
  <2> QED
    BY <1>2, <2>2, <2>4, <2>5, <2>6, <2>7, <2>8 DEF SplitStep
<1> QED
  BY <1>1, <1>2

LEMMA NothingKeepsSplits ==
  ASSUME SplitsInv, UNCHANGED <<chainVars, splitVars>>
  PROVE  SplitsInv'
<1>1. ChainKept
  BY OutputsAssumption DEF SplitsInv, ChainKept, ChainInv, KeepsOutput, chainVars
<1> QED
  BY <1>1, ChainKeepsSplits

(* Splits beside the chain, whatever happens to the outputs meanwhile.     *)
LEMMA SplitsInvariant == SplitsSpec => []SplitsInv
<1>1. SplitsInv /\ [SplitsNext]_<<chainVars, splitVars>> => SplitsInv'
  <2> SUFFICES ASSUME SplitsInv, [SplitsNext]_<<chainVars, splitVars>>
               PROVE  SplitsInv'
    OBVIOUS
  <2>1. CASE SplitStep /\ UNCHANGED <<tip, ordHeight>>
    BY <2>1, SplitStepKeepsSplits
  <2>2. CASE ChainStep /\ UNCHANGED splitVars
    <3>1. ChainKept
      BY <2>2, ChainKeepsOutputs DEF SplitsInv
    <3> QED
      BY <2>2, <3>1, ChainKeepsSplits
  <2>3. CASE UNCHANGED <<chainVars, splitVars>>
    BY <2>3, NothingKeepsSplits
  <2> QED
    BY <2>1, <2>2, <2>3 DEF SplitsNext
<1> QED
  BY <1>1, InitSplits, PTL DEF SplitsSpec

LEMMA SplitsTypesFollow == SplitsInv => SplitsTypeOK
<1> SUFFICES ASSUME SplitsInv PROVE SplitsTypeOK
  OBVIOUS
<1>1. ListedInv /\ TxInv
  BY DEF SplitsInv
<1>2. tx.ins \subseteq Range(listed) /\ tx.outs \in Seq(Nat \ {0})
  <2>1. CASE spc \in {"broadcast", "save"}
    BY <1>1, <2>1 DEF TxInv, IsTransaction
  <2>2. CASE spc \notin {"broadcast", "save"}
    <3>1. tx = NoTx
      BY <1>1, <2>2 DEF TxInv
    <3>2. tx.ins = {} /\ tx.outs = <<>>
      BY <3>1 DEF NoTx
    <3>3. <<>> \in Seq(Nat \ {0})
      OBVIOUS
    <3> QED
      BY <3>2, <3>3
  <2> QED
    BY <2>1, <2>2
<1>3. \A v \in Range(tx.outs) : v > 0
  BY <1>2 DEF Range
<1> QED
  BY <1>1, <1>2, <1>3 DEF ListedInv, SplitsTypeOK

(* Every variable of a split holds what the code can put there: what it    *)
(* spends is listed, and no output is worth nothing.                       *)
THEOREM SplitsTypeCorrect == SplitsSpec => []SplitsTypeOK
BY SplitsInvariant, SplitsTypesFollow, PTL

(* A split pays the fee for the size it has in the end, and little more:   *)
(* for any outputs, requests and fee rates, and whatever happens to the    *)
(* wallet meanwhile (psbtUtils.ts:36-96, account.service.ts:242-268).      *)
THEOREM SplitsPayTheirFee == SplitsSpec => []SplitPaysItsFee
<1>1. SplitsInv => SplitPaysItsFee
  BY DEF SplitsInv
<1> QED
  BY <1>1, SplitsInvariant, PTL

(* A split with change gives every part its amount, if there is enough,    *)
(* and loses no rune: for any number of parts, and any runes the outputs   *)
(* hold (account.service.ts:206-226, psbtUtils.ts:86-91).                  *)
THEOREM SplitsServeTheParts == SplitsSpec => []PartsGetTheirRunes
<1>1. SplitsInv => PartsGetTheirRunes
  BY DEF SplitsInv
<1> QED
  BY <1>1, SplitsInvariant, PTL

-------------------------------------------------------------------------------
(* Queries and splits in one process: what a split does to the outputs     *)
(* leaves a query what it relies on, and a query does nothing to a split.  *)
(* So both keep what they keep alone.                                      *)
THEOREM FundsKeepTheirPromises ==
  FundsSpec => [](/\ FundingTypeOK /\ FoundIsAskedFor
                  /\ SplitsTypeOK /\ SplitPaysItsFee /\ PartsGetTheirRunes)
<1> DEFINE Query == FundingInv /\ BisInv /\ AnswersInv
<1>1. FundsInit => Query /\ SplitsInv
  BY InitFunding, InitAnswers, InitSplits DEF FundsInit, FundingInit, BisInv
<1>2. ASSUME Query, SplitsInv, [FundsNext]_fundsVars
      PROVE  Query' /\ SplitsInv'
  <2>1. ASSUME ChainKept, UNCHANGED queryVars PROVE Query'
    BY <1>2, <2>1, ChainKeepsFunding, ChainKeepsBis, ChainKeepsAnswers
  <2>2. CASE (QueryStep \/ BisIndexes) /\ UNCHANGED <<chainVars, splitVars>>
    BY <1>2, <2>2, QueryKeepsFunding, QueryKeepsBis, QueryKeepsAnswers, NothingKeepsSplits
  <2>3. CASE SplitStep /\ UNCHANGED <<tip, ordHeight, queryVars>>
    BY <1>2, <2>1, <2>3, SplitStepKeepsSplits
  <2>4. CASE ChainStep /\ UNCHANGED <<queryVars, splitVars>>
    <3>1. ChainKept
      BY <1>2, <2>4, ChainKeepsOutputs DEF FundingInv
    <3> QED
      BY <1>2, <2>1, <2>4, <3>1, ChainKeepsSplits
  <2>5. CASE UNCHANGED fundsVars
    <3>1. UNCHANGED <<chainVars, queryVars, splitVars>>
      BY <2>5 DEF fundsVars
    <3>2. ChainKept
      BY <1>2, <3>1, OutputsAssumption DEF FundingInv, ChainKept, ChainInv, KeepsOutput, chainVars
    <3> QED
      BY <1>2, <2>1, <3>1, <3>2, NothingKeepsSplits
  <2> QED
    BY <1>2, <2>2, <2>3, <2>4, <2>5 DEF FundsNext
<1>3. Query /\ SplitsInv => /\ FundingTypeOK /\ FoundIsAskedFor
                           /\ SplitsTypeOK /\ SplitPaysItsFee /\ PartsGetTheirRunes
  <2>1. FundingInv => FoundIsAskedFor
    BY DEF FundingInv, FoundInv, FoundIsAskedFor, Right
  <2>2. SplitsInv => SplitPaysItsFee /\ PartsGetTheirRunes
    BY DEF SplitsInv
  <2> QED
    BY <2>1, <2>2, TypesFollow, SplitsTypesFollow
<1> HIDE DEF Query
<1> QED
  BY <1>1, <1>2, <1>3, PTL DEF FundsSpec
=============================================================================
