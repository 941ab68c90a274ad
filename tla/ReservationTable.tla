--------------------------- MODULE ReservationTable ---------------------------
(***************************************************************************)
(* What the reservation map of the event handler promises, without the     *)
(* handlers, the database and the clock that drive it: at any moment a     *)
(* UTXO is held by at most one trade, a trade takes only free UTXOs, and   *)
(* between two trades a UTXO is always free.  The map is the property      *)
(* reservedUtxos of EventHandlerService                                    *)
(* (libs/execution/src/event-handler/event-handler.service.ts:19-26).      *)
(***************************************************************************)
EXTENDS FiniteSets

CONSTANTS
  Trades,   \* trade identifiers chosen by the exchange
  Utxos     \* locations (txid:vout) of the wallet's unspent outputs

VARIABLE holder   \* the trade holding each reserved UTXO; its domain is the set of keys

TypeOK ==
  /\ DOMAIN holder \subseteq Utxos
  /\ holder = [u \in DOMAIN holder |-> holder[u]]
  /\ \A u \in DOMAIN holder : holder[u] \in Trades

Init == holder = [u \in {} |-> u]

HeldUtxos(t) == {u \in DOMAIN holder : holder[u] = t}

(* A reserve request takes a set of free UTXOs at once.                    *)
Acquire(t, S) ==
  /\ S # {}
  /\ S \subseteq Utxos \ DOMAIN holder
  /\ holder' = [u \in DOMAIN holder \cup S |-> IF u \in S THEN t ELSE holder[u]]

(* A cancel, from the exchange or from a failed request, gives up all the  *)
(* UTXOs of its trade.                                                     *)
Release(t) ==
  /\ HeldUtxos(t) # {}
  /\ holder' = [u \in DOMAIN holder \ HeldUtxos(t) |-> holder[u]]

(* The periodic cleanup drops any set of reservations.                     *)
Expire(S) ==
  /\ S # {}
  /\ S \subseteq DOMAIN holder
  /\ holder' = [u \in DOMAIN holder \ S |-> holder[u]]

Next ==
  \/ \E t \in Trades, S \in SUBSET Utxos : Acquire(t, S)
  \/ \E t \in Trades : Release(t)
  \/ \E S \in SUBSET Utxos : Expire(S)

Spec == Init /\ [][Next]_holder

(* No step hands a UTXO from one trade to another: it is free in between.  *)
(* This is what makes it sound for two reserve requests to run             *)
(* concurrently (event-handler.service.ts:320 and :346).                   *)
NoHandover ==
  [][\A u \in DOMAIN holder : u \in DOMAIN holder' => holder'[u] = holder[u]]_holder
===============================================================================
