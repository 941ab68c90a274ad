-------------------------------- MODULE MCFunds --------------------------------
(***************************************************************************)
(* Small instances of Funds, with the sizes and fees of the code.          *)
(***************************************************************************)
EXTENDS Funds

Holds(value, runes, inscribed, created) ==
  [value |-> value, runes |-> runes, inscribed |-> inscribed, created |-> created,
   spent |-> Never]

(* Sats to split or to pay with, and runes to split or to sell.            *)
SatsAndRunes ==
  {<<Holds(23000, 0, FALSE, 0), Holds(546, 5, FALSE, 0)>>,
   <<Holds(20000, 0, FALSE, 0), Holds(15000, 0, FALSE, 0)>>}
Arrivals == {Holds(1500, 3, FALSE, Mempool), Holds(20000, 0, TRUE, Mempool)}

Parts ==
  {[asset |-> "BTC", splits |-> 2, amount |-> 10000],
   [asset |-> "BTC", splits |-> 2, amount |-> 9000],
   [asset |-> "BTC", splits |-> 3, amount |-> 10000],
   [asset |-> "rune", splits |-> 2, amount |-> 2]}

(* One output to pay the fee with, and no change worth having.             *)
JustEnough == {<<Holds(546, 5, FALSE, 0), Holds(2000, 0, FALSE, 0)>>}
===============================================================================
