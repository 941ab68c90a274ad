--------------------------------- MODULE Funds ---------------------------------
(***************************************************************************)
(* Queries for outputs and splits in one process, on one chain: a split    *)
(* makes and spends outputs while a query decides what they are good for.  *)
(***************************************************************************)
EXTENDS Funding, Splits

CONSTANT
  AtOnce  \* bound: queries and splits handled at the same time

Handled ==
  (IF pc \in {"idle", "done", "failed"} THEN 0 ELSE 1)
    + (IF spc \in {"idle", "done"} THEN 0 ELSE 1)

fundsVars == <<chainVars, queryVars, splitVars>>

FundsInit == OutputsInit /\ FundingInit /\ SplitsInit

FundsNext ==
  \/ (QueryStep \/ BisIndexes) /\ UNCHANGED <<chainVars, splitVars>> /\ Handled' =< AtOnce
  \/ SplitStep /\ UNCHANGED <<tip, ordHeight, queryVars>> /\ Handled' =< AtOnce
  \/ ChainStep /\ UNCHANGED <<queryVars, splitVars>>

FundsSpec == FundsInit /\ [][FundsNext]_fundsVars
FairFunds == FundsSpec /\ FundingFairness
===============================================================================
