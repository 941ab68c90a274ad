-------------------------------- MODULE Session --------------------------------
(***************************************************************************)
(* The wallet and its connection in one process: the connection registers  *)
(* under the public key of the wallet, so that it waits for the operator   *)
(* to unlock it, and both forget everything when the process ends.         *)
(***************************************************************************)
EXTENDS WalletKeys, Connection

walletVars == <<row, shards, callVars, failures>>
sessionVars == <<vars, connVars>>

SessionInit == Init /\ ConnInit

(* Requests are answered by a process that is there.                       *)
Answer == phase # "ended" /\ WalletStep /\ UNCHANGED connVars

Communicate == ConnectionStep /\ UNCHANGED walletVars

StartAgain == Restart /\ Reboot

SessionNext == Answer \/ Communicate \/ StartAgain

SessionSpec == SessionInit /\ [][SessionNext]_sessionVars
FairSession == SessionSpec /\ Fairness
===============================================================================
